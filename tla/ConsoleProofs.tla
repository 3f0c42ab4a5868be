------------------------------ MODULE ConsoleProofs ------------------------------
(***************************************************************************)
(* Theorems about the other pages of the console, its offline shell, the     *)
(* rates and the address it shows, and the scripts: for any numbers of rows, *)
(* members, tasks, conversations and provinces, any calendar, and any files  *)
(* the scripts find. They are stated of the specification the harness has,   *)
(* each module proved from its own next-state relation.                      *)
(***************************************************************************)
EXTENDS MCConsole, FiniteSetTheorems, WellFoundedInduction, SequenceTheorems, TLAPS

\* A step of the harness is one of each module, or leaves its variables alone.
LEMMA Steps ==
  [Next]_vars =>
    /\ [N!Next]_(N!vars) /\ [K!Next]_(K!vars) /\ [O!Next]_(O!vars) /\ [T!Next]_(T!vars)
    /\ [R!Next]_(R!vars) /\ [A!Next]_(A!vars) /\ [S!Next]_(S!vars) /\ [F!Next]_(F!vars)
    /\ [D!Next]_(D!vars) /\ [M!Next]_(M!vars) /\ [G!Next]_(G!vars) /\ [B!Next]_(B!vars)
    /\ [C!Next]_(C!vars) /\ [P!Next]_(P!vars) /\ [E!Next]_(E!vars) /\ [H!Next]_(H!vars)
<1>1. Nvars' = Nvars => N!vars' = N!vars
  BY DEF Nvars, N!vars, N!gauge, N!truth
<1>2. Kvars' = Kvars => K!vars' = K!vars
  BY DEF Kvars, K!vars, K!world, K!agent
<1>3. Ovars' = Ovars => O!vars' = O!vars
  BY DEF Ovars, O!vars, O!boundary, O!ghosts
<1>4. Tvars' = Tvars => T!vars' = T!vars
  BY DEF Tvars, T!vars, T!sources, T!config, T!package, T!run
<1>5. Rvars' = Rvars => R!vars' = R!vars
  BY DEF Rvars, R!vars
<1>6. Avars' = Avars => A!vars' = A!vars
  BY DEF Avars, A!vars
<1>7. Svars' = Svars => S!vars' = S!vars
  BY DEF Svars, S!vars
<1>8. Fvars' = Fvars => F!vars' = F!vars
  BY DEF Fvars, F!vars
<1>9. Dvars' = Dvars => D!vars' = D!vars
  BY DEF Dvars, D!vars
<1>10. Mvars' = Mvars => M!vars' = M!vars
  BY DEF Mvars, M!vars
<1>11. Gvars' = Gvars => G!vars' = G!vars
  BY DEF Gvars, G!vars
<1>12. Bvars' = Bvars => B!vars' = B!vars
  BY DEF Bvars, B!vars
<1>13. Cvars' = Cvars => C!vars' = C!vars
  BY DEF Cvars, C!vars
<1>14. Pvars' = Pvars => P!vars' = P!vars
  BY DEF Pvars, P!vars, P!uiVars
<1>15. Evars' = Evars => E!vars' = E!vars
  BY DEF Evars, E!vars
<1>16. Hvars' = Hvars => H!vars' = H!vars
  BY DEF Hvars, H!vars
<1>. QED
  BY <1>1, <1>2, <1>3, <1>4, <1>5, <1>6, <1>7, <1>8, <1>9, <1>10, <1>11, <1>12, <1>13, <1>14,
       <1>15, <1>16
     DEF Next, vars

-----------------------------------------------------------------------------
(* Numbers, and what is defined step by step *)

\* A set of numbers has a least one.
LEMMA LeastNumber ==
  ASSUME NEW Q \in SUBSET Nat, Q # {}
  PROVE  \E n \in Q : \A m \in Q : n <= m
<1>1. IsWellFoundedOn(OpToRel(<, Nat), Nat)
  BY NatLessThanWellFounded
<1>2. PICK n \in Q : \A m \in Q : ~ (<<m, n>> \in OpToRel(<, Nat))
  BY <1>1, WFMin
<1>3. \A m \in Q : ~ (m < n)
  BY <1>2 DEF OpToRel
<1>. QED BY <1>3

\* Induction up to n, of being in a set.
LEMMA UpTo ==
  ASSUME NEW n \in Nat, NEW Q, 0 \in Q, \A i \in 1..n : i - 1 \in Q => i \in Q
  PROVE  \A i \in 0..n : i \in Q
<1> DEFINE Bad == {i \in 0..n : i \notin Q}
<1>1. SUFFICES ASSUME Bad # {} PROVE FALSE
  OBVIOUS
<1>2. Bad \in SUBSET Nat
  OBVIOUS
<1>3. PICK i \in Bad : \A j \in Bad : i <= j
  <2> HIDE DEF Bad
  <2>. QED BY <1>1, <1>2, LeastNumber
<1>4. i \in 0..n /\ i \notin Q /\ i # 0
  BY <1>3
<1>5. i \in 1..n /\ i - 1 \in 0..n /\ ~(i <= i - 1)
  BY <1>4
<1>. QED BY <1>3, <1>4, <1>5

StepByStep(n, X, a, h) ==
  \E f \in [0..n -> X] : f[0] = a /\ \A i \in 1..n : f[i] = h[<<i, f[i - 1]>>]

\* What is made step by step from what was made before is there.
LEMMA Recursion ==
  ASSUME NEW n \in Nat, NEW X, NEW a \in X, NEW h \in [(1..n) \X X -> X]
  PROVE  StepByStep(n, X, a, h)
<1> DEFINE Made(f, m) == f[0] = a /\ \A i \in 1..m : f[i] = h[<<i, f[i - 1]>>]
           Q == {m \in 0..n : \E f \in [0..m -> X] : Made(f, m)}
<1>1. 0 \in Q
  <2>1. [i \in 0..0 |-> a] \in [0..0 -> X] /\ Made([i \in 0..0 |-> a], 0)
    OBVIOUS
  <2>2. 0 \in 0..n
    OBVIOUS
  <2> HIDE DEF Made
  <2>3. \E f \in [0..0 -> X] : Made(f, 0)
    BY <2>1
  <2>. QED BY <2>2, <2>3
<1>2. ASSUME NEW m \in 1..n, m - 1 \in Q PROVE m \in Q
  <2>1. m \in Nat /\ m - 1 \in Nat /\ m # 0
    OBVIOUS
  <2>2. PICK f \in [0..m - 1 -> X] : Made(f, m - 1)
    BY <1>2
  <2> DEFINE g == [i \in 0..m |-> IF i = m THEN h[<<m, f[m - 1]>>] ELSE f[i]]
  <2>3. \A i \in 0..m - 1 : i \in 0..m /\ i # m /\ g[i] = f[i] /\ f[i] \in X
    BY <2>1
  <2>4. g[m] = h[<<m, f[m - 1]>>] /\ g[m] \in X
    BY <2>1
  <2>5. g \in [0..m -> X]
    <3>1. \A i \in 0..m : i = m \/ i \in 0..m - 1
      BY <2>1
    <3>. QED BY <2>3, <2>4, <3>1
  <2>6. Made(g, m)
    <3>1. g[0] = a
      BY <2>1, <2>2, <2>3
    <3>2. ASSUME NEW i \in 1..m PROVE g[i] = h[<<i, g[i - 1]>>]
      <4>1. i - 1 \in 0..m - 1 /\ g[i - 1] = f[i - 1]
        BY <2>1, <2>3
      <4>2. CASE i = m
        BY <2>4, <4>1, <4>2
      <4>3. CASE i # m
        <5>1. i \in 1..m - 1 /\ i \in 0..m - 1
          BY <2>1, <4>3
        <5>. QED BY <2>2, <2>3, <4>1, <5>1
      <4>. QED BY <4>2, <4>3
    <3> HIDE DEF g
    <3>. QED BY <3>1, <3>2
  <2>7. m \in 0..n
    BY <2>1
  <2> HIDE DEF Made, g
  <2>8. \E k \in [0..m -> X] : Made(k, m)
    BY <2>5, <2>6
  <2>. QED BY <2>7, <2>8
<1>3. \A m \in 0..n : m \in Q
  <2> HIDE DEF Q
  <2>. QED BY <1>1, <1>2, UpTo
<1>. QED
  <2>1. \E f \in [0..n -> X] : Made(f, n)
    BY <1>3
  <2>. QED BY <2>1 DEF StepByStep

-----------------------------------------------------------------------------
(* Rates *)

\* What has been sent since the baseline, and the time that took.
NInv ==
  /\ N!TypeOK
  /\ prev # None =>
       /\ seconds = elapsed
       /\ bytes - prev <= traffic
       /\ dropped \/ bytes - prev = traffic

LEMMA NInitInv == N!Init => NInv
<1>. SUFFICES ASSUME N!Init PROVE NInv
  OBVIOUS
<1>1. bytes \in 0..MaxBytes /\ elapsed \in 0..MaxElapsed /\ rate \in Nat
      /\ traffic \in Nat /\ seconds \in Nat
  BY ConsoleAssumption DEF N!Init
<1>. QED BY <1>1 DEF N!Init, NInv, N!TypeOK

\* A rate is a natural number of tenths.
LEMMA SampleType == NInv /\ N!Sample => rate' \in Nat
<1>. SUFFICES ASSUME NInv, N!Sample PROVE rate' \in Nat
  OBVIOUS
<1>1. CASE prev = None \/ elapsed = 0
  BY <1>1 DEF N!Sample
<1>2. CASE ~(prev = None \/ elapsed = 0)
  BY <1>2 DEF N!Sample, N!Tenths
<1>. QED BY <1>1, <1>2

LEMMA NStepInv == NInv /\ [N!Next]_(N!vars) => NInv'
<1>. SUFFICES ASSUME NInv, [N!Next]_(N!vars) PROVE NInv'
  OBVIOUS
<1>0. MaxBytes \in Nat /\ MaxElapsed \in Nat
  BY ConsoleAssumption
<1>. USE <1>0 DEF NInv, N!TypeOK, N!gauge, N!truth
<1>1. CASE N!Send
  BY <1>1 DEF N!Send
<1>2. CASE N!Drop
  BY <1>2 DEF N!Drop
<1>3. CASE N!Second
  BY <1>3 DEF N!Second
<1>4. CASE N!Restart
  <2>1. elapsed' \in 0..MaxElapsed /\ rate' \in Nat /\ traffic' \in Nat /\ seconds' \in Nat
    BY <1>4 DEF N!Restart
  <2>. QED BY <1>4, <2>1 DEF N!Restart
<1>5. CASE N!Sample
  <2>1. rate' \in Nat
    BY <1>5, SampleType
  <2>2. N!Baseline /\ UNCHANGED bytes
    BY <1>5 DEF N!Sample
  <2>3. elapsed' \in 0..MaxElapsed /\ traffic' \in Nat /\ seconds' \in Nat
        /\ bytes' - prev' = traffic' /\ seconds' = elapsed' /\ prev' \in Nat
        /\ bytes' - prev' <= traffic'
    BY <2>2 DEF N!Baseline
  <2>. QED BY <2>1, <2>2, <2>3 DEF N!Baseline
<1>6. CASE N!SampleFails
  BY <1>6 DEF N!SampleFails
<1>7. CASE UNCHANGED N!vars
  BY <1>7 DEF N!vars
<1>. QED BY <1>1, <1>2, <1>3, <1>4, <1>5, <1>6, <1>7 DEF N!Next

LEMMA RateStep ==
  NInv /\ N!Next =>
    (N!Sample /\ prev # None /\ elapsed > 0 =>
       /\ 2 * rate' * seconds <= 20 * traffic + seconds
       /\ dropped \/ 2 * rate' * seconds >= 20 * traffic - seconds)
<1>. SUFFICES ASSUME NInv, N!Sample, prev # None, elapsed > 0
              PROVE  /\ 2 * rate' * seconds <= 20 * traffic + seconds
                     /\ dropped \/ 2 * rate' * seconds >= 20 * traffic - seconds
  OBVIOUS
<1>1. rate' \in Nat /\ seconds = elapsed /\ elapsed \in Nat /\ traffic \in Nat
      /\ prev \in Nat /\ bytes \in Nat
  BY ConsoleAssumption, SampleType DEF NInv, N!TypeOK
<1>2. N!Growth \in Nat /\ N!Growth <= traffic /\ (dropped \/ N!Growth = traffic)
  BY <1>1 DEF NInv, N!Growth
<1>. DEFINE twice == 2 * rate' * elapsed
<1>3. twice \in (20 * N!Growth - elapsed)..(20 * N!Growth + elapsed)
  <2>1. elapsed # 0
    BY <1>1
  <2>2. rate' \in N!Tenths(N!Growth, elapsed)
    BY <2>1 DEF N!Sample
  <2>. QED BY <2>2 DEF N!Tenths
<1>4. twice \in Int
  BY <1>1
<1>. HIDE DEF twice
<1>5. 20 * N!Growth - elapsed <= twice /\ twice <= 20 * N!Growth + elapsed
  BY <1>1, <1>2, <1>3
<1>6. twice <= 20 * traffic + elapsed /\ (dropped \/ twice >= 20 * traffic - elapsed)
  BY <1>1, <1>2, <1>4, <1>5
<1>. QED BY <1>1, <1>6 DEF twice

\* Each unit begins with so many of the one before, and with a whole number of
\* tenths.
LEMMA LeastStep ==
  /\ N!Least[0] = 10 /\ Units \in Nat \ {0}
  /\ \A i \in 1..Units : N!Least[i] = Kilo * N!Least[i - 1]
  /\ \A i \in 0..Units : N!Least[i] \in Nat
<1> DEFINE Begins(f) == f = [i \in 0..Units |-> IF i = 0 THEN 10 ELSE Kilo * f[i - 1]]
           h == [x \in (1..Units) \X Nat |-> Kilo * x[2]]
<1>0. Kilo \in Nat /\ Units \in Nat \ {0}
  BY ConsoleAssumption
<1>1. \E f : Begins(f)
  <2>1. h \in [(1..Units) \X Nat -> Nat]
    BY <1>0
  <2>2. PICK f \in [0..Units -> Nat] : f[0] = 10 /\ \A i \in 1..Units : f[i] = h[<<i, f[i - 1]>>]
    <3>1. Units \in Nat /\ 10 \in Nat
      BY <1>0
    <3> HIDE DEF h
    <3>2. StepByStep(Units, Nat, 10, h)
      BY <2>1, <3>1, Recursion
    <3>. QED BY <3>2 DEF StepByStep
  <2>3. ASSUME NEW i \in 0..Units PROVE f[i] = IF i = 0 THEN 10 ELSE Kilo * f[i - 1]
    <3>1. CASE i = 0
      BY <2>2, <3>1
    <3>2. CASE i # 0
      <4>1. i \in 1..Units /\ i - 1 \in 0..Units
        BY <1>0, <3>2
      <4>2. <<i, f[i - 1]>> \in (1..Units) \X Nat
        BY <4>1
      <4>. QED BY <2>2, <3>2, <4>1, <4>2
    <3>. QED BY <3>1, <3>2
  <2>4. Begins(f)
    BY <2>3
  <2>. QED BY <2>4
<1>2. Begins(N!Least)
  BY <1>1 DEF N!Least
<1>3. N!Least[0] = 10
  BY <1>0, <1>2
<1>4. \A i \in 1..Units : N!Least[i] = Kilo * N!Least[i - 1]
  <2>1. \A i \in 1..Units : i \in 0..Units /\ i # 0
    BY <1>0
  <2>. QED BY <1>2, <2>1
<1>5. \A i \in 0..Units : i \in {j \in 0..Units : N!Least[j] \in Nat}
  <2>1. \A i \in 1..Units : i - 1 \in {j \in 0..Units : N!Least[j] \in Nat} =>
                              i \in {j \in 0..Units : N!Least[j] \in Nat}
    <3>1. \A i \in 1..Units : i \in 0..Units
      OBVIOUS
    <3>2. \A x \in Nat : Kilo * x \in Nat
      BY <1>0
    <3>. QED BY <1>4, <3>1, <3>2
  <2>2. 0 \in {j \in 0..Units : N!Least[j] \in Nat}
    BY <1>0, <1>3
  <2>. QED BY <1>0, <2>1, <2>2, UpTo
<1>. QED BY <1>0, <1>3, <1>4, <1>5

\* A rate of a byte a second or more is at or over the beginning of some unit,
\* and under that of the next, if there is one.
LEMMA PowerIs ==
  ASSUME NEW n \in Nat, n >= 10
  PROVE  /\ N!Power(n) \in 0..Units /\ N!Least[N!Power(n)] <= n
         /\ N!Power(n) < Units => n < N!Least[N!Power(n) + 1]
<1> DEFINE Fits(i) == N!Least[i] <= n /\ (i < Units => n < N!Least[i + 1])
           Q == {i \in 0..Units : n < N!Least[i]}
<1>0. /\ N!Least[0] = 10 /\ Units \in Nat \ {0} /\ \A i \in 0..Units : N!Least[i] \in Nat
  BY LeastStep
<1>1. \E i \in 0..Units : Fits(i)
  <2>1. CASE Q = {}
    <3>1. Units \in 0..Units /\ ~(n < N!Least[Units])
      BY <1>0, <2>1
    <3>. QED BY <1>0, <3>1
  <2>2. CASE Q # {}
    <3>1. PICK i \in Q : \A j \in Q : i <= j
      <4>1. Q \in SUBSET Nat
        OBVIOUS
      <4> HIDE DEF Q
      <4>. QED BY <2>2, <4>1, LeastNumber
    <3>2. i \in 0..Units /\ n < N!Least[i] /\ i # 0
      BY <1>0, <3>1
    <3>3. i - 1 \in 0..Units /\ ~(i <= i - 1) /\ i - 1 + 1 = i
      BY <1>0, <3>2
    <3>4. ~(n < N!Least[i - 1])
      BY <3>1, <3>3
    <3>5. N!Least[i - 1] <= n
      BY <1>0, <3>3, <3>4
    <3>. QED BY <3>2, <3>3, <3>5
  <2>. QED BY <2>1, <2>2
<1>2. N!Power(n) = CHOOSE i \in 0..Units : Fits(i)
  BY <1>0 DEF N!Power
<1>3. N!Power(n) \in 0..Units /\ Fits(N!Power(n))
  <2> HIDE DEF Fits
  <2>. QED BY <1>1, <1>2
<1>. QED BY <1>3

LEMMA UnitWritten == N!TypeOK => N!WrittenInAUnit
<1>. SUFFICES ASSUME rate \in Nat PROVE N!WrittenInAUnit
  BY DEF N!TypeOK
<1>0. /\ N!Least[0] = 10 /\ Units \in Nat \ {0} /\ \A i \in 0..Units : N!Least[i] \in Nat
  BY LeastStep
<1>1. CASE rate = 0
  BY <1>1 DEF N!WrittenInAUnit, N!UnitOf
<1>2. CASE rate # 0 /\ rate < 10
  <2>1. N!Power(rate) = -1
    BY <1>0, <1>2 DEF N!Power
  <2>2. N!UnitOf(rate) = N!Undefined
    BY <1>0, <1>2, <2>1 DEF N!UnitOf
  <2>. QED BY <1>0, <1>2, <2>2 DEF N!WrittenInAUnit
<1>3. CASE rate >= 10
  <2>1. /\ N!Power(rate) \in 0..Units /\ N!Least[N!Power(rate)] <= rate
        /\ N!Power(rate) < Units => rate < N!Least[N!Power(rate) + 1]
    BY <1>3, PowerIs
  <2>2. CASE N!Power(rate) = Units
    <3>1. Units \notin 0..(Units - 1) /\ rate # 0
      BY <1>0, <1>3
    <3>2. N!UnitOf(rate) = N!Undefined
      BY <2>2, <3>1 DEF N!UnitOf
    <3>3. rate >= N!Least[Units]
      BY <1>0, <2>1, <2>2
    <3>. QED BY <3>1, <3>2, <3>3 DEF N!WrittenInAUnit
  <2>3. CASE N!Power(rate) # Units
    <3>1. N!Power(rate) \in 0..(Units - 1) /\ N!Power(rate) < Units /\ rate # 0
      BY <1>0, <1>3, <2>1, <2>3
    <3>2. N!UnitOf(rate) = N!Power(rate)
      BY <3>1 DEF N!UnitOf
    <3>. QED BY <2>1, <3>1, <3>2 DEF N!WrittenInAUnit
  <2>. QED BY <2>2, <2>3
<1>. QED BY <1>1, <1>2, <1>3

-----------------------------------------------------------------------------
(* Address *)

\* What a lookup from one place says, where it says something.
OfOne(c) == \E p \in Places : \A f \in Fields : c[f] \in {K!Say(p, f), None}

\* The cache and every report are of one lookup each, and the row is unless it
\* was pieced together.
KInv ==
  /\ K!TypeOK
  /\ OfOne(geoCache)
  /\ \A s \in K!Sessions : session[s].report # K!Absent => OfOne(session[s].report)
  /\ K!OneLookup

LEMMA SaysContents ==
  /\ K!Blank \in K!Contents
  /\ \A p \in Places : K!Told(p) \in K!Contents
  /\ \A p \in Places, f \in Fields : K!Say(p, f) \in Places \cup K!Countries
<1>1. \A p \in Places, f \in Fields : K!Say(p, f) \in Places \cup K!Countries
  BY DEF K!Say, K!Countries
<1>2. K!Blank \in K!Contents
  BY DEF K!Blank, K!Contents
<1>3. ASSUME NEW p \in Places PROVE K!Told(p) \in K!Contents
  BY <1>1 DEF K!Told, K!Contents
<1>. QED BY <1>1, <1>2, <1>3

\* A lookup that leaves nothing out tells its place.
LEMMA FullTells ==
  ASSUME NEW c \in K!Contents, OfOne(c), \A f \in Fields : c[f] # None
  PROVE  \E p \in Places : c = K!Told(p)
<1>1. PICK p \in Places : \A f \in Fields : c[f] \in {K!Say(p, f), None}
  BY DEF OfOne
<1>2. c = [f \in Fields |-> K!Say(p, f)]
  BY <1>1 DEF K!Contents
<1>. QED BY <1>2 DEF K!Told

\* The states a session begins, loads and commits with.
LEMMA SessionStates ==
  ASSUME K!TypeOK, NEW s \in K!Sessions
  PROVE  /\ session[s] \in K!Session
         /\ K!Fresh \in K!Session /\ K!Fresh.report = K!Absent
         /\ [K!Fresh EXCEPT !.memo = "stored"] \in K!Session
         /\ [K!Fresh EXCEPT !.memo = "stored"].report = K!Absent
         /\ [session[s] EXCEPT !.memo = "read", !.copy = row] \in K!Session
         /\ [session[s] EXCEPT !.memo = "read", !.copy = row].report = session[s].report
<1>1. session[s] \in K!Session
  BY DEF K!TypeOK
<1>2. K!Fresh \in K!Session /\ K!Fresh.report = K!Absent
  BY DEF K!Fresh, K!Session
<1>3. row \in K!Contents \cup {K!Absent}
  BY DEF K!TypeOK
<1> HIDE DEF K!TypeOK
<1>. QED BY <1>1, <1>2, <1>3 DEF K!Session

\* Where one session changes, its report is of one lookup if it was before.
LEMMA BecomesKeeps ==
  ASSUME KInv, NEW s \in K!Sessions, NEW state \in K!Session, K!Becomes(s, state),
         state.report # K!Absent => OfOne(state.report)
  PROVE  /\ session' \in [K!Sessions -> K!Session]
         /\ \A z \in K!Sessions : session'[z].report # K!Absent => OfOne(session'[z].report)
BY DEF KInv, K!TypeOK, K!Becomes

LEMMA StoredIsContents ==
  ASSUME K!TypeOK, NEW s \in K!Sessions, session[s].report # K!Absent
  PROVE  /\ K!Stored(s) \in K!Contents
         /\ K!Replaces(s) => K!Stored(s) = session[s].report
<1>1. session[s].report \in K!Contents /\ session[s] \in K!Session
  BY DEF K!TypeOK, K!Session
<1>2. K!Known \in K!Contents
  BY SaysContents DEF K!TypeOK, K!Known
<1>3. K!Stored(s) \in K!Contents
  BY <1>1, <1>2 DEF K!Stored, K!Contents
<1>4. ASSUME K!Replaces(s) PROVE K!Stored(s) = session[s].report
  <2>1. session[s].copy = row /\ \A f \in Fields : session[s].report[f] # None
    BY <1>4 DEF K!Replaces
  <2>2. \A f \in Fields : K!Stored(s)[f] = session[s].report[f]
    BY <2>1 DEF K!Stored, K!Known
  <2>. QED BY <1>1, <1>3, <2>2 DEF K!Contents
<1>. QED BY <1>3, <1>4

LEMMA KInitInv == K!Init => KInv
<1>. SUFFICES ASSUME K!Init PROVE KInv
  OBVIOUS
<1>1. geoPlace \in Places /\ geoCache = K!Blank /\ row = K!Absent
  BY DEF K!Init, K!Launched
<1>2. K!Fresh \in K!Session /\ K!Fresh.report = K!Absent
  BY DEF K!Fresh, K!Session
<1>3. session \in [K!Sessions -> K!Session] /\ \A s \in K!Sessions : session[s].report = K!Absent
  BY <1>2 DEF K!Init
<1>4. K!TypeOK
  BY <1>1, <1>3, SaysContents, ConsoleAssumption DEF K!Init, K!Launched, K!TypeOK
<1>5. OfOne(geoCache)
  BY <1>1 DEF OfOne, K!Blank
<1>. QED BY <1>1, <1>3, <1>4, <1>5 DEF KInv, K!OneLookup

LEMMA KStepInv == KInv /\ [K!Next]_(K!vars) => KInv'
<1>. SUFFICES ASSUME KInv, [K!Next]_(K!vars) PROVE KInv'
  OBVIOUS
<1>0. /\ geoPlace \in Places /\ None \notin Places /\ MaxUpsets \in Nat
      /\ asked \in Places \cup {None} /\ (asked = None <=> task = "wait")
  BY ConsoleAssumption DEF KInv, K!TypeOK
\* Where the row stays, so does what it was pieced from.
<1>1. ASSUME UNCHANGED <<row, pieced>> PROVE K!OneLookup'
  BY <1>1 DEF KInv, K!OneLookup, K!Told, K!Say
<1>3. ASSUME K!Upset PROVE left' \in 0..MaxUpsets
  BY <1>0, <1>3 DEF K!Upset, KInv, K!TypeOK
<1>4. CASE K!Wake
  BY <1>0, <1>1, <1>4 DEF K!Wake, K!world, KInv, K!TypeOK, OfOne, K!Say
<1>5. CASE K!LookupFails
  <2>1. left' \in 0..MaxUpsets
    BY <1>3, <1>5 DEF K!LookupFails, KInv, K!TypeOK
  <2>. QED BY <1>0, <1>1, <1>5, <2>1 DEF K!LookupFails, K!world, KInv, K!TypeOK, OfOne, K!Say
<1>6. ASSUME NEW got \in SUBSET Fields, K!Answer(got) PROVE KInv'
  <2>1. left' \in 0..MaxUpsets
    BY <1>3, <1>6 DEF K!Answer, KInv, K!TypeOK
  <2>2. asked \in Places
    BY <1>0, <1>6 DEF K!Answer, K!LookingUp
  <2>3. geoCache' = [f \in Fields |-> IF f \in got THEN K!Say(asked, f) ELSE None]
    BY <1>6 DEF K!Answer
  <2>4. geoCache' \in K!Contents
    BY <2>2, <2>3, SaysContents DEF K!Contents
  <2>5. OfOne(geoCache')
    BY <2>2, <2>3 DEF OfOne
  <2>6. K!TypeOK'
    BY <1>6, <2>1, <2>4 DEF K!Answer, K!world, KInv, K!TypeOK
  <2>. QED BY <1>1, <1>6, <2>5, <2>6 DEF K!Answer, KInv, OfOne, K!Say
<1>7. CASE K!Report
  <2>1. "new" \in K!Sessions
    BY DEF K!Sessions
  <2>2. session["new"] \in K!Session /\ geoCache \in K!Contents
    BY <2>1 DEF KInv, K!TypeOK
  <2> DEFINE state == [session["new"] EXCEPT !.report = geoCache]
  <2>3. state \in K!Session /\ state.report = geoCache
    BY <2>2 DEF K!Session
  <2>4. K!Becomes("new", state)
    BY <1>7 DEF K!Report, K!Becomes
  <2>5. /\ session' \in [K!Sessions -> K!Session]
        /\ \A z \in K!Sessions : session'[z].report # K!Absent => OfOne(session'[z].report)
    <3> HIDE DEF state
    <3>. QED BY <2>1, <2>3, <2>4, BecomesKeeps DEF KInv
  <2>. QED BY <1>1, <1>7, <2>5 DEF K!Report, K!world, K!agent, KInv, K!TypeOK, OfOne, K!Say
<1>8. ASSUME K!Reopened
      PROVE  /\ session' \in [K!Sessions -> K!Session] /\ left' \in 0..MaxUpsets
             /\ \A z \in K!Sessions : session'[z].report # K!Absent => OfOne(session'[z].report)
  <2>1. "new" \in K!Sessions /\ K!Sessions = {"new", "old"}
    BY DEF K!Sessions
  <2>2. session["new"] \in K!Session /\ K!Fresh \in K!Session /\ K!Fresh.report = K!Absent
    BY <2>1, SessionStates DEF KInv
  <2>3. session["new"].report # K!Absent => OfOne(session["new"].report)
    BY <2>1 DEF KInv
  <2>4. session' = [new |-> K!Fresh, old |-> IF session["new"].report = K!Absent
                                             THEN K!Fresh ELSE session["new"]]
    BY <1>8 DEF K!Reopened
  <2>5. DOMAIN session' = {"new", "old"}
    BY <2>4
  <2>6. session'["new"] = K!Fresh /\ session'["old"] \in {K!Fresh, session["new"]}
    BY <2>4
  <2>7. left' \in 0..MaxUpsets
    BY <1>3, <1>8 DEF K!Reopened
  <2>8. session' \in [K!Sessions -> K!Session]
    BY <2>1, <2>2, <2>4
  <2>. QED BY <2>1, <2>2, <2>3, <2>6, <2>7, <2>8
<1>9. CASE K!Reconnect
  BY <1>1, <1>8, <1>9 DEF K!Reconnect, K!world, K!agent, KInv, K!TypeOK, OfOne, K!Say
<1>10. CASE K!Restart
  <2>1. geoCache' = K!Blank /\ geoCache' \in K!Contents
    BY <1>10, SaysContents DEF K!Restart, K!Contents
  <2>2. OfOne(geoCache')
    BY <1>0, <2>1 DEF OfOne, K!Blank
  <2>3. K!TypeOK'
    BY <1>0, <1>8, <1>10, <2>1 DEF K!Restart, K!world, KInv, K!TypeOK
  <2>. QED BY <1>1, <1>8, <1>10, <2>2, <2>3 DEF K!Restart, KInv, OfOne, K!Say
<1>11. ASSUME NEW s \in K!Sessions, NEW state \in K!Session, K!Becomes(s, state),
              state.report # K!Absent => OfOne(state.report),
              K!OneLookup', row' \in K!Contents \cup {K!Absent}, pieced' \in BOOLEAN,
              left' \in 0..MaxUpsets, UNCHANGED <<K!world, K!agent>>
       PROVE  KInv'
  <2>1. /\ session' \in [K!Sessions -> K!Session]
        /\ \A z \in K!Sessions : session'[z].report # K!Absent => OfOne(session'[z].report)
    BY <1>11, BecomesKeeps
  <2>2. K!TypeOK'
    BY <1>11, <2>1 DEF KInv, K!TypeOK, K!world, K!agent
  <2>. QED BY <1>11, <2>1, <2>2 DEF KInv, OfOne, K!Say, K!agent
<1>12. ASSUME NEW s \in K!Sessions, K!Load(s) PROVE KInv'
  <2> DEFINE state == [session[s] EXCEPT !.memo = "read", !.copy = row]
  <2>1. state \in K!Session /\ state.report = session[s].report
    BY SessionStates DEF KInv
  <2>2. K!Becomes(s, state)
    BY <1>12 DEF K!Load
  <2> HIDE DEF state
  <2>. QED BY <1>1, <1>11, <1>12, <2>1, <2>2 DEF K!Load, KInv, K!TypeOK
<1>13. ASSUME NEW s \in K!Sessions, K!Store(s) PROVE KInv'
  <2>1. /\ session[s].report # K!Absent /\ session[s].report \in K!Contents
        /\ K!Fresh \in K!Session /\ K!Fresh.report = K!Absent
        /\ [K!Fresh EXCEPT !.memo = "stored"] \in K!Session
        /\ [K!Fresh EXCEPT !.memo = "stored"].report = K!Absent
    BY <1>13, SessionStates DEF K!Store, KInv, K!TypeOK, K!Session
  <2>2. CASE ~((session[s].copy = K!Absent) = (row = K!Absent))
    BY <1>1, <1>11, <1>13, <2>1, <2>2 DEF K!Store, KInv, K!TypeOK
  <2>3. CASE (session[s].copy = K!Absent) = (row = K!Absent)
    <3>1. /\ row' = K!Stored(s) /\ pieced' = (~K!Replaces(s) /\ (pieced \/ row' # row))
          /\ K!Becomes(s, IF s = "old" THEN K!Fresh ELSE [K!Fresh EXCEPT !.memo = "stored"])
      BY <1>13, <2>3 DEF K!Store
    <3>2. K!Stored(s) \in K!Contents /\ (K!Replaces(s) => K!Stored(s) = session[s].report)
      BY <2>1, StoredIsContents DEF KInv
    <3>3. K!OneLookup'
      <4>1. CASE K!Replaces(s)
        <5>1. OfOne(session[s].report) /\ \A f \in Fields : session[s].report[f] # None
          BY <2>1, <4>1 DEF KInv, K!Replaces
        <5>2. \E p \in Places : row' = K!Told(p)
          BY <2>1, <3>1, <3>2, <4>1, <5>1, FullTells
        <5>. QED BY <5>2 DEF K!OneLookup, K!Told, K!Say
      <4>2. CASE ~K!Replaces(s) /\ pieced'
        BY <4>2 DEF K!OneLookup
      <4>3. CASE ~K!Replaces(s) /\ ~pieced'
        <5>1. ~pieced /\ row' = row
          BY <3>1, <4>3
        <5>. QED BY <5>1 DEF KInv, K!OneLookup, K!Told, K!Say
      <4>. QED BY <4>1, <4>2, <4>3
    <3>4. pieced' \in BOOLEAN /\ left' \in 0..MaxUpsets /\ UNCHANGED <<K!world, K!agent>>
      BY <1>13, <3>1 DEF K!Store, KInv, K!TypeOK
    <3>. QED BY <1>11, <2>1, <3>1, <3>2, <3>3, <3>4
  <2>. QED BY <2>2, <2>3
<1>14. ASSUME NEW s \in K!Sessions, K!Refresh(s) PROVE KInv'
  <2> DEFINE state == IF row = K!Absent THEN K!Fresh
                      ELSE [session[s] EXCEPT !.memo = "read", !.copy = row]
  <2>1. state \in K!Session /\ state.report \in {K!Absent, session[s].report}
    BY SessionStates DEF KInv
  <2>2. K!Becomes(s, state)
    BY <1>14 DEF K!Refresh
  <2> HIDE DEF state
  <2>3. state.report # K!Absent => OfOne(state.report)
    BY <2>1 DEF KInv
  <2>. QED BY <1>1, <1>11, <1>14, <2>1, <2>2, <2>3 DEF K!Refresh, KInv, K!TypeOK
<1>15. ASSUME NEW s \in K!Sessions, K!Lose(s) PROVE KInv'
  <2>1. K!Fresh \in K!Session /\ K!Fresh.report = K!Absent
    BY SessionStates DEF KInv
  <2>2. left' \in 0..MaxUpsets
    BY <1>3, <1>15 DEF K!Lose
  <2>. QED BY <1>1, <1>11, <1>15, <2>1, <2>2 DEF K!Lose, KInv, K!TypeOK
<1>16. CASE K!Remove
  <2>1. left' \in 0..MaxUpsets /\ K!OneLookup'
    BY <1>3, <1>16 DEF K!Remove, K!OneLookup, K!Absent
  <2>. QED BY <1>16, <2>1 DEF K!Remove, K!world, K!agent, KInv, K!TypeOK, OfOne, K!Say
<1>17. CASE K!Move
  <2>1. left' \in 0..MaxUpsets
    BY <1>3, <1>17 DEF K!Move
  <2>. QED BY <1>1, <1>17, <2>1 DEF K!Move, K!agent, KInv, K!TypeOK, OfOne, K!Say
<1>18. CASE UNCHANGED K!vars
  BY <1>1, <1>18 DEF K!vars, K!world, K!agent, KInv, K!TypeOK, OfOne, K!Say
<1>. QED
  BY <1>4, <1>5, <1>6, <1>7, <1>9, <1>10, <1>12, <1>13, <1>14, <1>15, <1>16, <1>17, <1>18
     DEF K!Next, K!Lookup, K!Serve

-----------------------------------------------------------------------------
(* Offline shell *)

\* A page is rendered only in a document, and an error of its chunk is on show
\* only where the connection has not come back.
OInv ==
  /\ O!TypeOK
  /\ doc = "none" => shellError = "none"
  /\ O!StatusIsTold /\ O!ChunkErrorEndsOnline
  /\ doc = "render" => shellError = "none" /\ (told = shellOnline \/ flipped)

LEMMA OInitInv == O!Init => OInv
<1>1. O!Init => retryCount \in 0..MaxRetries
  BY ConsoleAssumption DEF O!Init
<1>. QED
  BY <1>1 DEF O!Init, OInv, O!TypeOK, O!StatusIsTold, O!ChunkErrorEndsOnline, O!Lazies, O!Errors

LEMMA ShellFresh ==
  ASSUME OInv, O!Fresh, shellOnline' \in BOOLEAN, shellPlace' \in {"home", "page"}
  PROVE  OInv'
<1>1. retryCount' \in 0..MaxRetries
  BY ConsoleAssumption DEF O!Fresh
<1>2. /\ told' \in BOOLEAN /\ banner' \in BOOLEAN /\ told' = shellOnline' /\ banner' = shellOnline'
      /\ doc' \in {"render", "none"} /\ shellError' = "none" /\ lazy' = "never"
      /\ flipped' = FALSE /\ since' = FALSE
  BY DEF O!Fresh
<1>. QED
  BY <1>1, <1>2 DEF OInv, O!TypeOK, O!StatusIsTold, O!ChunkErrorEndsOnline, O!Lazies, O!Errors

LEMMA OStepInv == OInv /\ [O!Next]_(O!vars) => OInv'
<1>. SUFFICES ASSUME OInv, [O!Next]_(O!vars) PROVE OInv'
  OBVIOUS
<1>1. shellOnline \in BOOLEAN /\ shellPlace \in {"home", "page"}
  BY DEF OInv, O!TypeOK
<1>2. CASE O!Reload
  BY <1>1, <1>2, ShellFresh DEF O!Reload
<1>3. CASE O!Home
  BY <1>1, <1>3, ShellFresh DEF O!Home
<1>4. CASE O!GoOnline
  <2>1. shellOnline' \in BOOLEAN /\ shellPlace' \in {"home", "page"}
    BY <1>1, <1>4 DEF O!GoOnline
  <2>2. CASE O!Fresh
    BY <2>1, <2>2, ShellFresh
  <2>3. CASE ~O!Fresh
    BY <1>4, <2>1, <2>3 DEF O!GoOnline, OInv, O!TypeOK, O!StatusIsTold, O!ChunkErrorEndsOnline
  <2>. QED BY <2>2, <2>3
<1>. USE DEF OInv, O!TypeOK, O!StatusIsTold, O!ChunkErrorEndsOnline, O!Lazies, O!Errors,
     O!boundary, O!ghosts
<1>5. CASE O!Mount
  BY <1>5 DEF O!Mount
<1>6. CASE O!GoOffline
  BY <1>6 DEF O!GoOffline
<1>7. ASSUME NEW p \in {"home", "page"}, O!Open(p) PROVE OInv'
  BY <1>7 DEF O!Open, O!Render
<1>8. CASE O!ImportOk
  BY <1>8 DEF O!ImportOk
<1>9. CASE O!ImportFails
  BY <1>9 DEF O!ImportFails
<1>10. CASE O!RenderFails
  BY <1>10 DEF O!RenderFails
<1>11. CASE O!Retry
  <2>1. retryCount' \in 0..MaxRetries
    <3>1. MaxRetries \in Nat
      BY ConsoleAssumption
    <3>. QED BY <1>11, <3>1 DEF O!Retry
  <2>. QED BY <1>11, <2>1 DEF O!Retry, O!Render
<1>12. CASE UNCHANGED O!vars
  BY <1>12 DEF O!vars
<1>. QED
  BY <1>2, <1>3, <1>4, <1>5, <1>6, <1>7, <1>8, <1>9, <1>10, <1>11, <1>12 DEF O!Next

-----------------------------------------------------------------------------
(* Scripts *)

\* A text that i18n-remove has no more to do about: it is Chinese or gone, or
\* the script cannot resolve it.
NothingToDo(f) == text[f] # "call" \/ f \in Computed \cup torn

\* The texts under src/locales, and those a running script has read from there,
\* are all that it still needs: a file whose text is not among them is done.
TextsStay ==
  /\ \A f \in T!Files : text[f] # "default"
  /\ \A f \in T!Files : f \notin locales => NothingToDo(f)
  /\ step \in {"names", "config", "files"} => \A f \in T!Files : f \notin map => NothingToDo(f)
  /\ \A f \in T!Files \cap Computed : text[f] \in {"call", "gone"}
  /\ step = "files" => \A f \in T!Files \ todo : NothingToDo(f)
  /\ step \in {"locales", "entry", "check"} => \A f \in T!Files : NothingToDo(f)
  /\ step \in {"entry", "check"} \/ "i18n-remove" \notin entries => locales = {}
  /\ step \in {"files", "locales", "entry", "check"} \/ "i18n-remove" \notin entries
       => "config" \in torn \/ ~locale

\* What simple.js has done at each of its steps stays done: the directories,
\* the routes, the backup, package.json; the script itself goes after its entry.
CutStays ==
  /\ \A f \in Kept : text[f] # "gone"
  /\ step = "dirs" => todo \subseteq Dropped /\ \A f \in Dropped \ todo : text[f] = "gone"
  /\ step \in {"routes", "unlink", "shrink", "self"} \/ "simple" \notin entries =>
       \A f \in Dropped : text[f] = "gone"
  /\ routes = "simple" => chinese = {}
  /\ step = "unlink" \/ ~backup => routes = "simple" /\ "routes" \notin torn
  /\ step \in {"shrink", "self"} \/ "simple" \notin entries => ~backup
  /\ step = "self" => "simple" \notin entries
  /\ "simple" \notin entries => ~deps
  /\ "simple" \in entries => script

TInv == T!TypeOK /\ TextsStay /\ CutStays

LEMMA TInitInv == T!Init => TInv
BY DEF T!Init, TInv, T!TypeOK, TextsStay, CutStays, T!Keys, T!Scripts, T!Files, T!Steps

\* No file has the name of what the scripts rewrite besides the sources.
LEMMA NamesDiffer == \A f \in T!Files : f # "routes" /\ f # "config" /\ f # "package"
BY ConsoleAssumption

LEMMA KeptStay == Kept \cap Dropped = {}
BY ConsoleAssumption

LEMMA TStepInv == TInv /\ [T!Next]_(T!vars) => TInv'
<1>. SUFFICES ASSUME TInv, [T!Next]_(T!vars) PROVE TInv'
  OBVIOUS
<1>1. CASE UNCHANGED T!vars
  BY <1>1 DEF T!vars, T!sources, T!config, T!package, T!run, TInv, T!TypeOK, TextsStay,
       CutStays, NothingToDo
<1>2. CASE T!RunSimple
  BY <1>2 DEF T!RunSimple, T!sources, T!config, T!package, TInv, T!TypeOK, TextsStay,
       CutStays, NothingToDo,
     T!Files, T!Steps
<1>3. CASE T!RunI18n
  BY <1>3 DEF T!RunI18n, T!sources, T!config, T!package, TInv, T!TypeOK, TextsStay, CutStays,
       NothingToDo,
     T!Steps
<1>4. CASE T!Stop
  <2>1. torn \subseteq torn' /\ torn' \subseteq T!Written
    BY <1>4 DEF T!Stop, TInv, T!TypeOK, T!Written
  <2>2. "routes" \in torn' => "routes" \in torn \/ backup
    BY <1>4, NamesDiffer DEF T!Stop, TInv, T!TypeOK, CutStays
  <2>3. /\ \A f \in T!Files : NothingToDo(f) => NothingToDo(f)'
        /\ UNCHANGED <<text, T!config, T!package>> /\ step' = "idle" /\ todo' = {} /\ map' = {}
    BY <1>4, <2>1 DEF T!Stop, NothingToDo
  <2>4. locales' \subseteq locales /\ (locales' # locales => step = "locales")
    BY <1>4 DEF T!Stop
  <2>5. T!TypeOK'
    BY <2>1, <2>3, <2>4 DEF TInv, T!TypeOK, T!config, T!package
  <2>6. TextsStay'
    BY <2>1, <2>3, <2>4 DEF TInv, TextsStay, T!config, T!package
  <2>7. CutStays'
    BY <2>2, <2>3 DEF TInv, CutStays, T!config, T!package
  <2>. QED BY <2>5, <2>6, <2>7 DEF TInv
<1>5. CASE T!DeleteDir
  <2>. PICK f \in todo : /\ text' = [text EXCEPT ![f] = "gone"] /\ torn' = torn \ {f}
                         /\ todo' = todo \ {f}
    BY <1>5 DEF T!DeleteDir
  <2>1. f \in Dropped /\ f \in T!Files /\ f \notin Kept
    BY <1>5, KeptStay DEF T!DeleteDir, TInv, CutStays, T!Files
  <2>2. \A g \in T!Files : NothingToDo(g) => NothingToDo(g)'
    BY <2>1 DEF NothingToDo, TInv, T!TypeOK
  <2>3. "config" \in torn => "config" \in torn'
    BY <2>1, NamesDiffer
  <2>4. T!TypeOK'
    BY <1>5 DEF T!DeleteDir, T!config, T!package, TInv, T!TypeOK
  <2>5. TextsStay'
    BY <1>5, <2>1, <2>2, <2>3 DEF T!DeleteDir, T!config, T!package, TInv, T!TypeOK, TextsStay
  <2>6. CutStays'
    BY <1>5, <2>1 DEF T!DeleteDir, T!config, T!package, TInv, T!TypeOK, CutStays, T!Files
  <2>. QED BY <2>4, <2>5, <2>6 DEF TInv
<1>6. CASE T!DirsDone
  BY <1>6 DEF T!DirsDone, T!sources, T!config, T!package, TInv, T!TypeOK, TextsStay,
       CutStays, NothingToDo,
     T!Steps
<1>7. CASE T!ReplaceRoutes
  <2>1. T!TypeOK'
    BY <1>7 DEF T!ReplaceRoutes, T!sources, T!package, TInv, T!TypeOK, T!Steps
  <2>2. \A g \in T!Files : NothingToDo(g) => NothingToDo(g)'
    BY <1>7, NamesDiffer DEF T!ReplaceRoutes, T!sources, NothingToDo
  <2>3. "config" \in torn => "config" \in torn'
    BY <1>7 DEF T!ReplaceRoutes
  <2>4. TextsStay'
    BY <1>7, <2>2, <2>3 DEF T!ReplaceRoutes, T!sources, T!package, TInv, T!TypeOK, TextsStay
  <2>5. CutStays'
    BY <1>7 DEF T!ReplaceRoutes, T!sources, T!package, TInv, T!TypeOK, CutStays
  <2>. QED BY <2>1, <2>4, <2>5 DEF TInv
<1>8. CASE T!Shrink
  BY <1>8 DEF T!Shrink, T!sources, T!config, TInv, T!TypeOK, TextsStay, CutStays,
       NothingToDo, T!Steps
<1>9. CASE T!Self
  BY <1>9 DEF T!Self, T!sources, T!config, TInv, T!TypeOK, TextsStay, CutStays, NothingToDo,
       T!Steps
<1>10. CASE T!ReplaceNames
  BY <1>10 DEF T!ReplaceNames, T!sources, T!package, TInv, T!TypeOK, TextsStay, CutStays,
       NothingToDo,
     T!Steps, T!Names
<1>11. CASE T!RemoveLocaleConfig
  BY <1>11 DEF T!RemoveLocaleConfig, T!sources, T!package, TInv, T!TypeOK, TextsStay, CutStays,
     NothingToDo, T!Steps, T!There
<1>12. CASE T!ProcessFile
  <2>. PICK f \in todo : /\ text' = [text EXCEPT ![f] = T!Resolved(f)] /\ todo' = todo \ {f}
    BY <1>12 DEF T!ProcessFile
  <2>1. f \in T!Files /\ (f \notin map => NothingToDo(f))
    BY <1>12 DEF T!ProcessFile, TInv, T!TypeOK, TextsStay
  <2>2. /\ T!Resolved(f) # "default"
        /\ T!Resolved(f) = "call" => f \in Computed \cup torn
        /\ text[f] # "call" => T!Resolved(f) = text[f]
        /\ f \in Computed => T!Resolved(f) = text[f]
        /\ T!Resolved(f) \in {"zh", text[f]}
    BY <2>1 DEF T!Resolved, NothingToDo, TInv, TextsStay
  <2>3. /\ \A g \in T!Files : NothingToDo(g) => NothingToDo(g)'
        /\ NothingToDo(f)'
    BY <1>12, <2>1, <2>2 DEF T!ProcessFile, NothingToDo, TInv, T!TypeOK
  <2>4. T!TypeOK'
    BY <1>12, <2>1, <2>2 DEF T!ProcessFile, T!config, T!package, TInv, T!TypeOK
  <2>5. TextsStay'
    BY <1>12, <2>1, <2>2, <2>3 DEF T!ProcessFile, T!config, T!package, TInv, T!TypeOK, TextsStay
  <2>6. CutStays'
    BY <1>12, <2>1, <2>2 DEF T!ProcessFile, T!config, T!package, TInv, T!TypeOK, CutStays,
         T!Files
  <2>. QED BY <2>4, <2>5, <2>6 DEF TInv
<1>13. CASE T!FilesDone
  BY <1>13 DEF T!FilesDone, T!sources, T!config, T!package, TInv, T!TypeOK, TextsStay, CutStays,
     NothingToDo, T!Steps
<1>14. CASE T!DeleteLocales
  BY <1>14 DEF T!DeleteLocales, T!config, T!package, TInv, T!TypeOK, TextsStay, CutStays,
       NothingToDo,
     T!Steps
<1>15. CASE T!RemoveEntry
  BY <1>15 DEF T!RemoveEntry, T!sources, T!config, TInv, T!TypeOK, TextsStay, CutStays,
       NothingToDo,
     T!Steps
<1>16. CASE T!CheckResiduals
  BY <1>16 DEF T!CheckResiduals, T!sources, T!config, T!package, TInv, T!TypeOK, TextsStay,
       CutStays,
     NothingToDo, T!Steps
<1>. QED BY <1>1, <1>2, <1>3, <1>4, <1>5, <1>6, <1>7, <1>8, <1>9, <1>10, <1>11, <1>12, <1>13,
  <1>14, <1>15, <1>16 DEF T!Next, T!Simple, T!I18n

LEMMA ScriptsEndSame == TInv => T!TextsAreTranslated /\ T!CanBeRunAgain /\ T!SameInEitherOrder
<1>. SUFFICES ASSUME TInv PROVE T!TextsAreTranslated /\ T!CanBeRunAgain /\ T!SameInEitherOrder
  OBVIOUS
<1>1. T!TextsAreTranslated
  BY DEF T!TextsAreTranslated, TInv, TextsStay
<1>2. \A f \in T!Files : f \notin Kept => f \in Dropped
  BY DEF T!Files
<1>3. "i18n-remove" \notin entries => \A f \in T!Files : NothingToDo(f)
  BY DEF TInv, TextsStay
<1>4. T!CanBeRunAgain
  BY <1>2, <1>3 DEF T!CanBeRunAgain, TInv, TextsStay, CutStays, T!There, NothingToDo
<1>5. T!SameInEitherOrder
  <2>. SUFFICES ASSUME step = "idle", entries = {}
                PROVE  /\ routes = "simple" /\ "routes" \notin torn /\ chinese = {} /\ locales = {}
                       /\ \A f \in Kept \ torn : text[f] = IF f \in Computed THEN "call" ELSE "zh"
                       /\ \A f \in Dropped : text[f] = "gone"
    BY DEF T!SameInEitherOrder
  <2>1. routes = "simple" /\ "routes" \notin torn /\ chinese = {} /\ locales = {}
    BY DEF TInv, TextsStay, CutStays
  <2>2. \A f \in Dropped : text[f] = "gone"
    BY DEF TInv, CutStays
  <2>3. ASSUME NEW f \in Kept \ torn PROVE text[f] = IF f \in Computed THEN "call" ELSE "zh"
    <3>1. f \in T!Files /\ text[f] \in {"call", "zh", "default", "gone"}
      BY DEF T!Files, TInv, T!TypeOK
    <3>2. text[f] # "gone" /\ text[f] # "default" /\ (text[f] # "call" \/ f \in Computed)
      BY <1>3, <3>1 DEF TInv, TextsStay, CutStays, NothingToDo
    <3>3. f \in Computed => text[f] \in {"call", "gone"}
      BY <3>1 DEF TInv, TextsStay
    <3>. QED BY <3>1, <3>2, <3>3
  <2>. QED BY <2>1, <2>2, <2>3
<1>. QED BY <1>1, <1>4, <1>5

-----------------------------------------------------------------------------
(* Rule table *)

\* Numbers of the table are numbers, and a page is not empty.
LEMMA RuleNumbers ==
  PageSize \in Nat \ {0} /\ InitialRows \in Nat \ {0} /\ MaxRows \in Nat /\ InitialRows <= MaxRows
BY ConsoleAssumption

LEMMA RequestTold == None \notin [keys : Seq(Nat), done : BOOLEAN]
BY ConsoleAssumption

Matches(q, r) == q.name => r.named

\* The function that Found computes is there, for every length: what is made
\* of the rows before one can be extended to it.
LEMMA FoundSums ==
  ASSUME NEW s \in Seq(R!Row), NEW q \in R!Query
  PROVE  \E f : f = [i \in 0..Len(s) |-> IF i = 0 THEN <<>>
                                        ELSE IF q.name => s[i].named THEN Append(f[i - 1], s[i])
                                        ELSE f[i - 1]]
<1> DEFINE Builds(f, n) == f = [i \in 0..n |-> IF i = 0 THEN <<>>
                                        ELSE IF q.name => s[i].named THEN Append(f[i - 1], s[i])
                                        ELSE f[i - 1]]
           Bad == {n \in Nat : ~ \E f : Builds(f, n)}
<1>1. Bad = {}
  <2>1. SUFFICES ASSUME Bad # {} PROVE FALSE
    OBVIOUS
  <2>2. PICK n \in Bad : \A m \in Bad : n <= m
    <3>1. Bad \in SUBSET Nat
      OBVIOUS
    <3> HIDE DEF Bad
    <3>. QED BY <2>1, <3>1, LeastNumber
  <2>3. n \in Nat /\ ~ \E f : Builds(f, n)
    OBVIOUS
  <2>4. n # 0
    <3>1. Builds([i \in 0..0 |-> <<>>], 0)
      OBVIOUS
    <3>. QED BY <2>3, <3>1
  <2>5. n - 1 \in Nat /\ n - 1 \notin Bad
    <3>1. n - 1 \in Nat /\ ~(n <= n - 1)
      BY <2>3, <2>4
    <3> HIDE DEF Bad
    <3>. QED BY <2>2, <3>1
  <2>6. PICK f : Builds(f, n - 1)
    BY <2>5
  <2> DEFINE x == IF q.name => s[n].named THEN Append(f[n - 1], s[n]) ELSE f[n - 1]
             g == [i \in 0..n |-> IF i = n THEN x ELSE f[i]]
  <2>7. \A i \in 0..n : i # 0 => i - 1 \in 0..n - 1 /\ g[i - 1] = f[i - 1]
    BY <2>3, <2>4
  <2>8. \A i \in 0..n - 1 : f[i] = IF i = 0 THEN <<>>
                                   ELSE IF q.name => s[i].named THEN Append(f[i - 1], s[i])
                                   ELSE f[i - 1]
    BY <2>6
  <2>9. ASSUME NEW i \in 0..n
        PROVE  g[i] = IF i = 0 THEN <<>>
                      ELSE IF q.name => s[i].named THEN Append(g[i - 1], s[i])
                      ELSE g[i - 1]
    <3>1. CASE i = n
      BY <2>3, <2>4, <2>7, <3>1
    <3>2. CASE i # n
      <4>1. i \in 0..n - 1
        BY <2>3, <3>2
      <4>. QED BY <2>7, <2>8, <3>2, <4>1
    <3>. QED BY <3>1, <3>2
  <2>10. Builds(g, n)
    BY <2>9
  <2>. QED BY <2>3, <2>10
<1>. QED BY <1>1

\* What Found has made of the first i rows.
FoundOf(s, q) ==
  CHOOSE f : f = [i \in 0..Len(s) |-> IF i = 0 THEN <<>>
                                    ELSE IF q.name => s[i].named THEN Append(f[i - 1], s[i])
                                    ELSE f[i - 1]]

LEMMA FoundSteps ==
  ASSUME NEW s \in Seq(R!Row), NEW q \in R!Query
  PROVE  /\ R!Found(s, q) = FoundOf(s, q)[Len(s)]
         /\ FoundOf(s, q)[0] = <<>>
         /\ \A i \in 1..Len(s) :
              FoundOf(s, q)[i] = IF Matches(q, s[i]) THEN Append(FoundOf(s, q)[i - 1], s[i])
                                 ELSE FoundOf(s, q)[i - 1]
<1> DEFINE f == FoundOf(s, q)
<1>1. f = [i \in 0..Len(s) |-> IF i = 0 THEN <<>>
                             ELSE IF q.name => s[i].named THEN Append(f[i - 1], s[i])
                             ELSE f[i - 1]]
  BY FoundSums DEF FoundOf
<1>2. R!Found(s, q) = f[Len(s)]
  BY DEF R!Found, FoundOf
<1>3. Len(s) \in Nat
  OBVIOUS
<1> HIDE DEF f
<1>4. f[0] = <<>>
  BY <1>1, <1>3
<1>5. \A i \in 1..Len(s) : f[i] = IF q.name => s[i].named THEN Append(f[i - 1], s[i]) ELSE f[i - 1]
  <2>1. \A i \in 1..Len(s) : i \in 0..Len(s) /\ i # 0
    BY <1>3
  <2>. QED BY <1>1, <2>1
<1>. QED BY <1>2, <1>4, <1>5 DEF f, Matches

\* The elements of a sequence.
Elements(s) == {s[i] : i \in 1..Len(s)}

LEMMA ElementsOfAppend ==
  ASSUME NEW Values, NEW s \in Seq(Values), NEW e \in Values
  PROVE  Append(s, e) \in Seq(Values) /\ Elements(Append(s, e)) = Elements(s) \cup {e}
<1>1. /\ Append(s, e) \in Seq(Values) /\ Len(Append(s, e)) = Len(s) + 1 /\ Len(s) \in Nat
      /\ \A i \in 1..Len(s) : Append(s, e)[i] = s[i]
      /\ Append(s, e)[Len(s) + 1] = e
  BY AppendProperties
<1>2. 1..Len(s) + 1 = 1..Len(s) \cup {Len(s) + 1}
  BY <1>1
<1>. QED BY <1>1, <1>2 DEF Elements

\* Found finds the rows that match and no other; and where all match, all of
\* them in their order.
LEMMA FoundIs ==
  ASSUME NEW s \in Seq(R!Row), NEW q \in R!Query
  PROVE  /\ R!Found(s, q) \in Seq(R!Row)
         /\ Elements(R!Found(s, q)) = {r \in Elements(s) : Matches(q, r)}
         /\ (\A r \in Elements(s) : Matches(q, r)) => R!Found(s, q) = s
<1> DEFINE f == FoundOf(s, q)
           All == \A r \in Elements(s) : Matches(q, r)
           Good(i) == /\ f[i] \in Seq(R!Row)
                      /\ Elements(f[i]) = {r \in {s[j] : j \in 1..i} : Matches(q, r)}
                      /\ All => Len(f[i]) = i /\ \A j \in 1..i : f[i][j] = s[j]
           Bad == {i \in 0..Len(s) : ~Good(i)}
<1>1. Len(s) \in Nat
  OBVIOUS
<1>2. Good(0)
  <2>1. f[0] = <<>>
    BY FoundSteps
  <2>2. Elements(<<>>) = {} /\ <<>> \in Seq(R!Row) /\ Len(<<>>) = 0
    BY DEF Elements
  <2>3. {s[j] : j \in 1..0} = {}
    OBVIOUS
  <2>. QED BY <2>1, <2>2, <2>3
<1>3. ASSUME NEW i \in 1..Len(s), Good(i - 1) PROVE Good(i)
  <2>1. /\ i \in Nat /\ i - 1 \in Nat /\ 1..i = 1..i - 1 \cup {i}
        /\ s[i] \in R!Row /\ s[i] \in Elements(s)
    BY <1>1 DEF Elements
  <2>2. {s[j] : j \in 1..i} = {s[j] : j \in 1..i - 1} \cup {s[i]}
    BY <2>1
  <2>3. f[i] = IF Matches(q, s[i]) THEN Append(f[i - 1], s[i]) ELSE f[i - 1]
    BY FoundSteps
  <2>4. f[i - 1] \in Seq(R!Row)
    BY <1>3
  <2> HIDE DEF f
  <2>5. CASE Matches(q, s[i])
    <3>1. f[i] = Append(f[i - 1], s[i])
      BY <2>3, <2>5
    <3>2. f[i] \in Seq(R!Row) /\ Elements(f[i]) = Elements(f[i - 1]) \cup {s[i]}
      BY <2>1, <2>4, <3>1, ElementsOfAppend
    <3>3. Elements(f[i]) = {r \in {s[j] : j \in 1..i} : Matches(q, r)}
      BY <1>3, <2>2, <2>5, <3>2
    <3>4. ASSUME All PROVE Len(f[i]) = i /\ \A j \in 1..i : f[i][j] = s[j]
      <4>1. Len(f[i - 1]) = i - 1 /\ \A j \in 1..i - 1 : f[i - 1][j] = s[j]
        BY <1>3, <3>4
      <4>2. /\ Len(f[i]) = Len(f[i - 1]) + 1
            /\ \A j \in 1..Len(f[i - 1]) : f[i][j] = f[i - 1][j]
            /\ f[i][Len(f[i - 1]) + 1] = s[i]
        BY <2>1, <2>4, <3>1, AppendProperties
      <4>3. i - 1 + 1 = i
        BY <2>1
      <4>4. f[i][i] = s[i] /\ Len(f[i]) = i
        BY <4>1, <4>2, <4>3
      <4>. QED BY <2>1, <4>1, <4>2, <4>4
    <3>. QED BY <3>2, <3>3, <3>4
  <2>6. CASE ~Matches(q, s[i])
    <3>1. f[i] = f[i - 1] /\ ~All
      BY <2>1, <2>3, <2>6
    <3>2. Elements(f[i]) = {r \in {s[j] : j \in 1..i} : Matches(q, r)}
      BY <1>3, <2>2, <2>6, <3>1
    <3>. QED BY <2>4, <3>1, <3>2
  <2>. QED BY <2>5, <2>6
<1> HIDE DEF Good
<1>4. Bad = {}
  <2>1. SUFFICES ASSUME Bad # {} PROVE FALSE
    OBVIOUS
  <2>2. PICK n \in Bad : \A m \in Bad : n <= m
    <3>1. Bad \in SUBSET Nat
      BY <1>1
    <3> HIDE DEF Bad
    <3>. QED BY <2>1, <3>1, LeastNumber
  <2>3. n \in 0..Len(s) /\ ~Good(n)
    OBVIOUS
  <2>4. n # 0
    BY <1>2, <2>3
  <2>5. n \in 1..Len(s) /\ n - 1 \in 0..Len(s) /\ ~(n <= n - 1)
    BY <1>1, <2>3, <2>4
  <2>6. Good(n - 1)
    BY <2>2, <2>5
  <2>. QED BY <1>3, <2>3, <2>5, <2>6
<1>5. Good(Len(s))
  BY <1>1, <1>4
<1>6. R!Found(s, q) = f[Len(s)]
  BY FoundSteps
<1>7. {s[j] : j \in 1..Len(s)} = Elements(s)
  BY DEF Elements
<1>8. /\ R!Found(s, q) \in Seq(R!Row)
      /\ Elements(R!Found(s, q)) = {r \in Elements(s) : Matches(q, r)}
      /\ All => Len(R!Found(s, q)) = Len(s) /\ \A j \in 1..Len(s) : R!Found(s, q)[j] = s[j]
  BY <1>5, <1>6, <1>7 DEF Good
<1>9. All => R!Found(s, q) = s
  BY <1>8, SeqEqual
<1>. QED BY <1>8, <1>9

\* The count the table takes is that of the theorems about finite sets.
LEMMA RuleCardinality == \A X : R!Cardinality(X) = Cardinality(X)
BY DEF R!Cardinality, Cardinality, R!IsFiniteSet, IsFiniteSet

\* Rows in the order of falling keys, as the servers keep them.
Falling(s) == \A i, j \in DOMAIN s : i < j => s[i].key > s[j].key

\* Such rows are sorted already: no other order has the keys fall and the same
\* rows as often.
LEMMA SortedIs ==
  ASSUME NEW s \in Seq(R!Row), NEW q \in R!Query, Falling(s)
  PROVE  R!Sorted(s, q) = s
<1> DEFINE V == {s[i] : i \in DOMAIN s}
           Where(z, r) == {i \in DOMAIN s : z[i] = r}
           Order(z) == /\ \A i, j \in DOMAIN s : i < j => z[i].key >= z[j].key
                       /\ \A r \in V : Cardinality(Where(s, r)) = Cardinality(Where(z, r))
<1>1. DOMAIN s = 1..Len(s) /\ Len(s) \in Nat /\ \A i \in DOMAIN s : s[i] \in R!Row /\ s[i].key \in Nat
  <2>1. DOMAIN s = 1..Len(s) /\ Len(s) \in Nat /\ \A i \in DOMAIN s : s[i] \in R!Row
    OBVIOUS
  <2>2. \A r \in R!Row : r.key \in Nat
    BY DEF R!Row
  <2>. QED BY <2>1, <2>2
<1>2. ASSUME NEW i \in DOMAIN s, NEW j \in DOMAIN s, s[i] = s[j] PROVE i = j
  BY <1>1, <1>2 DEF Falling
<1>3. s \in [DOMAIN s -> V] /\ Order(s)
  BY <1>1 DEF Falling
<1>4. ASSUME NEW z \in [DOMAIN s -> V], Order(z) PROVE z = s
  <2>1. \A r \in V : \E k \in DOMAIN s : Where(z, r) = {k}
    <3>1. SUFFICES ASSUME NEW r \in V PROVE \E k \in DOMAIN s : Where(z, r) = {k}
      OBVIOUS
    <3>2. PICK i \in DOMAIN s : r = s[i]
      OBVIOUS
    <3>3. Where(s, r) = {i}
      BY <1>2, <3>2
    <3>4. Cardinality(Where(s, r)) = 1
      BY <3>3, FS_Singleton
    <3>5. IsFiniteSet(Where(z, r))
      <4>1. IsFiniteSet(1..Len(s))
        BY <1>1, FS_Interval
      <4>2. Where(z, r) \in SUBSET (1..Len(s))
        BY <1>1
      <4>. QED BY <4>1, <4>2, FS_Subset
    <3>6. Cardinality(Where(z, r)) = 1
      BY <1>4, <3>4
    <3>7. PICK k : Where(z, r) = {k}
      BY <3>5, <3>6, FS_Singleton
    <3>. QED BY <3>7
  <2>2. ASSUME NEW i \in DOMAIN s, NEW j \in DOMAIN s, z[i] = z[j] PROVE i = j
    <3>1. z[i] \in V /\ i \in Where(z, z[i]) /\ j \in Where(z, z[i])
      BY <2>2
    <3>2. PICK k \in DOMAIN s : Where(z, z[i]) = {k}
      BY <2>1, <3>1
    <3>. QED BY <3>1, <3>2
  <2>3. {i \in DOMAIN s : z[i] # s[i]} = {}
    <3>1. SUFFICES ASSUME {i \in DOMAIN s : z[i] # s[i]} # {} PROVE FALSE
      OBVIOUS
    <3>2. PICK i \in {j \in DOMAIN s : z[j] # s[j]} :
                 \A j \in {k \in DOMAIN s : z[k] # s[k]} : i <= j
      <4>1. {j \in DOMAIN s : z[j] # s[j]} \in SUBSET Nat
        BY <1>1
      <4>. QED BY <3>1, <4>1, LeastNumber
    <3>3. i \in DOMAIN s /\ z[i] # s[i] /\ \A k \in DOMAIN s : k < i => z[k] = s[k]
      BY <1>1, <3>2
    <3>4. PICK j \in DOMAIN s : z[j] = s[i]
      <4>1. PICK j \in DOMAIN s : Where(z, s[i]) = {j}
        BY <2>1, <3>3
      <4>. QED BY <4>1
    <3>5. i < j
      <4>1. j # i
        BY <3>3, <3>4
      <4>2. ~(j < i)
        BY <1>2, <3>3, <3>4, <4>1
      <4>. QED BY <1>1, <3>3, <4>1, <4>2
    <3>6. PICK k \in DOMAIN s : z[i] = s[k]
      BY <3>3
    <3>7. i < k
      <4>1. k # i
        BY <3>3, <3>6
      <4>2. ~(k < i)
        BY <2>2, <3>3, <3>6, <4>1
      <4>. QED BY <1>1, <3>3, <4>1, <4>2
    <3>8. z[i].key >= z[j].key
      BY <1>4, <3>3, <3>5
    <3>9. s[i].key > s[k].key /\ s[i].key \in Nat /\ s[k].key \in Nat
      BY <1>1, <3>3, <3>7 DEF Falling
    <3>10. s[k].key >= s[i].key
      BY <3>4, <3>6, <3>8
    <3>11. \A a, b \in Nat : a > b => ~(b >= a)
      OBVIOUS
    <3>. QED BY <3>9, <3>10, <3>11
  <2>. QED BY <2>3
<1>5. CASE ~q.descend
  BY <1>5 DEF R!Sorted
<1>6. CASE q.descend
  <2>1. R!Sorted(s, q) \in [DOMAIN s -> V] /\ Order(R!Sorted(s, q))
    BY <1>3, <1>6, RuleCardinality DEF R!Sorted
  <2>. QED BY <1>4, <2>1
<1>. QED BY <1>5, <1>6

\* The rows of a page are those at its positions, in the order they had.
LEMMA PageIs ==
  ASSUME NEW s \in Seq(R!Row), NEW q \in R!Query, Falling(s)
  PROVE  /\ R!Page(s, q) \in Seq(R!Row) /\ Falling(R!Page(s, q))
         /\ Elements(R!Page(s, q)) =
              {s[i] : i \in {j \in 1..Len(s) : (q.page - 1) * PageSize < j
                                               /\ j <= q.page * PageSize}}
<1> DEFINE lo == (q.page - 1) * PageSize
           hi == q.page * PageSize
           m == lo + 1
           n == R!Least(Len(s), hi)
<1>1. q.page \in Nat /\ q.page >= 1 /\ PageSize \in Nat
  BY RuleNumbers DEF R!Query, R!Pages
<1>2. lo \in Nat /\ hi \in Nat
  BY <1>1
<1>3. Len(s) \in Nat /\ DOMAIN s = 1..Len(s) /\ \A i \in 1..Len(s) : s[i] \in R!Row /\ s[i].key \in Nat
  <2>1. DOMAIN s = 1..Len(s) /\ Len(s) \in Nat /\ \A i \in 1..Len(s) : s[i] \in R!Row
    OBVIOUS
  <2>2. \A r \in R!Row : r.key \in Nat
    BY DEF R!Row
  <2>. QED BY <2>1, <2>2
<1> HIDE DEF lo, hi
<1>4. n \in Nat /\ n <= Len(s) /\ n <= hi /\ \A j \in 1..Len(s) : j <= n <=> j <= hi
  BY <1>2, <1>3 DEF R!Least
<1>5. m \in Nat /\ m >= 1
  BY <1>2
<1>6. R!Page(s, q) = SubSeq(s, m, n)
  BY DEF R!Page, lo, hi
<1> HIDE DEF m, n
<1>7. /\ SubSeq(s, m, n) \in Seq(R!Row)
      /\ Len(SubSeq(s, m, n)) = IF m <= n THEN n - m + 1 ELSE 0
      /\ \A i \in 1..n - m + 1 : SubSeq(s, m, n)[i] = s[m + i - 1]
  <2>1. \A i \in m..n : s[i] \in R!Row
    BY <1>3, <1>4, <1>5
  <2>. QED BY <1>4, <1>5, <2>1, SubSeqProperties
<1> DEFINE t == SubSeq(s, m, n)
<1>8. \A i \in 1..Len(t) : i \in Nat /\ m + i - 1 \in 1..Len(s) /\ m + i - 1 \in m..n
                            /\ t[i] = s[m + i - 1]
  BY <1>3, <1>4, <1>5, <1>7
<1>9. \A j \in m..n : j - m + 1 \in 1..Len(t) /\ t[j - m + 1] = s[j]
  <2>1. SUFFICES ASSUME NEW j \in m..n PROVE j - m + 1 \in 1..Len(t) /\ t[j - m + 1] = s[j]
    OBVIOUS
  <2>2. j - m + 1 \in 1..Len(t) /\ m + (j - m + 1) - 1 = j
    BY <1>4, <1>5, <1>7
  <2>. QED BY <1>8, <2>2
<1>10. Falling(t)
  <2>1. DOMAIN t = 1..Len(t)
    BY <1>7
  <2>2. ASSUME NEW i \in 1..Len(t), NEW j \in 1..Len(t), i < j PROVE t[i].key > t[j].key
    <3>1. m + i - 1 < m + j - 1
      BY <1>5, <1>8, <2>2
    <3>. QED BY <1>3, <1>8, <3>1 DEF Falling
  <2>. QED BY <2>1, <2>2 DEF Falling
<1>11. Elements(t) = {s[j] : j \in m..n}
  <2> HIDE DEF t
  <2>1. Elements(t) \subseteq {s[j] : j \in m..n}
    <3>1. \A i \in 1..Len(t) : \E j \in m..n : t[i] = s[j]
      BY <1>8
    <3>. QED BY <3>1 DEF Elements
  <2>2. {s[j] : j \in m..n} \subseteq Elements(t)
    <3>1. \A j \in m..n : \E i \in 1..Len(t) : t[i] = s[j]
      BY <1>9
    <3>. QED BY <3>1 DEF Elements
  <2>. QED BY <2>1, <2>2
<1>12. m..n = {j \in 1..Len(s) : lo < j /\ j <= hi}
  BY <1>2, <1>3, <1>4, <1>5 DEF m
<1>. QED BY <1>6, <1>7, <1>10, <1>11, <1>12 DEF lo, hi

\* Every position of a table within its bound is on exactly one page.
LEMMA PageOf ==
  ASSUME NEW k \in 1..MaxRows
  PROVE  \E p \in R!Pages : /\ (p - 1) * PageSize < k /\ k <= p * PageSize
                            /\ \A o \in R!Pages : (o - 1) * PageSize < k /\ k <= o * PageSize => o = p
<1> DEFINE Q == {p \in Nat : k <= p * PageSize}
<1>0. PageSize \in Nat /\ PageSize >= 1 /\ MaxRows \in Nat /\ k \in Nat /\ k >= 1 /\ k <= MaxRows
  BY RuleNumbers
<1>1. k \in Q
  BY <1>0
<1>2. PICK p \in Q : \A o \in Q : p <= o
  <2>1. Q \in SUBSET Nat /\ Q # {}
    BY <1>1
  <2> HIDE DEF Q
  <2>. QED BY <2>1, LeastNumber
<1>3. p \in Nat /\ k <= p * PageSize
  OBVIOUS
<1>4. p # 0
  BY <1>0, <1>3
<1>5. p - 1 \in Nat /\ p - 1 \notin Q
  <2>1. p - 1 \in Nat /\ ~(p <= p - 1)
    BY <1>3, <1>4
  <2> HIDE DEF Q
  <2>. QED BY <1>2, <2>1
<1>6. (p - 1) * PageSize < k
  <2>1. (p - 1) * PageSize \in Nat /\ ~(k <= (p - 1) * PageSize)
    BY <1>0, <1>5
  <2>. QED BY <1>0, <2>1
<1>7. ASSUME NEW a \in Nat, NEW b \in Nat, a <= b PROVE a * PageSize <= b * PageSize
  BY <1>0, <1>7
<1>8. p \in R!Pages
  <2> DEFINE d == (MaxRows + PageSize - 1) \div PageSize
  <2>1. d \in Nat /\ MaxRows + PageSize - 1 < (d + 1) * PageSize
    BY <1>0
  <2>2. ~(d < p)
    <3>1. SUFFICES ASSUME d < p PROVE FALSE
      OBVIOUS
    <3> HIDE DEF d
    <3>2. d <= p - 1
      BY <1>3, <2>1, <3>1
    <3>3. d * PageSize <= (p - 1) * PageSize
      BY <1>5, <1>7, <2>1, <3>2
    <3>4. (d + 1) * PageSize = d * PageSize + PageSize /\ d * PageSize \in Nat
          /\ (p - 1) * PageSize \in Nat
      BY <1>0, <1>5, <2>1
    <3>. QED BY <1>0, <1>6, <2>1, <3>3, <3>4
  <2> HIDE DEF d
  <2>3. p \in 1..d
    BY <1>3, <1>4, <2>1, <2>2
  <2>. QED BY <2>3 DEF R!Pages, d
<1>9. ASSUME NEW o \in R!Pages, (o - 1) * PageSize < k, k <= o * PageSize PROVE o = p
  <2>1. o \in Nat /\ o - 1 \in Nat /\ o * PageSize \in Nat /\ (o - 1) * PageSize \in Nat
    BY <1>0 DEF R!Pages
  <2>2. p <= o
    BY <1>2, <1>9, <2>1
  <2>3. ~(p <= o - 1)
    <3>1. SUFFICES ASSUME p <= o - 1 PROVE FALSE
      OBVIOUS
    <3>2. p * PageSize <= (o - 1) * PageSize /\ p * PageSize \in Nat
      BY <1>0, <1>3, <1>7, <2>1, <3>1
    <3>. QED BY <1>0, <1>3, <1>9, <2>1, <3>2
  <2>. QED BY <1>3, <2>1, <2>2, <2>3
<1>. QED BY <1>3, <1>6, <1>8, <1>9

\* The keys of rows, in their order, and as a set.
LEMMA KeysIs ==
  ASSUME NEW s \in Seq(R!Row)
  PROVE  /\ R!Keys(s) \in Seq(Nat)
         /\ {R!Keys(s)[i] : i \in DOMAIN R!Keys(s)} = {r.key : r \in Elements(s)}
<1>1. DOMAIN s = 1..Len(s) /\ Len(s) \in Nat /\ \A i \in 1..Len(s) : s[i] \in R!Row
  OBVIOUS
<1>2. \A i \in 1..Len(s) : s[i].key \in Nat
  <2>1. \A r \in R!Row : r.key \in Nat
    BY DEF R!Row
  <2>. QED BY <1>1, <2>1
<1>3. R!Keys(s) = [i \in 1..Len(s) |-> s[i].key]
  BY <1>1 DEF R!Keys
<1>4. R!Keys(s) \in Seq(Nat)
  <2>1. R!Keys(s) \in [1..Len(s) -> Nat]
    BY <1>2, <1>3
  <2>. QED BY <1>1, <2>1, IsASeq
<1>5. DOMAIN R!Keys(s) = 1..Len(s) /\ \A i \in 1..Len(s) : R!Keys(s)[i] = s[i].key
  BY <1>3
<1>6. {R!Keys(s)[i] : i \in DOMAIN R!Keys(s)} = {s[i].key : i \in 1..Len(s)}
  BY <1>5
<1>7. {s[i].key : i \in 1..Len(s)} = {r.key : r \in Elements(s)}
  BY DEF Elements
<1>. QED BY <1>4, <1>6, <1>7

\* What the requests leave alone: the rows have the keys Len(rows) - 1 to 0 in
\* this order; what is shown, or has been answered, is what the server has of
\* the query, until a row has been created and until then only.
Numbered == \A i \in DOMAIN rows : rows[i].key = Len(rows) - i

Served == R!Answer(backend, rows, R!Sent(query)).keys

RInv ==
  /\ R!TypeOK
  /\ ruleFetch \in {None} \cup [keys : Seq(Nat), done : BOOLEAN]
  /\ Numbered
  /\ Len(rows) <= MaxRows /\ (rulePosts["post"] = "sent" => Len(rows) < MaxRows)
  /\ backend = "worker" => \A i \in DOMAIN rows : rows[i].named
  /\ ~missed /\ rulePosts["post"] # "ok" =>
       /\ ruleFetch = None => unanswered \/ ruleShown = Served
       /\ ruleFetch # None => (ruleFetch.done => ruleFetch.keys = Served)

LEMMA NumberedFalls == rows \in Seq(R!Row) /\ Numbered => Falling(rows)
<1>. SUFFICES ASSUME rows \in Seq(R!Row), Numbered, NEW i \in DOMAIN rows, NEW j \in DOMAIN rows, i < j
              PROVE  rows[i].key > rows[j].key
  BY DEF Falling
<1>1. DOMAIN rows = 1..Len(rows) /\ Len(rows) \in Nat
  OBVIOUS
<1>2. rows[i].key = Len(rows) - i /\ rows[j].key = Len(rows) - j
  BY DEF Numbered
<1>. QED BY <1>1, <1>2

\* Each server answers with the rows at the positions of the page that match, and
\* announces all its rows.
LEMMA AnswerIs ==
  ASSUME rows \in Seq(R!Row), Numbered, backend \in {"mock", "worker"},
         backend = "worker" => \A i \in DOMAIN rows : rows[i].named,
         NEW q \in R!Query
  PROVE  LET a == R!Answer(backend, rows, q)
         IN  /\ a.keys \in Seq(Nat) /\ a.total = Len(rows)
             /\ {a.keys[i] : i \in DOMAIN a.keys} =
                  {rows[i].key : i \in {j \in 1..Len(rows) : /\ (q.page - 1) * PageSize < j
                                                             /\ j <= q.page * PageSize
                                                             /\ Matches(q, rows[j])}}
<1> DEFINE lo == (q.page - 1) * PageSize
           hi == q.page * PageSize
           At == {j \in 1..Len(rows) : lo < j /\ j <= hi}
           a == R!Answer(backend, rows, q)
<1>1. Falling(rows) /\ DOMAIN rows = 1..Len(rows)
  BY NumberedFalls
<1>2. /\ R!Page(rows, q) \in Seq(R!Row) /\ Falling(R!Page(rows, q))
      /\ Elements(R!Page(rows, q)) = {rows[i] : i \in At}
  BY <1>1, PageIs
<1> HIDE DEF lo, hi
<1>3. CASE backend = "mock"
  <2>1. R!Sorted(R!Page(rows, q), q) = R!Page(rows, q)
    BY <1>2, SortedIs
  <2>2. /\ R!MockPage(rows, q) \in Seq(R!Row)
        /\ Elements(R!MockPage(rows, q)) = {r \in {rows[i] : i \in At} : Matches(q, r)}
    BY <1>2, <2>1, FoundIs DEF R!MockPage
  <2>3. a.keys = R!Keys(R!MockPage(rows, q)) /\ a.total = Len(rows)
    BY <1>3 DEF R!Answer, R!MockTotal
  <2>4. {r.key : r \in Elements(R!MockPage(rows, q))}
          = {rows[i].key : i \in {j \in At : Matches(q, rows[j])}}
    BY <2>2
  <2>. QED BY <2>2, <2>3, <2>4, KeysIs DEF lo, hi
<1>4. CASE backend = "worker"
  <2>1. \A r \in Elements(rows) : Matches(q, r)
    BY <1>1, <1>4 DEF Elements, Matches
  <2>2. R!Found(rows, q) = rows
    BY <2>1, FoundIs
  <2>3. R!Sorted(rows, q) = rows
    BY <1>1, SortedIs
  <2>4. a.keys = R!Keys(R!Page(rows, q)) /\ a.total = Len(rows)
    BY <1>4, <2>2, <2>3 DEF R!Answer, R!WorkerPage, R!WorkerTotal
  <2>5. {j \in At : Matches(q, rows[j])} = At
    BY <2>1 DEF Elements
  <2>6. {r.key : r \in Elements(R!Page(rows, q))} = {rows[i].key : i \in At}
    BY <1>2
  <2>. QED BY <1>2, <2>4, <2>5, <2>6, KeysIs DEF lo, hi
<1>. QED BY <1>3, <1>4

LEMMA RInitInv == R!Init => RInv
<1>. SUFFICES ASSUME R!Init PROVE RInv
  OBVIOUS
<1>1. rows \in Seq(R!Row) /\ Len(rows) = InitialRows /\ Numbered /\ \A i \in DOMAIN rows : rows[i].named
  <2>1. rows \in [1..InitialRows -> R!Row]
    BY RuleNumbers DEF R!Init, R!Row
  <2>2. rows \in Seq(R!Row) /\ Len(rows) = InitialRows
    BY <2>1, RuleNumbers, IsASeq
  <2>. QED BY <2>1, <2>2, RuleNumbers DEF R!Init, Numbered
<1>2. R!FirstPage \in R!Query
  <2>1. 1 \in R!Pages
    BY PageOf, RuleNumbers DEF R!Pages
  <2>. QED BY <2>1 DEF R!FirstPage, R!Query
<1>3. R!Asked \in [keys : Seq(Nat), done : BOOLEAN] /\ ~R!Asked.done
  BY DEF R!Asked
<1>4. ruleShown \in Seq(Nat)
  BY DEF R!Init
<1>5. ruleFetch # None
  BY <1>3, RequestTold DEF R!Init
<1>6. R!TypeOK
  BY <1>1, <1>2, <1>3, <1>4 DEF R!Init, R!TypeOK, R!Methods
<1>7. Len(rows) <= MaxRows
  BY <1>1, RuleNumbers
<1>8. rulePosts["post"] # "sent"
  BY DEF R!Init, R!Methods
<1>. QED BY <1>1, <1>3, <1>5, <1>6, <1>7, <1>8 DEF R!Init, RInv

\* A page, and what it asks for, is in the table's range; so is its first page.
LEMMA SentIs == \A q \in R!Query : R!Sent(q) \in R!Query /\ [q EXCEPT !.page = 1] \in R!Query
<1>1. 1 \in R!Pages
  BY PageOf, RuleNumbers DEF R!Pages
<1>. QED BY <1>1 DEF R!Sent, R!Query

\* The answer to what is asked for is a sequence of keys.
LEMMA ServedIs == RInv => Served \in Seq(Nat)
<1>. SUFFICES ASSUME RInv PROVE Served \in Seq(Nat)
  OBVIOUS
<1>1. /\ rows \in Seq(R!Row) /\ Numbered /\ backend \in {"mock", "worker"}
      /\ backend = "worker" => \A i \in DOMAIN rows : rows[i].named
      /\ R!Sent(query) \in R!Query
  BY SentIs DEF RInv, R!TypeOK
<1>. QED BY <1>1, AnswerIs DEF Served

LEMMA RStepInv == RInv /\ [R!Next]_(R!vars) => RInv'
<1>. SUFFICES ASSUME RInv, [R!Next]_(R!vars) PROVE RInv'
  OBVIOUS
<1> DEFINE Current == ~missed /\ rulePosts["post"] # "ok" =>
                        /\ ruleFetch = None => unanswered \/ ruleShown = Served
                        /\ ruleFetch # None => (ruleFetch.done => ruleFetch.keys = Served)
           Requests == [keys : Seq(Nat), done : BOOLEAN]
           Answers4 == {"none", "sent", "ok", "failed"}
<1>0. /\ backend \in {"mock", "worker"} /\ rows \in Seq(R!Row) /\ query \in R!Query
      /\ ruleShown \in Seq(Nat) /\ selected \subseteq Nat /\ hooked \in BOOLEAN
      /\ ruleForm \in {"closed", "create", "update"} /\ missed \in BOOLEAN /\ unanswered \in BOOLEAN
      /\ rulePosts \in [R!Methods -> Answers4]
      /\ ruleFetch \in {None} \cup Requests
      /\ Len(rows) \in Nat /\ MaxRows \in Nat
  BY RuleNumbers DEF RInv, R!TypeOK
<1>1. R!Asked \in Requests /\ R!Asked # None /\ ~R!Asked.done
  <2>1. R!Asked \in Requests /\ ~R!Asked.done
    BY DEF R!Asked
  <2>. QED BY <2>1, RequestTold
\* Where the rows stay, only the page, its requests and the form change.
<1>2. ASSUME UNCHANGED <<backend, rows>>, query' \in R!Query, ruleShown' \in Seq(Nat),
             selected' \subseteq Nat, ruleFetch' \in {None} \cup Requests, hooked' \in BOOLEAN,
             ruleForm' \in {"closed", "create", "update"}, rulePosts' \in [R!Methods -> Answers4],
             missed' \in BOOLEAN, unanswered' \in BOOLEAN, Current',
             rulePosts'["post"] = "sent" => rulePosts["post"] = "sent" \/ Len(rows) < MaxRows
      PROVE  RInv'
  <2>1. R!TypeOK'
    BY <1>0, <1>2 DEF R!TypeOK
  <2>. QED BY <1>2, <2>1 DEF RInv, Numbered
<1>3. Current
  BY DEF RInv
<1>4. ASSUME UNCHANGED <<backend, rows, query>> PROVE Served' = Served
  BY <1>4 DEF Served
<1>5. ASSUME ruleFetch' = R!Asked PROVE Current' /\ ruleFetch' \in Requests
  BY <1>1, <1>5
<1>6. ASSUME UNCHANGED <<backend, rows, query, ruleShown, ruleFetch, missed, unanswered>>,
             rulePosts'["post"] # "ok" => rulePosts["post"] # "ok"
      PROVE  Current'
  BY <1>3, <1>4, <1>6
<1>. HIDE DEF Current, Requests
<1>7. ASSUME NEW m \in R!Methods, NEW a \in Answers4, R!Answers(m, a)
      PROVE  /\ rulePosts' \in [R!Methods -> Answers4]
             /\ rulePosts'[m] = a /\ \A n \in R!Methods : n # m => rulePosts'[n] = rulePosts[n]
  BY <1>0, <1>7 DEF R!Answers
<1>8. "post" \in R!Methods /\ "update" \in R!Methods /\ "delete" \in R!Methods
  BY DEF R!Methods
<1>9. CASE UNCHANGED R!vars
  BY <1>0, <1>2, <1>6, <1>9 DEF R!vars
<1>10. CASE R!GetRule
  <2>1. ruleFetch' \in Requests /\ ruleFetch' # None /\ ruleFetch'.keys = Served
    <3>1. ruleFetch' = [keys |-> Served, done |-> TRUE]
      BY <1>10 DEF R!GetRule, Served
    <3>2. Served \in Seq(Nat)
      BY ServedIs
    <3>3. ruleFetch' \in Requests /\ ruleFetch'.keys = Served
      BY <3>1, <3>2 DEF Requests
    <3>. QED BY <3>3, RequestTold DEF Requests
  <2>2. Current'
    BY <1>4, <1>10, <2>1 DEF R!GetRule, Current
  <2>. QED BY <1>0, <1>2, <1>10, <2>1, <2>2 DEF R!GetRule
<1>11. CASE R!Show
  <2>1. ruleShown' \in Seq(Nat) /\ hooked' \in BOOLEAN
    BY <1>0, <1>11 DEF R!Show, Requests
  <2>2. Current'
    BY <1>3, <1>4, <1>11 DEF R!Show, Current
  <2>. QED BY <1>0, <1>2, <1>11, <2>1, <2>2 DEF R!Show
<1>26. CASE R!GetFails
  <2>1. hooked' \in BOOLEAN /\ ruleFetch' = None /\ unanswered' = TRUE
    BY <1>0, <1>26 DEF R!GetFails
  <2>2. Current'
    BY <2>1 DEF Current
  <2>. QED BY <1>0, <1>2, <1>26, <2>1, <2>2 DEF R!GetFails
<1>12. CASE R!CloseForm
  BY <1>0, <1>2, <1>6, <1>12 DEF R!CloseForm
<1>13. CASE R!PostRow
  <2>0. rulePosts' \in [R!Methods -> Answers4] /\ rulePosts'["post"] = "ok"
    BY <1>7, <1>8, <1>13 DEF R!PostRow
  <2>1. Current'
    BY <2>0 DEF Current
  <2>2. CASE backend = "worker"
    BY <1>0, <1>2, <1>13, <2>0, <2>1, <2>2 DEF R!PostRow
  <2>3. CASE backend = "mock"
    <3> DEFINE r == [key |-> Len(rows), named |-> FALSE]
    <3>1. r \in R!Row /\ r.key = Len(rows)
      BY <1>0 DEF R!Row
    <3>2. rows' = <<r>> \o rows
      BY <1>13, <2>3 DEF R!PostRow
    <3> HIDE DEF r
    <3>3. <<r>> \in Seq(R!Row) /\ Len(<<r>>) = 1 /\ <<r>>[1] = r
      BY <3>1
    <3>4. /\ rows' \in Seq(R!Row) /\ Len(rows') = 1 + Len(rows)
          /\ \A i \in 1..1 + Len(rows) : rows'[i] = IF i <= 1 THEN <<r>>[i] ELSE rows[i - 1]
      BY <1>0, <3>2, <3>3, ConcatProperties
    <3>5. Numbered'
      <4>1. ASSUME NEW i \in 1..1 + Len(rows) PROVE rows'[i].key = 1 + Len(rows) - i
        <5>1. CASE i = 1
          BY <1>0, <3>1, <3>3, <3>4, <5>1
        <5>2. CASE i # 1
          <6>1. i - 1 \in 1..Len(rows) /\ ~(i <= 1) /\ i \in Nat
            BY <1>0, <5>2
          <6>2. rows'[i] = rows[i - 1]
            BY <3>4, <6>1
          <6>3. rows[i - 1].key = Len(rows) - (i - 1)
            BY <1>0, <6>1 DEF RInv, Numbered
          <6>. QED BY <1>0, <6>1, <6>2, <6>3
        <5>. QED BY <5>1, <5>2
      <4>2. DOMAIN rows' = 1..1 + Len(rows)
        BY <3>4
      <4>. QED BY <3>4, <4>1, <4>2 DEF Numbered
    <3>6. Len(rows') <= MaxRows
      BY <1>0, <1>13, <3>4 DEF R!PostRow, RInv
    <3>7. R!TypeOK'
      BY <1>0, <1>13, <2>0, <3>4 DEF R!PostRow, R!TypeOK, Requests
    <3>. QED BY <1>0, <1>13, <2>0, <2>1, <2>3, <3>5, <3>6, <3>7
         DEF R!PostRow, RInv, Current, Requests
  <2>. QED BY <1>0, <2>2, <2>3
<1>14. ASSUME NEW m \in R!Methods, NEW a \in Answers4, R!Answers(m, a), m = "post" =>
        rulePosts["post"] # "ok",
              m = "post" /\ a = "sent" => Len(rows) < MaxRows,
              UNCHANGED <<backend, rows, query, ruleShown, ruleFetch, selected, hooked, ruleForm,
                          missed, unanswered>>
       PROVE  RInv'
  <2>1. rulePosts'["post"] # "ok" => rulePosts["post"] # "ok"
    BY <1>7, <1>8, <1>14
  <2>2. rulePosts'["post"] = "sent" => rulePosts["post"] = "sent" \/ Len(rows) < MaxRows
    BY <1>7, <1>8, <1>14
  <2>. QED BY <1>0, <1>2, <1>6, <1>7, <1>14, <2>1, <2>2
<1>15. CASE R!PostUpdate
  BY <1>8, <1>14, <1>15 DEF R!PostUpdate
<1>16. CASE R!PostDelete
  <2>1. CASE backend = "mock" /\ rows # <<>>
    BY <1>8, <1>14, <1>16, <2>1 DEF R!PostDelete
  <2>2. CASE ~(backend = "mock" /\ rows # <<>>)
    BY <1>8, <1>14, <1>16, <2>2 DEF R!PostDelete
  <2>. QED BY <2>1, <2>2
<1>17. CASE R!Created
  <2>1. rulePosts' \in [R!Methods -> Answers4] /\ rulePosts'["post"] = "none"
    BY <1>7, <1>8, <1>17 DEF R!Created
  <2>2. CASE hooked
    <3>1. ruleFetch' = R!Asked /\ missed' = missed
      BY <1>17, <2>2 DEF R!Created
    <3>. QED BY <1>0, <1>2, <1>5, <1>17, <2>1, <3>1 DEF R!Created
  <2>3. CASE ~hooked
    <3>1. missed' = TRUE /\ ruleFetch' = ruleFetch
      BY <1>17, <2>3 DEF R!Created
    <3>2. Current'
      BY <3>1 DEF Current
    <3>. QED BY <1>0, <1>2, <1>17, <2>1, <3>1, <3>2 DEF R!Created
  <2>. QED BY <2>2, <2>3
<1>18. CASE R!Updated
  <2>1. rulePosts' \in [R!Methods -> Answers4] /\ rulePosts'["post"] = rulePosts["post"]
    BY <1>7, <1>8, <1>18 DEF R!Updated
  <2>. QED BY <1>0, <1>2, <1>5, <1>18, <2>1 DEF R!Updated
<1>19. CASE R!Deleted
  <2>1. rulePosts' \in [R!Methods -> Answers4] /\ rulePosts'["post"] = rulePosts["post"]
    BY <1>7, <1>8, <1>19 DEF R!Deleted
  <2>2. query' \in R!Query
    BY <1>0, <1>19, SentIs DEF R!Deleted
  <2>. QED BY <1>0, <1>2, <1>5, <1>19, <2>1, <2>2 DEF R!Deleted
<1>20. ASSUME NEW q \in R!Query, R!Ask(q) PROVE RInv'
  BY <1>0, <1>2, <1>5, <1>20 DEF R!Ask
<1>21. ASSUME NEW k \in 0..MaxRows, R!Select(k) PROVE RInv'
  <2>1. selected' \subseteq Nat /\ hooked' \in BOOLEAN
    <3>1. selected' = (selected \ {k}) \cup ({k} \ selected) /\ k \in Nat
      BY <1>0, <1>21 DEF R!Select
    <3>2. hooked' = TRUE
      BY <1>21 DEF R!Select
    <3>. QED BY <1>0, <3>1, <3>2
  <2>. QED BY <1>0, <1>2, <1>6, <1>21, <2>1 DEF R!Select
<1>22. ASSUME NEW f \in {"create", "update"}, R!OpenForm(f) PROVE RInv'
  BY <1>0, <1>2, <1>6, <1>22 DEF R!OpenForm
<1>23. ASSUME NEW m \in R!Methods, R!Submit(m) PROVE RInv'
  <2>1. R!Answers(m, "sent")
    BY <1>23 DEF R!Submit, R!Answers
  <2>. QED BY <1>14, <1>23, <2>1 DEF R!Submit
<1>24. ASSUME NEW m \in R!Methods, R!PostFails(m) PROVE RInv'
  BY <1>14, <1>24 DEF R!PostFails
<1>25. ASSUME NEW m \in R!Methods, R!Refused(m) PROVE RInv'
  BY <1>14, <1>25 DEF R!Refused
<1>. QED BY <1>9, <1>10, <1>11, <1>12, <1>13, <1>15, <1>16, <1>17, <1>18, <1>19, <1>20, <1>21,
  <1>22, <1>23, <1>24, <1>25, <1>26 DEF R!Next

\* Keys are the numbers below the number of rows, each once.
LEMMA KeysTell == RInv => R!KeysUnique
<1>. SUFFICES ASSUME RInv, NEW i \in DOMAIN rows, NEW j \in DOMAIN rows, i # j
              PROVE  rows[i].key # rows[j].key
  BY DEF R!KeysUnique
<1>1. DOMAIN rows = 1..Len(rows) /\ Len(rows) \in Nat
  BY DEF RInv, R!TypeOK
<1>2. rows[i].key = Len(rows) - i /\ rows[j].key = Len(rows) - j
  BY DEF RInv, Numbered
<1>. QED BY <1>1, <1>2

LEMMA TableShows == RInv => R!ShowsServer
BY DEF RInv, R!ShowsServer, Served, R!Methods

LEMMA OnOnePage == RInv => R!EveryRowHasAPage
<1>. SUFFICES ASSUME RInv, NEW n \in BOOLEAN, NEW d \in BOOLEAN, NEW k \in DOMAIN rows,
                     n => rows[k].named
              PROVE  LET Of(p) == R!Answer(backend, rows, [page |-> p, name |-> n, descend |-> d])
                         Announced == {p \in R!Pages : (p - 1) * PageSize < Of(p).total}
                     IN  R!Cardinality({p \in Announced :
                           rows[k].key \in {Of(p).keys[i] : i \in DOMAIN Of(p).keys}}) = 1
  BY DEF R!EveryRowHasAPage
<1> DEFINE Of(p) == R!Answer(backend, rows, [page |-> p, name |-> n, descend |-> d])
           Announced == {p \in R!Pages : (p - 1) * PageSize < Of(p).total}
           On(p) == rows[k].key \in {Of(p).keys[i] : i \in DOMAIN Of(p).keys}
<1>1. /\ rows \in Seq(R!Row) /\ Numbered /\ backend \in {"mock", "worker"}
      /\ backend = "worker" => \A i \in DOMAIN rows : rows[i].named
      /\ DOMAIN rows = 1..Len(rows) /\ Len(rows) \in Nat /\ Len(rows) <= MaxRows
      /\ MaxRows \in Nat /\ PageSize \in Nat
  BY RuleNumbers DEF RInv, R!TypeOK
<1>2. k \in 1..MaxRows
  BY <1>1
<1>3. PICK o \in R!Pages : /\ (o - 1) * PageSize < k /\ k <= o * PageSize
                           /\ \A p \in R!Pages : (p - 1) * PageSize < k /\ k <= p * PageSize => p = o
  BY <1>2, PageOf
<1>4. \A i \in 1..Len(rows) : rows[i].key = rows[k].key => i = k
  <2>1. \A i \in 1..Len(rows) : i # k => rows[i].key # rows[k].key
    BY <1>1, KeysTell DEF R!KeysUnique
  <2>. QED BY <2>1
<1>5. ASSUME NEW p \in R!Pages
      PROVE  /\ On(p) <=> (p - 1) * PageSize < k /\ k <= p * PageSize
             /\ Of(p).total = Len(rows)
  <2> DEFINE q == [page |-> p, name |-> n, descend |-> d]
  <2>1. q \in R!Query /\ q.page = p /\ q.name = n
    BY DEF R!Query
  <2>2. Matches(q, rows[k])
    BY <2>1 DEF Matches
  <2> HIDE DEF q
  <2>3. /\ R!Answer(backend, rows, q).total = Len(rows)
        /\ {R!Answer(backend, rows, q).keys[i] : i \in DOMAIN R!Answer(backend, rows, q).keys} =
             {rows[i].key : i \in {j \in 1..Len(rows) : /\ (p - 1) * PageSize < j
                                                        /\ j <= p * PageSize
                                                        /\ Matches(q, rows[j])}}
    BY <1>1, <2>1, AnswerIs
  <2>4. Of(p) = R!Answer(backend, rows, q)
    BY DEF q
  <2> DEFINE At == {j \in 1..Len(rows) : /\ (p - 1) * PageSize < j
                                         /\ j <= p * PageSize
                                         /\ Matches(q, rows[j])}
  <2>5. On(p) <=> rows[k].key \in {rows[i].key : i \in At}
    BY <2>3, <2>4
  <2>6. rows[k].key \in {rows[i].key : i \in At} <=> k \in At
    <3>1. At \subseteq 1..Len(rows)
      OBVIOUS
    <3> HIDE DEF At
    <3>. QED BY <1>4, <3>1
  <2>7. k \in At <=> (p - 1) * PageSize < k /\ k <= p * PageSize
    BY <1>1, <2>2
  <2>8. Of(p).total = Len(rows)
    BY <2>3, <2>4
  <2> HIDE DEF On, Of, At
  <2>. QED BY <2>5, <2>6, <2>7, <2>8
<1>6. (o - 1) * PageSize < Len(rows)
  <2>1. (o - 1) * PageSize \in Int /\ k \in Nat /\ k <= Len(rows)
    <3>1. o - 1 \in Int
      BY DEF R!Pages
    <3>. QED BY <1>1, <3>1
  <2>. QED BY <1>1, <1>3, <2>1
<1>7. {p \in Announced : On(p)} = {o}
  <2>. HIDE DEF On, Of
  <2>. QED BY <1>3, <1>5, <1>6
<1>8. Cardinality({o}) = 1
  BY FS_Singleton
<1>. QED BY <1>7, <1>8, RuleCardinality

-----------------------------------------------------------------------------
(* Account pages *)

\* The last page that has mounted is what a retry asks for, and without doubt the
\* request is its own; a form, and tags, are there only where they are rendered.
AInv ==
  /\ A!TypeOK
  /\ A!OwnData /\ A!FormHasData /\ A!CityOfProvince
  /\ accountPlace \in A!Pages /\ accountFetch # None =>
       accountFetch.again = accountPlace /\ (~accountDoubt => accountFetch.asked = accountPlace)
  /\ accountForm # None => accountPlace = "base" /\ ~A!Loading
  /\ newTags # {} => accountPlace = "center" /\ accountCache # None

LEMMA AccountAbsences ==
  None \notin A!Pages /\ None \notin A!Fetch /\ None \notin A!Form /\ None \notin Provinces
  /\ Retries \in Nat /\ Own \in Provinces
<1>1. None \notin A!Fetch /\ None \notin A!Form
  BY ConsoleAssumption
<1>2. None \notin A!Pages /\ None \notin Provinces
  BY ConsoleAssumption
<1>. QED BY <1>1, <1>2, ConsoleAssumption

LEMMA AInitInv == A!Init => AInv
BY DEF A!Init, AInv, A!TypeOK, A!OwnData, A!FormHasData, A!CityOfProvince, A!Pages

\* What a render makes of the form and the tags: it takes away nothing that was
\* typed while data is there.
LEMMA RenderedForm ==
  ASSUME AInv, A!Rendered, accountCache' \in A!Pages \cup {None}, accountFetch' \in {None} \cup A!Fetch,
         accountPlace' \in A!Pages \cup {"other"},
         \* data comes only by an answer
         accountCache' = accountCache \/ accountPlace' = "other"
                 \/ (accountFetch # None /\ accountCache' # None)
  PROVE  /\ accountForm' \in {None} \cup A!Form /\ newTags' \subseteq Labels
         /\ A!FormHasData' /\ A!CityOfProvince'
         /\ accountForm' # None => accountPlace' = "base" /\ ~A!Loading'
         /\ newTags' # {} => accountPlace' = "center" /\ accountCache' # None
         /\ accountForm # None /\ accountForm.typed /\ (accountForm' = None \/ ~accountForm'.typed) =>
              accountPlace' # accountPlace \/ accountCache = None
         /\ newTags # {} /\ newTags' = {} => accountPlace' # accountPlace
<1>. USE AccountAbsences
<1>1. /\ accountForm \in {None} \cup A!Form /\ newTags \subseteq Labels
      /\ A!FormHasData /\ A!CityOfProvince
      /\ accountForm # None => accountPlace = "base" /\ ~A!Loading
      /\ newTags # {} => accountPlace = "center" /\ accountCache # None
      /\ accountCache \in A!Pages \cup {None} /\ accountPlace \in A!Pages \cup {"other"}
  BY DEF AInv, A!TypeOK
<1>2. /\ accountForm' = IF accountPlace' # "base" \/ A!Loading' THEN None
                 ELSE IF accountForm = None THEN A!Mounted' ELSE accountForm
      /\ newTags' = IF accountPlace' # "center" \/ A!Loading' \/ accountCache' = None THEN {}
              ELSE newTags
  BY DEF A!Rendered
<1>3. /\ A!Mounted' \in A!Form /\ A!Mounted'.city \in {None, A!Mounted'.province}
      /\ accountCache' # None => A!Mounted'.from # "empty"
  BY DEF A!Mounted, A!Form, A!Pages
<1>4. A!Loading' <=> accountCache' = None /\ accountFetch' # None
  BY DEF A!Loading
<1>5. A!Loading <=> accountCache = None /\ accountFetch # None
  BY DEF A!Loading
<1>6. accountForm' \in {None} \cup A!Form /\ newTags' \subseteq Labels
  BY <1>1, <1>2, <1>3
<1>7. A!CityOfProvince'
  BY <1>1, <1>2, <1>3 DEF A!CityOfProvince
<1>8. accountForm' # None => accountPlace' = "base" /\ ~A!Loading'
  BY <1>2
<1>9. A!FormHasData'
  <2>. SUFFICES ASSUME accountForm' # None, accountCache' # None PROVE accountForm'.from # "empty"
    BY DEF A!FormHasData
  <2>1. CASE accountForm = None
    BY <1>2, <1>3, <2>1
  <2>2. CASE accountForm # None
    <3>1. accountForm' = accountForm /\ accountPlace' # "other"
      BY <1>2, <1>8, <2>2
    <3>2. accountCache # None
      BY <1>1, <1>5, <2>2, <3>1
    <3>. QED BY <1>1, <2>2, <3>1, <3>2 DEF A!FormHasData
  <2>. QED BY <2>1, <2>2
<1>10. newTags' # {} => accountPlace' = "center" /\ accountCache' # None
  BY <1>2
<1>11. accountForm # None /\ accountForm.typed /\ (accountForm' = None \/ ~accountForm'.typed) =>
         accountPlace' # accountPlace \/ accountCache = None
  BY <1>1, <1>2, <1>4
<1>12. newTags # {} /\ newTags' = {} => accountPlace' # accountPlace
  BY <1>1, <1>2, <1>4
<1>. QED BY <1>6, <1>7, <1>8, <1>9, <1>10, <1>11, <1>12

\* What is done about the query.
AccountQueries ==
  \/ A!Leave \/ A!Focus \/ A!Answered \/ A!Fails \/ A!Collected
  \/ \E p \in A!Pages : A!Open(p)

LEMMA AccountQueriesInv ==
  ASSUME AInv, AccountQueries
  PROVE  /\ AInv'
         /\ accountForm # None /\ accountForm.typed /\ (accountForm' = None \/ ~accountForm'.typed) =>
              accountPlace' # accountPlace \/ accountCache = None
         /\ newTags # {} /\ newTags' = {} => accountPlace' # accountPlace
<1>. USE AccountAbsences
<1>1. /\ accountPlace \in A!Pages \cup {"other"} /\ accountCache \in A!Pages \cup {None}
      /\ accountFetch \in {None} \cup A!Fetch /\ accountDoubt \in BOOLEAN /\ A!OwnData
      /\ accountPlace \in A!Pages /\ accountFetch # None =>
           accountFetch.again = accountPlace /\ (~accountDoubt => accountFetch.asked = accountPlace)
  BY DEF AInv, A!TypeOK
<1>. DEFINE Asked ==
       /\ accountPlace' \in A!Pages \cup {"other"} /\ accountCache' \in A!Pages \cup {None}
       /\ accountFetch' \in {None} \cup A!Fetch /\ accountDoubt' \in BOOLEAN /\ A!OwnData'
       /\ accountPlace' \in A!Pages /\ accountFetch' # None =>
            accountFetch'.again = accountPlace'
                    /\ (~accountDoubt' => accountFetch'.asked = accountPlace')
       /\ accountCache' = accountCache \/ accountPlace' = "other"
               \/ (accountFetch # None /\ accountCache' # None)
       /\ A!Rendered
<1>2. ASSUME NEW p \in A!Pages
      PROVE  /\ A!Request(p) \in A!Fetch /\ A!Request(p).again = p /\ A!Request(p).asked = p
             /\ p # "other"
  BY DEF A!Request, A!Fetch, A!Pages
<1>3. ASSUME NEW p \in A!Pages, A!Open(p) PROVE Asked
  <2>1. CASE accountFetch = None
    <3>1. accountFetch' = A!Request(p) /\ accountDoubt' \in BOOLEAN
      BY <1>1, <1>3, <2>1 DEF A!Open
    <3>. QED BY <1>1, <1>2, <1>3, <3>1 DEF A!Open, A!OwnData
  <2>2. CASE accountFetch # None
    <3>1. accountFetch \in A!Fetch /\ accountFetch' = [accountFetch EXCEPT !.again = p]
      BY <1>1, <1>3, <2>2 DEF A!Open
    <3>2. accountFetch' \in A!Fetch /\ accountFetch'.again = p /\ accountDoubt' = TRUE
      BY <1>3, <2>2, <3>1 DEF A!Open, A!Fetch
    <3>. QED BY <1>1, <1>3, <3>2 DEF A!Open, A!OwnData
  <2>. QED BY <2>1, <2>2
<1>4. ASSUME A!Leave PROVE Asked
  BY <1>1, <1>4 DEF A!Leave, A!OwnData, A!Pages
<1>5. ASSUME A!Focus PROVE Asked
  <2>1. accountFetch' = A!Request(accountPlace) /\ accountPlace \in A!Pages
    BY <1>1, <1>5 DEF A!Focus
  <2>. QED BY <1>1, <1>2, <1>5, <2>1 DEF A!Focus, A!OwnData
<1>6. ASSUME A!Answered PROVE Asked
  <2>1. accountFetch \in A!Fetch /\ accountFetch.asked \in A!Pages
          /\ accountCache' = accountFetch.asked /\ accountFetch' = None
    BY <1>1, <1>6 DEF A!Answered, A!Fetch
  <2>2. accountDoubt' \in BOOLEAN /\ (~accountDoubt' => ~accountDoubt \/ accountFetch.asked = accountPlace)
    BY <1>1, <1>6 DEF A!Answered
  <2>. QED BY <1>1, <1>6, <2>1, <2>2 DEF A!Answered, A!OwnData
<1>7. ASSUME A!Fails PROVE Asked
  <2>1. CASE accountFetch.left > 0 /\ accountPlace # "other"
    <3>1. accountFetch \in A!Fetch /\ accountPlace \in A!Pages /\ accountFetch.again = accountPlace
      BY <1>1, <1>7, <2>1 DEF A!Fails
    <3>2. accountFetch' = [asked |-> accountFetch.again, again |-> accountFetch.again, left |-> accountFetch.left - 1]
          /\ (accountDoubt' <=> accountDoubt) /\ accountDoubt' \in BOOLEAN
      BY <1>1, <1>7, <2>1 DEF A!Fails
    <3>3. accountFetch' \in A!Fetch
      BY <2>1, <3>1, <3>2 DEF A!Fetch
    <3>. QED BY <1>1, <1>7, <3>1, <3>2, <3>3 DEF A!Fails, A!OwnData
  <2>2. CASE ~(accountFetch.left > 0 /\ accountPlace # "other")
    <3>1. accountFetch' = None /\ accountDoubt' = TRUE
      BY <1>7, <2>2 DEF A!Fails
    <3>. QED BY <1>1, <1>7, <3>1 DEF A!Fails, A!OwnData
  <2>. QED BY <2>1, <2>2
<1>8. ASSUME A!Collected PROVE Asked
  BY <1>1, <1>8 DEF A!Collected, A!OwnData, A!Pages
<1>9. Asked
  BY <1>3, <1>4, <1>5, <1>6, <1>7, <1>8 DEF AccountQueries
<1>. QED BY <1>9, RenderedForm DEF AInv, A!TypeOK

LEMMA AccountTypedInv ==
  ASSUME AInv, NEW f \in A!Form, accountForm # None, A!Typed(f), f.typed, f.from = accountForm.from,
         f.city \in {None, f.province}
  PROVE  AInv'
BY AccountAbsences DEF AInv, A!TypeOK, A!Typed, A!OwnData, A!FormHasData, A!CityOfProvince,
     A!Loading

LEMMA AStepInv ==
  ASSUME AInv, [A!Next]_(A!vars)
  PROVE  /\ AInv'
         /\ accountForm # None /\ accountForm.typed /\ (accountForm' = None \/ ~accountForm'.typed) =>
              accountPlace' # accountPlace \/ accountCache = None
         /\ newTags # {} /\ newTags' = {} => accountPlace' # accountPlace
<1>. USE AccountAbsences
<1>1. CASE AccountQueries
  BY <1>1, AccountQueriesInv
<1>2. ASSUME NEW f \in A!Form, accountForm # None, A!Typed(f), f.typed
      PROVE  accountForm' = f /\ newTags' = newTags /\ accountForm' # None
  BY <1>2 DEF A!Typed
<1>3. ASSUME NEW p \in Provinces, A!PickProvince(p)
      PROVE  \E f \in A!Form : accountForm # None /\ A!Typed(f) /\ f.typed /\ f.from = accountForm.from
                             /\ f.city \in {None, f.province}
  <2>1. accountForm \in A!Form
    BY <1>3 DEF A!PickProvince, AInv, A!TypeOK
  <2>2. [accountForm EXCEPT !.typed = TRUE, !.province = p, !.city = None] \in A!Form
    BY <2>1 DEF A!Form
  <2>. QED BY <1>3, <2>1, <2>2 DEF A!PickProvince, A!Form
<1>4. ASSUME A!PickCity
      PROVE  \E f \in A!Form : accountForm # None /\ A!Typed(f) /\ f.typed /\ f.from = accountForm.from
                             /\ f.city \in {None, f.province}
  <2>1. accountForm \in A!Form
    BY <1>4 DEF A!PickCity, AInv, A!TypeOK
  <2>2. [accountForm EXCEPT !.typed = TRUE, !.city = accountForm.province] \in A!Form
    BY <2>1 DEF A!Form
  <2>. QED BY <1>4, <2>1, <2>2 DEF A!PickCity, A!Form
<1>5. CASE A!PickCity \/ \E p \in Provinces : A!PickProvince(p)
  <2>1. PICK f \in A!Form : accountForm # None /\ A!Typed(f) /\ f.typed /\ f.from = accountForm.from
                          /\ f.city \in {None, f.province}
    BY <1>3, <1>4, <1>5
  <2>. QED BY <1>2, <2>1, AccountTypedInv
<1>6. ASSUME NEW l \in Labels, A!AddTag(l)
      PROVE  AInv' /\ accountForm' = accountForm /\ newTags' # {}
  BY <1>6 DEF A!AddTag, AInv, A!TypeOK, A!OwnData, A!FormHasData, A!CityOfProvince, A!Loading
<1>7. CASE UNCHANGED A!vars
  BY <1>7 DEF A!vars, AInv, A!TypeOK, A!OwnData, A!FormHasData, A!CityOfProvince, A!Loading
<1>. QED BY <1>1, <1>5, <1>6, <1>7 DEF A!Next, AccountQueries

-----------------------------------------------------------------------------
(* Search lists *)

\* Without doubt the page was rendered with the filters that are chosen, whatever
\* is under way was sent with them, and its own list is there or under way.
FiltersFollow ==
  /\ key = chosen
  /\ \A k \in S!Filters : searchFetch[k] \in {None, S!Sends(k, chosen)}
  /\ searchFetch[key] = None => searchCache[key] = chosen

SInv == S!TypeOK /\ (~searchDoubt /\ searchPage # "applications" => FiltersFollow)

LEMMA FiltersAreThere == \A c \in S!Filters : c # None
BY ConsoleAssumption

LEMMA SendsFilters ==
  ASSUME NEW k \in S!Filters, NEW c \in S!Filters
  PROVE  /\ S!Sends(k, c) \in S!Filters /\ S!KeyOf(c) \in S!Filters
         /\ searchPage \in S!Pages \ {"applications"} => S!KeyOf(c) = c /\ (k = c => S!Sends(k, c) = c)
<1>1. {} \in S!Filters
  BY DEF S!Filters
<1>2. S!Sends(k, c) \in S!Filters /\ S!KeyOf(c) \in S!Filters
  BY <1>1 DEF S!Sends, S!KeyOf
<1>3. searchPage \in S!Pages \ {"applications"} => S!KeyOf(c) = c /\ (k = c => S!Sends(k, c) = c)
  BY DEF S!Sends, S!KeyOf, S!Pages
<1>. QED BY <1>2, <1>3

LEMMA FetchesAre ==
  ASSUME NEW f \in [S!Filters -> S!Filters \cup {None}], key \in S!Filters,
         NEW k \in S!Filters, NEW c \in S!Filters
  PROVE  /\ S!Refetch(f, c) \in [S!Filters -> S!Filters \cup {None}]
         /\ S!Observe(f, k, c) \in [S!Filters -> S!Filters \cup {None}]
BY SendsFilters DEF S!Refetch, S!Observe

LEMMA SInitInv == S!Init => SInv
<1>. SUFFICES ASSUME S!Init PROVE SInv
  OBVIOUS
<1>1. {} \in S!Filters
  BY DEF S!Filters
<1>2. S!TypeOK
  BY <1>1 DEF S!Init, S!TypeOK
<1>3. searchPage # "applications" => FiltersFollow
  BY <1>1, SendsFilters, FiltersAreThere DEF S!Init, FiltersFollow
<1>. QED BY <1>2, <1>3 DEF SInv

LEMMA ChooseInv ==
  ASSUME SInv, NEW c \in S!Filters, S!Choose(c)
  PROVE  SInv'
<1>. USE FiltersAreThere, SendsFilters
<1>1. /\ searchPage \in S!Pages /\ chosen \in S!Filters /\ key \in S!Filters /\ c # chosen
      /\ searchCache \in [S!Filters -> S!Filters \cup {None}]
      /\ searchFetch \in [S!Filters -> S!Filters \cup {None}] /\ searchDoubt \in BOOLEAN
      /\ searchPage' = searchPage /\ searchCache' = searchCache /\ chosen' = c
  BY DEF SInv, S!TypeOK, S!Choose
<1>2. searchDoubt' \in BOOLEAN /\ (~searchDoubt' => ~searchDoubt /\ \A k \in S!Filters : searchFetch[k] = None)
  BY <1>1 DEF S!Choose, S!Running
<1>3. /\ key' \in S!Filters /\ searchFetch' \in [S!Filters -> S!Filters \cup {None}]
      /\ ~searchDoubt' /\ searchPage # "applications" => FiltersFollow'
  <2>1. CASE searchPage = "applications"
    BY <1>1, <2>1, FetchesAre DEF S!Choose
  <2>2. CASE searchPage = "projects"
    <3>1. key' = c /\ searchFetch' = S!Observe(searchFetch, c, c)
      BY <1>1, <2>2 DEF S!Choose
    <3>2. ASSUME ~searchDoubt' PROVE FiltersFollow'
      <4>1. key = chosen /\ \A k \in S!Filters : searchFetch[k] = None
        BY <1>2, <2>2, <3>2 DEF SInv, FiltersFollow
      <4>2. searchFetch' = [searchFetch EXCEPT ![c] = c]
        BY <1>1, <2>2, <3>1, <4>1 DEF S!Observe
      <4>3. \A k \in S!Filters : searchFetch'[k] = IF k = c THEN c ELSE None
        BY <1>1, <4>1, <4>2
      <4>. QED BY <1>1, <2>2, <3>1, <4>3 DEF FiltersFollow, S!Sends
    <3>. QED BY <1>1, <3>1, <3>2, FetchesAre
  <2>3. CASE searchPage = "articles"
    <3>1. S!ChooseRef(c)
      BY <1>1, <2>3 DEF S!Choose
    <3>2. key' \in S!Filters /\ searchFetch' \in [S!Filters -> S!Filters \cup {None}]
      <4>1. S!Refetch(searchFetch, c) \in [S!Filters -> S!Filters \cup {None}]
        BY <1>1, FetchesAre
      <4>2. S!Observe(S!Refetch(searchFetch, c), c, c) \in [S!Filters -> S!Filters \cup {None}]
        BY <1>1, <4>1, FetchesAre
      <4>. QED BY <1>1, <3>1, <4>1, <4>2 DEF S!ChooseRef
    <3>3. ASSUME ~searchDoubt' PROVE FiltersFollow'
      <4>1. key = chosen /\ \A k \in S!Filters : searchFetch[k] = None
        BY <1>2, <2>3, <3>3 DEF SInv, FiltersFollow
      <4>2. key' = c /\ searchFetch' = S!Observe(S!Refetch(searchFetch, c), c, c)
        BY <1>1, <3>1, <4>1 DEF S!ChooseRef
      <4>3. S!Refetch(searchFetch, c) = [searchFetch EXCEPT ![key] = c]
        BY <1>1, <2>3, <4>1 DEF S!Refetch, S!Sends
      <4>4. S!Refetch(searchFetch, c)[c] = None
        BY <1>1, <4>1, <4>3
      <4>5. searchFetch' = [[searchFetch EXCEPT ![key] = c] EXCEPT ![c] = c]
        BY <1>1, <2>3, <4>1, <4>2, <4>3, <4>4 DEF S!Observe, S!Sends
      <4>6. \A k \in S!Filters : searchFetch'[k] = IF k \in {c, key} THEN c ELSE None
        BY <1>1, <4>1, <4>5
      <4>. QED BY <1>1, <2>3, <4>2, <4>6 DEF FiltersFollow, S!Sends
    <3>. QED BY <3>2, <3>3
  <2>. QED BY <1>1, <2>1, <2>2, <2>3 DEF S!Pages
<1>. QED BY <1>1, <1>2, <1>3 DEF SInv, S!TypeOK

\* A request for the list the page shows, of the filters that are chosen.
LEMMA AgainInv ==
  ASSUME SInv, searchFetch' \in {searchFetch, [searchFetch EXCEPT ![key] = S!Sends(key, chosen)]},
         UNCHANGED <<searchPage, chosen, key, searchCache, searchDoubt>>
  PROVE  SInv'
<1>. USE FiltersAreThere, SendsFilters
<1>1. S!TypeOK'
  BY DEF SInv, S!TypeOK
<1>2. ASSUME ~searchDoubt', searchPage' # "applications" PROVE FiltersFollow'
  <2>1. FiltersFollow
    BY <1>2 DEF SInv
  <2>2. \A k \in S!Filters : S!Sends(k, chosen)' = S!Sends(k, chosen)
    BY DEF S!Sends
  <2>3. \A k \in S!Filters : searchFetch'[k] \in {searchFetch[k], S!Sends(k, chosen)}
    BY DEF SInv, S!TypeOK
  <2>4. searchFetch'[key] = None => searchFetch[key] = None
    BY DEF SInv, S!TypeOK
  <2>. QED BY <2>1, <2>2, <2>3, <2>4 DEF FiltersFollow
<1>. QED BY <1>1, <1>2 DEF SInv

LEMMA EndedInv ==
  ASSUME SInv, NEW k \in S!Filters, searchFetch[k] # None,
         S!Ended(k, [searchFetch EXCEPT ![k] = None]), UNCHANGED <<searchPage, chosen>>,
         \/ searchCache' = [searchCache EXCEPT ![k] = searchFetch[k]] /\ searchDoubt' = searchDoubt
         \/ searchCache' = searchCache /\ searchDoubt' = TRUE
  PROVE  SInv'
<1>. USE FiltersAreThere, SendsFilters
<1>1. /\ searchPage \in S!Pages /\ chosen \in S!Filters /\ key \in S!Filters
      /\ searchCache \in [S!Filters -> S!Filters \cup {None}]
      /\ searchFetch \in [S!Filters -> S!Filters \cup {None}] /\ searchDoubt \in BOOLEAN
  BY DEF SInv, S!TypeOK
<1>. DEFINE rest == [searchFetch EXCEPT ![k] = None]
<1>2. rest \in [S!Filters -> S!Filters \cup {None}]
  BY <1>1
<1>3. key' \in S!Filters /\ searchFetch' \in [S!Filters -> S!Filters \cup {None}]
  <2>1. S!KeyOf(chosen) \in S!Filters
    BY <1>1
  <2>2. S!Observe(rest, S!KeyOf(chosen), chosen) \in [S!Filters -> S!Filters \cup {None}]
    BY <1>1, <1>2, <2>1, FetchesAre
  <2>. QED BY <1>1, <1>2, <2>1, <2>2 DEF S!Ended
<1>4. searchCache' \in [S!Filters -> S!Filters \cup {None}] /\ searchDoubt' \in BOOLEAN
  BY <1>1
<1>5. ASSUME ~searchDoubt', searchPage' # "applications" PROVE FiltersFollow'
  <2>1. FiltersFollow /\ searchPage # "applications"
    BY <1>5 DEF SInv
  <2>2. key' = key /\ searchFetch' = rest
    BY <1>1, <2>1 DEF S!Ended, FiltersFollow, S!Observe
  <2>3. searchCache' = [searchCache EXCEPT ![k] = searchFetch[k]]
    BY <1>5
  <2>4. \A n \in S!Filters : S!Sends(n, chosen)' = S!Sends(n, chosen)
    BY DEF S!Sends
  <2>5. \A n \in S!Filters : rest[n] \in {searchFetch[n], None}
    BY <1>1
  <2>6. key = k => searchCache'[key] = chosen
    BY <1>1, <2>1, <2>3 DEF FiltersFollow
  <2>7. key # k => searchCache'[key] = searchCache[key] /\ rest[key] = searchFetch[key]
    BY <1>1, <2>3
  <2>. QED BY <1>1, <2>1, <2>2, <2>4, <2>5, <2>6, <2>7 DEF FiltersFollow
<1>. QED BY <1>1, <1>3, <1>4, <1>5 DEF SInv, S!TypeOK

LEMMA SStepInv == SInv /\ [S!Next]_(S!vars) => SInv'
<1>. SUFFICES ASSUME SInv, [S!Next]_(S!vars) PROVE SInv'
  OBVIOUS
<1>1. CASE S!All \/ \E t \in Tags : S!Toggle(t)
  <2>1. \E c \in S!Filters : S!Choose(c)
    <3>1. CASE S!All
      BY <3>1 DEF S!All, S!Filters
    <3>2. ASSUME NEW t \in Tags, S!Toggle(t) PROVE \E c \in S!Filters : S!Choose(c)
      <4>1. (chosen \ {t}) \cup ({t} \ chosen) \in S!Filters
        BY DEF SInv, S!TypeOK, S!Filters
      <4>. QED BY <3>2, <4>1 DEF S!Toggle
    <3>. QED BY <1>1, <3>1, <3>2
  <2>. QED BY <2>1, ChooseInv
<1>2. CASE S!More
  BY <1>2, AgainInv DEF S!More, S!Refetch
<1>3. CASE S!Focus
  BY <1>3, AgainInv DEF S!Focus
<1>4. ASSUME NEW k \in S!Filters, S!Answered(k) \/ S!Retried(k) \/ S!Fails(k) PROVE SInv'
  <2>1. CASE S!Answered(k)
    BY <2>1, EndedInv DEF S!Answered
  <2>2. CASE S!Retried(k)
    BY <2>2, AgainInv DEF S!Retried
  <2>3. CASE S!Fails(k)
    BY <2>3, EndedInv DEF S!Fails
  <2>. QED BY <1>4, <2>1, <2>2, <2>3
<1>5. ASSUME NEW p \in S!Pages, S!Opened(p) PROVE SInv'
  <2>1. {} \in S!Filters
    BY DEF S!Filters
  <2>2. S!TypeOK'
    BY <1>5, <2>1 DEF S!Opened, S!TypeOK
  <2>3. S!Sends({}, {})' = {}
    BY DEF S!Sends
  <2>4. FiltersFollow'
    BY <1>5, <2>1, <2>3, FiltersAreThere DEF S!Opened, FiltersFollow
  <2>. QED BY <2>2, <2>4 DEF SInv
<1>6. CASE UNCHANGED S!vars
  BY <1>6, AgainInv DEF S!vars
<1>. QED BY <1>1, <1>2, <1>3, <1>4, <1>5, <1>6 DEF S!Next

LEMMA ListsFollow == SInv => S!ListOfFilters
<1>. SUFFICES ASSUME SInv, ~S!Running, ~searchDoubt, searchPage # "applications"
        PROVE searchCache[key] = chosen
  BY DEF S!ListOfFilters
<1>. QED BY DEF SInv, S!TypeOK, FiltersFollow, S!Running

-----------------------------------------------------------------------------
(* Transfer *)

\* The amount that is confirmed is that of the form.
FInv == F!TypeOK /\ F!ConfirmsDraft

LEMMA FInitInv == F!Init => FInv
BY DEF F!Init, FInv, F!TypeOK, F!ConfirmsDraft, F!Steps

LEMMA FStepInv == FInv /\ [F!Next]_(F!vars) => FInv'
<1>. SUFFICES ASSUME FInv, [F!Next]_(F!vars) PROVE FInv'
  OBVIOUS
<1>. USE DEF FInv, F!TypeOK, F!ConfirmsDraft, F!Steps
<1>1. ASSUME NEW a \in Amounts \cup {None}, F!Edit(a) PROVE FInv'
  BY <1>1 DEF F!Edit
<1>2. CASE F!TypePassword
  <2>1. stepPassword' \in BOOLEAN /\ UNCHANGED <<stepCurrent, draft, stepData>>
    BY <1>2 DEF F!TypePassword
  <2>. QED BY <2>1
<1>3. CASE F!Fill
  BY <1>3 DEF F!Fill
<1>4. CASE F!Confirm \/ F!Back \/ F!Again
  BY <1>4 DEF F!Confirm, F!Back, F!Again
<1>5. CASE UNCHANGED F!vars
  BY <1>5 DEF F!vars
<1>. QED BY <1>1, <1>2, <1>3, <1>4, <1>5 DEF F!Next

-----------------------------------------------------------------------------
(* Advanced form *)

\* A key that is being created has no row, and no key has come later.
DInv ==
  /\ D!TypeOK /\ D!MembersAreTold /\ D!ErrorsGo
  /\ \A k \in D!NewKeys : k > keyCounter => members[k] = 0
  /\ creating # None => creating <= keyCounter

LEMMA MemberKeys ==
  MaxMembers \in Nat \ {0} /\ D!NewKeys = 1..MaxMembers /\ None \notin Given \cup D!NewKeys
  /\ Given \cap D!NewKeys = {}
<1>1. MaxMembers \in Nat \ {0} /\ D!NewKeys = 1..MaxMembers /\ None \notin Nat /\ None \notin Given
      /\ Given \cap D!NewKeys = {}
  BY ConsoleAssumption DEF D!NewKeys
<1>. QED BY <1>1

LEMMA DInitInv == D!Init => DInv
<1>. SUFFICES ASSUME D!Init PROVE DInv
  OBVIOUS
<1>1. /\ MaxMembers \in Nat \ {0} /\ D!NewKeys = 1..MaxMembers /\ None \notin Given \cup D!NewKeys
      /\ creating = None /\ keyCounter = 0
  BY MemberKeys DEF D!Init
<1>2. \A k \in Given \cup D!NewKeys : members[k] = IF k \in Given THEN 1 ELSE 0
  BY DEF D!Init
<1>3. members \in [Given \cup D!NewKeys -> 0..MaxMembers] /\ keyCounter \in 0..MaxMembers
  BY <1>1 DEF D!Init
<1>4. D!MembersAreTold
  BY <1>1, <1>2, <1>3 DEF D!MembersAreTold
<1>5. \A k \in D!NewKeys : k > keyCounter => members[k] = 0
  BY <1>1, <1>2, MemberKeys
<1>. QED BY <1>1, <1>3, <1>4, <1>5 DEF D!Init, DInv, D!TypeOK, D!ErrorsGo

\* Only the table's actions change it.
LEMMA TableKept ==
  ASSUME DInv, UNCHANGED D!table, filled' \subseteq Inputs, memberError' \subseteq Inputs,
         memberBusy' \in BOOLEAN, D!ErrorsGo'
  PROVE  DInv'
BY DEF DInv, D!TypeOK, D!MembersAreTold, D!table

LEMMA DStepInv == DInv /\ [D!Next]_(D!vars) => DInv'
<1>. SUFFICES ASSUME DInv, [D!Next]_(D!vars) PROVE DInv'
  OBVIOUS
<1>1. ASSUME NEW f \in Inputs, D!Edit(f) PROVE DInv'
  BY <1>1, TableKept DEF D!Edit, DInv, D!TypeOK, D!ErrorsGo, D!table
<1>2. CASE D!Submit
  BY <1>2, TableKept DEF D!Submit, DInv, D!TypeOK, D!ErrorsGo, D!table
<1>3. CASE D!Refuse
  BY <1>3, TableKept DEF D!Refuse, DInv, D!TypeOK, D!ErrorsGo, D!table
<1>4. CASE D!Posted
  BY <1>4, TableKept DEF D!Posted, DInv, D!TypeOK, D!ErrorsGo, D!table
<1>5. CASE UNCHANGED D!vars
  BY <1>5, TableKept DEF D!vars, DInv, D!TypeOK, D!ErrorsGo, D!table
<1>. SUFFICES ASSUME D!Create \/ D!Save \/ D!Cancel \/ \E k \in Given \cup D!NewKeys : D!Delete(k)
              PROVE  DInv'
  BY <1>1, <1>2, <1>3, <1>4, <1>5 DEF D!Next
<1>6. UNCHANGED <<filled, memberError, memberBusy>>
  BY DEF D!Create, D!Save, D!Cancel, D!Delete
<1>. DEFINE Fits ==
               /\ members' \in [Given \cup D!NewKeys -> 0..MaxMembers]
               /\ creating' \in D!NewKeys \cup {None} /\ keyCounter' \in 0..MaxMembers
               /\ \A k \in Given \cup D!NewKeys :
                    members'[k] + (IF creating' = k THEN 1 ELSE 0) <= 1
               /\ \A k \in D!NewKeys : k > keyCounter' => members'[k] = 0
               /\ creating' # None => creating' <= keyCounter'
<1>7. SUFFICES Fits
  BY <1>6 DEF DInv, D!TypeOK, D!MembersAreTold, D!ErrorsGo
<1>. USE MemberKeys
<1>8. /\ members \in [Given \cup D!NewKeys -> 0..MaxMembers]
      /\ creating \in D!NewKeys \cup {None} /\ keyCounter \in 0..MaxMembers
      /\ \A k \in Given \cup D!NewKeys : members[k] + (IF creating = k THEN 1 ELSE 0) <= 1
      /\ \A k \in D!NewKeys : k > keyCounter => members[k] = 0
      /\ creating # None => creating <= keyCounter
  BY DEF DInv, D!TypeOK, D!MembersAreTold
<1>9. CASE D!Create
  BY <1>8, <1>9 DEF D!Create
<1>10. CASE D!Save
  <2>1. creating \in D!NewKeys /\ members[creating] = 0 /\ creating' = None
        /\ keyCounter' = keyCounter /\ members' = [members EXCEPT ![creating] = 1]
    <3>1. creating \in D!NewKeys
      BY <1>8, <1>10 DEF D!Save
    <3>2. members[creating] \in Nat /\ members[creating] + 1 <= 1
      BY <1>8, <3>1
    <3>3. members[creating] + 1 = 1 /\ members[creating] = 0
      BY <3>2
    <3>. QED BY <1>10, <3>1, <3>3 DEF D!Save
  <2>2. None \notin Given
    BY <1>8
  <2>. QED BY <1>8, <2>1, <2>2
<1>11. CASE D!Cancel
  BY <1>8, <1>11 DEF D!Cancel
<1>12. ASSUME NEW k \in Given \cup D!NewKeys, D!Delete(k) PROVE Fits
  BY <1>8, <1>12 DEF D!Delete
<1>. QED BY <1>9, <1>10, <1>11, <1>12

-----------------------------------------------------------------------------
(* Map *)

\* What is not there has been asked for and is under way or has failed, and what
\* has failed is not there, unless a map may have been lost.
MapAsked ==
  mapOpen => \A q \in M!Queries : data[q] # None \/ mapBusy[q] \/ mapFailed[q]

MapAbsent ==
  mapOpen /\ ~lost => \A q \in M!Queries : mapFailed[q] => data[q] = None

\* The effect has seen what there was when the page was rendered last.
MInv ==
  /\ M!TypeOK /\ MapAsked /\ MapAbsent /\ M!DrawnWhenShown
  /\ svg <=> M!Shows
  /\ seen = IF mapOpen THEN M!Deps ELSE None

LEMMA DepsType ==
  M!TypeOK => /\ M!Loading("world") \in BOOLEAN
              /\ M!Deps.of = data /\ M!Deps.loading = M!Loading("world") /\ M!Deps # None
<1>. SUFFICES ASSUME M!TypeOK PROVE M!Loading("world") \in BOOLEAN /\ M!Deps # None
  BY DEF M!Deps
<1>1. M!Loading("world") \in BOOLEAN
  BY DEF M!Loading, M!TypeOK, M!Queries
<1>2. M!Deps \in [of : [M!Queries -> Versions \cup {None}], loading : BOOLEAN]
  BY <1>1 DEF M!Deps, M!TypeOK
<1>3. None \notin [of : [M!Queries -> Versions \cup {None}], loading : BOOLEAN]
  BY ConsoleAssumption
<1>. QED BY <1>1, <1>2, <1>3

LEMMA DepsThere == M!TypeOK => M!Deps # None
BY DepsType

LEMMA MInitInv == M!Init => MInv
<1>. SUFFICES ASSUME M!Init PROVE MInv
  OBVIOUS
<1>1. M!TypeOK
  BY DEF M!Init, M!TypeOK
<1>2. ~M!Shows
  BY DEF M!Init, M!Shows
<1>. QED BY <1>1, <1>2 DEF M!Init, MInv, M!DrawnWhenShown, MapAsked, MapAbsent

\* What a render leaves, whatever has happened to the queries.
LEMMA MapRendered ==
  ASSUME MInv, M!Rendered, MapAsked', mapOpen' \in BOOLEAN,
         data' \in [M!Queries -> Versions \cup {None}],
         mapFailed' \in [M!Queries -> BOOLEAN], mapBusy' \in [M!Queries -> BOOLEAN]
  PROVE  MInv'
<1>1. M!TypeOK /\ MapAsked /\ MapAbsent /\ M!DrawnWhenShown /\ (svg <=> M!Shows)
      /\ seen = IF mapOpen THEN M!Deps ELSE None
  BY DEF MInv
<1>2. /\ svg' = M!Shows' /\ seen' = IF mapOpen' THEN M!Deps' ELSE None
      /\ drawn' = (M!Shows' /\ (M!Draws \/ (svg /\ drawn)))
      /\ lost' = (~M!Draws /\ mapOpen' /\ (lost \/ \E q \in M!Queries : mapFailed'[q] /\ data'[q] # None))
  BY DEF M!Rendered
<1>3. M!Shows' \in BOOLEAN /\ drawn' \in BOOLEAN /\ lost' \in BOOLEAN /\ svg' \in BOOLEAN
  <2>1. M!Shows' \in BOOLEAN
    BY DEF M!Shows
  <2>2. drawn' \in BOOLEAN
    BY <1>2, <2>1
  <2>3. lost' \in BOOLEAN
    BY <1>2
  <2>. QED BY <1>2, <2>1, <2>2, <2>3
<1>4. seen' = None \/ (seen'.of \in [M!Queries -> Versions \cup {None}] /\ seen'.loading \in BOOLEAN)
  <2>1. M!Loading("world")' \in BOOLEAN
    BY DEF M!Loading, M!Queries
  <2>2. M!Deps'.of = data' /\ M!Deps'.loading = M!Loading("world")'
    BY DEF M!Deps
  <2>. QED BY <1>2, <2>1, <2>2
<1>5. M!TypeOK'
  BY <1>3, <1>4 DEF M!TypeOK
<1>6. M!Draws => M!Shows'
  BY DEF M!Draws
<1>7. M!Shows' => /\ mapOpen' /\ \A q \in M!Queries : ~mapFailed'[q] /\ ~M!Loading(q)'
                  /\ \A q \in M!Queries : data'[q] # None
  BY DEF M!Shows, MapAsked, M!Loading
<1>8. MapAbsent'
  <2>. SUFFICES ASSUME mapOpen', ~lost', NEW q \in M!Queries, mapFailed'[q] PROVE data'[q] = None
    BY DEF MapAbsent
  <2>1. ~M!Draws
    BY <1>6, <1>7
  <2>. QED BY <1>2, <2>1
<1>9. M!DrawnWhenShown'
  <2>. SUFFICES ASSUME svg', ~lost' PROVE drawn'
    BY DEF M!DrawnWhenShown
  <2>1. M!Shows'
    BY <1>2
  <2>2. CASE M!Draws
    BY <1>2, <2>1, <2>2
  <2>3. CASE ~M!Draws
    <3>1. seen = M!Deps'
      BY <1>7, <2>1, <2>3, "world" \in M!Queries DEF M!Draws, M!Queries
    <3>2. M!Deps'.of = data' /\ M!Deps.of = data
      BY DEF M!Deps
    <3>7. (M!TypeOK => M!Deps # None)'
      BY DepsThere, PTL
    <3>3. mapOpen /\ data' = data
      BY <1>1, <1>5, <3>1, <3>2, <3>7
    <3>4. ~lost
      BY <1>2, <1>7, <2>1, <2>3
    <3>5. \A q \in M!Queries : ~mapFailed[q] /\ ~M!Loading(q)
      BY <1>1, <1>7, <2>1, <3>3, <3>4 DEF MapAbsent, M!Loading
    <3>6. svg /\ drawn
      BY <1>1, <3>3, <3>4, <3>5 DEF M!Shows, M!DrawnWhenShown
    <3>. QED BY <1>2, <2>1, <3>6
  <2>. QED BY <2>2, <2>3
<1>. QED BY <1>2, <1>3, <1>5, <1>8, <1>9 DEF MInv

LEMMA MStepInv == MInv /\ [M!Next]_(M!vars) => MInv'
<1>. SUFFICES ASSUME MInv, [M!Next]_(M!vars) PROVE MInv'
  OBVIOUS
<1>. USE DEF MInv, M!TypeOK
<1>1. ASSUME NEW Q \in SUBSET M!Queries, M!Asking(Q), mapOpen' => mapOpen \/ Q = M!Queries
      PROVE  /\ mapFailed' \in [M!Queries -> BOOLEAN] /\ mapBusy' \in [M!Queries -> BOOLEAN]
             /\ data' = data => MapAsked'
  <2>1. /\ mapBusy' = [q \in M!Queries |-> mapBusy[q] \/ q \in Q]
        /\ mapFailed' = [q \in M!Queries |-> mapFailed[q] /\ ~(q \in Q /\ data[q] = None)]
    BY <1>1 DEF M!Asking
  <2>2. mapFailed' \in [M!Queries -> BOOLEAN] /\ mapBusy' \in [M!Queries -> BOOLEAN]
    BY <2>1
  <2>3. ASSUME data' = data, mapOpen', NEW q \in M!Queries
        PROVE  data'[q] # None \/ mapBusy'[q] \/ mapFailed'[q]
    <3>1. mapBusy'[q] <=> mapBusy[q] \/ q \in Q
      BY <2>1
    <3>2. mapFailed'[q] <=> mapFailed[q] /\ ~(q \in Q /\ data[q] = None)
      BY <2>1
    <3>3. CASE Q = M!Queries
      BY <3>1, <3>3
    <3>4. CASE mapOpen
      BY <2>3, <3>1, <3>2, <3>4 DEF MapAsked
    <3>. QED BY <1>1, <2>3, <3>3, <3>4
  <2>. QED BY <2>2, <2>3 DEF MapAsked
<1>2. CASE M!Open
  BY <1>1, <1>2, MapRendered DEF M!Open
<1>3. CASE M!Retry
  BY <1>1, <1>3, MapRendered DEF M!Retry
<1>4. CASE M!Focus
  BY <1>1, <1>4, MapRendered DEF M!Focus
<1>5. CASE M!Leave
  BY <1>5, MapRendered DEF M!Leave, MapAsked
<1>6. ASSUME NEW q \in M!Queries, M!Answered(q) PROVE MInv'
  <2>1. PICK v \in Versions : data' = [data EXCEPT ![q] = v]
    BY <1>6 DEF M!Answered
  <2>2. /\ mapOpen' = mapOpen /\ M!Rendered /\ v # None
        /\ mapBusy' = [mapBusy EXCEPT ![q] = FALSE] /\ mapFailed' = [mapFailed EXCEPT ![q] = FALSE]
    BY <1>6, ConsoleAssumption DEF M!Answered
  <2>3. MapAsked'
    BY <2>1, <2>2 DEF MapAsked
  <2>. QED BY <2>1, <2>2, <2>3, MapRendered
<1>7. ASSUME NEW q \in M!Queries, M!Fails(q) PROVE MInv'
  <2>1. MapAsked'
    BY <1>7 DEF MapAsked, M!Fails
  <2>. QED BY <1>7, <2>1, MapRendered DEF M!Fails
<1>8. CASE UNCHANGED M!vars
  <2>1. M!TypeOK' /\ MapAsked' /\ MapAbsent' /\ M!DrawnWhenShown'
    BY <1>8 DEF M!vars, MapAsked, MapAbsent, M!DrawnWhenShown
  <2>2. M!Deps' = M!Deps
    BY <1>8 DEF M!vars, M!Deps, M!Loading
  <2>3. M!Shows' <=> M!Shows
    BY <1>8 DEF M!vars, M!Shows, M!Loading
  <2>. QED BY <1>8, <2>1, <2>2, <2>3 DEF M!vars
<1>. QED BY <1>2, <1>3, <1>4, <1>5, <1>6, <1>7, <1>8 DEF M!Next

-----------------------------------------------------------------------------
(* Registration *)

\* The countdown is the interval's, and a request has what it was sent with.
GInv == G!TypeOK /\ G!WaitsForTheInterval /\ G!SentTwice /\ (interval # None => interval = count)

LEMMA GInitInv == G!Init => GInv
<1>1. G!Init => count \in 0..Seconds /\ old \in 0..MaxOld
  BY ConsoleAssumption DEF G!Init
<1>. QED BY <1>1 DEF G!Init, GInv, G!TypeOK, G!WaitsForTheInterval, G!SentTwice

LEMMA GStepInv == GInv /\ [G!Next]_(G!vars) => GInv'
<1>. SUFFICES ASSUME GInv, [G!Next]_(G!vars) PROVE GInv'
  OBVIOUS
<1>0. /\ Seconds \in Nat \ {0} /\ MaxOld \in Nat /\ None \notin Nat
      /\ None \notin [password : Passwords, confirm : Passwords]
  <2>1. Seconds \in Nat \ {0} /\ MaxOld \in Nat /\ None \notin Nat
    BY ConsoleAssumption
  <2>2. None \notin [password : Passwords, confirm : Passwords]
    BY ConsoleAssumption
  <2>. QED BY <2>1, <2>2
<1>. USE DEF GInv, G!TypeOK, G!WaitsForTheInterval, G!SentTwice, G!form
<1>1. CASE G!GetCaptcha
  <2>1. count' \in 0..Seconds /\ count' # 0 /\ interval' = count' /\ interval' # None
    BY <1>0, <1>1 DEF G!GetCaptcha
  <2>. QED BY <1>1, <2>1 DEF G!GetCaptcha
<1>2. CASE G!Tick
  <2>1. interval = count /\ count \in 0..Seconds /\ count # 0
    BY <1>2 DEF G!Tick
  <2>2. count' \in 0..Seconds /\ interval' = IF count' = 0 THEN None ELSE count'
    BY <1>0, <1>2, <2>1 DEF G!Tick
  <2>3. interval' \in {None} \cup 0..Seconds /\ (count' # 0 <=> interval' # None)
        /\ (interval' # None => interval' = count')
    BY <1>0, <2>2
  <2>. QED BY <1>2, <2>2, <2>3 DEF G!Tick
<1>3. CASE G!TickOld
  <2>1. old' \in 0..MaxOld
    BY <1>0, <1>3 DEF G!TickOld
  <2>. QED BY <1>3, <2>1 DEF G!TickOld
<1>4. ASSUME NEW p \in Passwords, G!Type(p) \/ G!TypeAgain(p) PROVE GInv'
  BY <1>4 DEF G!Type, G!TypeAgain
<1>5. CASE G!Submit
  <2>0. regPassword \in Passwords /\ confirm = regPassword
    BY <1>5 DEF G!Submit
  <2>1. request' \in [password : Passwords, confirm : Passwords]
        /\ request'.password = request'.confirm
    BY <1>5, <2>0 DEF G!Submit
  <2>. QED BY <1>5, <2>1 DEF G!Submit
<1>6. CASE G!Leave
  <2>1. old' \in 0..MaxOld /\ count' \in 0..Seconds
    BY <1>0, <1>6 DEF G!Leave
  <2>. QED BY <1>6, <2>1 DEF G!Leave
<1>7. CASE G!Open
  BY <1>7 DEF G!Open
<1>8. CASE G!Answered
  BY <1>8 DEF G!Answered
<1>9. CASE UNCHANGED G!vars
  BY <1>9 DEF G!vars
<1>. QED BY <1>1, <1>2, <1>3, <1>4, <1>5, <1>6, <1>7, <1>8, <1>9 DEF G!Next

-----------------------------------------------------------------------------
(* Basic list *)

\* One item with each of the first n ids.
FirstIds(n) == [i \in B!Ids |-> IF i <= n THEN 1 ELSE 0]

\* There are as many items as they have ids.
LEMMA LengthOfFirst ==
  ASSUME NEW n \in 0..Count + MaxPosts
  PROVE  B!Length(FirstIds(n)) = n
<1> DEFINE Upto == B!Ids \cup {0}
           Adds(g) == g = [i \in Upto |-> IF i = 0 THEN 0 ELSE g[i - 1] + FirstIds(n)[i]]
           Sum == [i \in Upto |-> IF i <= n THEN i ELSE n]
<1>0. Count \in Nat \ {0} /\ MaxPosts \in Nat
  BY ConsoleAssumption
<1>1. \A i \in Upto : /\ i \in Nat /\ (i # 0 => i - 1 \in Upto /\ i \in B!Ids)
                      /\ i # 0 => FirstIds(n)[i] = IF i <= n THEN 1 ELSE 0
  BY <1>0 DEF B!Ids, FirstIds
<1>12. Count + MaxPosts \in Upto /\ n \in Nat
  BY <1>0 DEF B!Ids
<1> HIDE DEF Upto
<1>2. Adds(Sum)
  <2>1. ASSUME NEW i \in Upto PROVE Sum[i] = IF i = 0 THEN 0 ELSE Sum[i - 1] + FirstIds(n)[i]
    <3>1. /\ i \in Nat /\ n \in Nat
          /\ i # 0 => i - 1 \in Upto /\ FirstIds(n)[i] = IF i <= n THEN 1 ELSE 0
      BY <1>1, <1>12
    <3>. QED BY <3>1
  <2>. QED BY <2>1
<1> DEFINE Total == CHOOSE g : Adds(g)
<1>3. Adds(Total)
  BY <1>2
<1>4. B!Length(FirstIds(n)) = Total[Count + MaxPosts]
  BY DEF B!Length, Upto
<1>5. \A i \in Upto : Total[i] = IF i = 0 THEN 0 ELSE Total[i - 1] + FirstIds(n)[i]
  BY <1>3
<1> HIDE DEF Total, Adds
<1>6. {i \in Upto : Total[i] # Sum[i]} = {}
  <2>1. SUFFICES ASSUME {i \in Upto : Total[i] # Sum[i]} # {} PROVE FALSE
    OBVIOUS
  <2>2. PICK i \in {j \in Upto : Total[j] # Sum[j]} : \A j \in {k \in Upto : Total[k] # Sum[k]} : i <= j
    <3>1. {j \in Upto : Total[j] # Sum[j]} \in SUBSET Nat
      BY <1>1
    <3>. QED BY <2>1, <3>1, LeastNumber
  <2>3. i \in Nat /\ i \in Upto /\ n \in Nat
    BY <1>1, <1>12
  <2>4. i # 0
    BY <1>5, <2>2, <2>3
  <2>5. Total[i - 1] = Sum[i - 1] /\ i - 1 \in Upto
    BY <1>1, <2>2, <2>3, <2>4
  <2>6. Sum[i] = Sum[i - 1] + FirstIds(n)[i]
    BY <1>1, <2>3, <2>4, <2>5
  <2>. QED BY <1>5, <2>2, <2>3, <2>4, <2>5, <2>6
<1>7. Sum[Count + MaxPosts] = n
  BY <1>0, <1>12
<1>. QED BY <1>4, <1>6, <1>7, <1>12

\* The mock's items have the first ids, one each; a modal that is closed has
\* forgotten what was edited.
BInv ==
  /\ B!TypeOK
  /\ \E n \in 0..Count + MaxPosts : items = FirstIds(n)
  /\ modal \in {"closed", "add"} => listCurrent \in {0, None}

LEMMA TaskNumbers == Count \in Nat \ {0} /\ MaxPosts \in Nat
BY ConsoleAssumption

LEMMA BInitInv == B!Init => BInv
<1>. SUFFICES ASSUME B!Init PROVE BInv
  OBVIOUS
<1>1. items = FirstIds(0)
  BY TaskNumbers DEF B!Init, FirstIds, B!Ids
<1>2. B!TypeOK
  <2>1. items \in [B!Ids -> 0..MaxPosts + 1]
    BY TaskNumbers DEF B!Init
  <2>2. listPosts \in Seq(B!Post) /\ Len(listPosts) <= MaxPosts
    BY TaskNumbers DEF B!Init
  <2>. QED BY <2>1, <2>2 DEF B!Init, B!TypeOK, B!Ask
<1>. QED BY <1>1, <1>2, TaskNumbers DEF BInv, B!Init

\* What is left of the requests when one has come to its end.
LEMMA WithoutIs ==
  ASSUME NEW s \in Seq(B!Post), NEW n \in DOMAIN s
  PROVE  B!Without(s, n) \in Seq(B!Post) /\ Len(B!Without(s, n)) = Len(s) - 1
<1>1. Len(s) \in Nat /\ n \in 1..Len(s)
  OBVIOUS
<1>2. /\ SubSeq(s, 1, n - 1) \in Seq(B!Post)
      /\ Len(SubSeq(s, 1, n - 1)) = n - 1
  <2>1. \A i \in 1..n - 1 : s[i] \in B!Post
    BY <1>1
  <2>. QED BY <1>1, <2>1, SubSeqProperties
<1>3. /\ SubSeq(s, n + 1, Len(s)) \in Seq(B!Post)
      /\ Len(SubSeq(s, n + 1, Len(s))) = Len(s) - n
  <2>1. \A i \in n + 1..Len(s) : s[i] \in B!Post
    BY <1>1
  <2>. QED BY <1>1, <2>1, SubSeqProperties
<1>. DEFINE a == SubSeq(s, 1, n - 1)
            b == SubSeq(s, n + 1, Len(s))
<1>. HIDE DEF a, b
<1>4. a \o b \in Seq(B!Post) /\ Len(a \o b) = Len(a) + Len(b)
  BY <1>2, <1>3, ConcatProperties DEF a, b
<1>5. Len(a) = n - 1 /\ Len(b) = Len(s) - n
  BY <1>2, <1>3 DEF a, b
<1>6. B!Without(s, n) = a \o b
  BY DEF B!Without, a, b
<1>7. Len(a \o b) = Len(s) - 1
  BY <1>1, <1>4, <1>5
<1>. QED BY <1>4, <1>6, <1>7

LEMMA BStepInv == BInv /\ [B!Next]_(B!vars) => BInv'
<1>. SUFFICES ASSUME BInv, [B!Next]_(B!vars) PROVE BInv'
  OBVIOUS
<1>. USE TaskNumbers
<1>1. CASE UNCHANGED B!vars
  BY <1>1 DEF B!vars, B!dialog, BInv, B!TypeOK
<1>2. CASE B!GetList
  <2>1. B!Made = FirstIds(Count) /\ B!Shown(B!Made) \subseteq B!Ids
    BY DEF B!Made, FirstIds, B!Shown
  <2>2. B!Made \in [B!Ids -> 0..MaxPosts + 1]
    BY DEF B!Made, B!Ids
  <2>. QED BY <1>2, <2>1, <2>2 DEF B!GetList, B!dialog, BInv, B!TypeOK
<1>3. CASE B!Show
  BY <1>3 DEF B!Show, B!dialog, BInv, B!TypeOK
<1>4. CASE B!Add
  BY <1>4 DEF B!Add, BInv, B!TypeOK
<1>5. ASSUME NEW m \in B!Methods, NEW i \in B!Ids \cup {0}, B!Sends(m, i)
      PROVE  listPosts' \in Seq(B!Post) /\ Len(listPosts') <= MaxPosts
  BY <1>5 DEF B!Sends, BInv, B!TypeOK, B!Post
<1>6. CASE B!Submit
  <2>1. listPosts' \in Seq(B!Post) /\ Len(listPosts') <= MaxPosts
    BY <1>5, <1>6 DEF B!Submit, B!Methods
  <2>. QED BY <1>6, <2>1 DEF B!Submit, BInv, B!TypeOK
<1>7. CASE B!Done
  BY <1>7 DEF B!Done, BInv, B!TypeOK
<1>8. ASSUME NEW i \in B!Ids, B!Delete(i) PROVE BInv'
  <2>1. listPosts' \in Seq(B!Post) /\ Len(listPosts') <= MaxPosts
    BY <1>5, <1>8 DEF B!Delete, B!Methods
  <2>. QED BY <1>8, <2>1 DEF B!Delete, B!dialog, BInv, B!TypeOK
<1>9. ASSUME NEW i \in B!Ids, B!Edit(i) PROVE BInv'
  BY <1>9 DEF B!Edit, BInv, B!TypeOK
<1>10. ASSUME NEW n \in 1..MaxPosts, B!PostList(n) PROVE BInv'
  <2>1. listPosts' \in Seq(B!Post) /\ Len(listPosts') <= MaxPosts
    <3>0. listPosts[n] \in B!Post
      BY <1>10 DEF B!PostList, BInv, B!TypeOK
    <3>1. [listPosts[n] EXCEPT !.stage = "ok"] \in B!Post
      BY <3>0 DEF B!Post
    <3>. QED BY <1>10, <3>1 DEF B!PostList, BInv, B!TypeOK
  <2>2. PICK k \in 0..Count + MaxPosts : items = FirstIds(k)
    BY DEF BInv
  <2>3. B!Length(items) = k
    BY <2>2, LengthOfFirst
  <2>4. \E j \in 0..Count + MaxPosts : items' = FirstIds(j)
    <3>1. CASE items' = items
      BY <2>2, <3>1
    <3>2. CASE k < Count + MaxPosts /\ items' = [items EXCEPT ![k + 1] = @ + 1]
      <4>1. items' = FirstIds(k + 1)
        BY <2>2, <3>2 DEF FirstIds, B!Ids
      <4>. QED BY <3>2, <4>1
    <3>. QED BY <1>10, <2>3, <3>1, <3>2 DEF B!PostList, B!Removed
  <2>5. items' \in [B!Ids -> 0..MaxPosts + 1]
    BY <2>4 DEF FirstIds
  <2>. QED BY <1>10, <2>1, <2>4, <2>5 DEF B!PostList, B!dialog, BInv, B!TypeOK
<1>11. ASSUME NEW n \in 1..MaxPosts, n \in DOMAIN listPosts, listPosts' = B!Without(listPosts, n)
       PROVE  listPosts' \in Seq(B!Post) /\ Len(listPosts') <= MaxPosts
  <2>1. Len(listPosts) \in Nat /\ Len(listPosts) <= MaxPosts
    BY DEF BInv, B!TypeOK
  <2>. QED BY <1>11, <2>1, WithoutIs DEF BInv, B!TypeOK
<1>12. ASSUME NEW n \in 1..MaxPosts, B!Posted(n) PROVE BInv'
  <2>1. listPosts' \in Seq(B!Post) /\ Len(listPosts') <= MaxPosts
    BY <1>11, <1>12 DEF B!Posted
  <2>. QED BY <1>12, <2>1 DEF B!Posted, B!Ask, B!dialog, BInv, B!TypeOK
<1>13. ASSUME NEW n \in 1..MaxPosts, B!PostFails(n) PROVE BInv'
  <2>1. listPosts' \in Seq(B!Post) /\ Len(listPosts') <= MaxPosts
    BY <1>11, <1>13 DEF B!PostFails
  <2>. QED BY <1>13, <2>1 DEF B!PostFails, B!dialog, BInv, B!TypeOK
<1>. QED BY <1>1, <1>2, <1>3, <1>4, <1>6, <1>7, <1>8, <1>9, <1>10, <1>12, <1>13 DEF B!Next

LEMMA TasksTold == BInv => B!IdsUnique /\ B!AddBeginsEmpty
BY TaskNumbers DEF BInv, B!IdsUnique, B!AddBeginsEmpty, FirstIds, B!Ids

-----------------------------------------------------------------------------
(* Chatbot *)

\* The first of the list is on it, and so is the one that is active.
CInv == C!TypeOK /\ C!ActiveIsListed /\ newest \in conversations

LEMMA CInitInv == C!Init => CInv
<1>1. C!Init => counter \in 0..MaxChats
  BY ConsoleAssumption DEF C!Init
<1>. QED BY <1>1, ConsoleAssumption DEF C!Init, CInv, C!TypeOK, C!ActiveIsListed, C!All

LEMMA CStepInv == CInv /\ [C!Next]_(C!vars) => CInv'
<1>. SUFFICES ASSUME CInv, [C!Next]_(C!vars) PROVE CInv'
  OBVIOUS
<1>. USE DEF CInv, C!TypeOK, C!ActiveIsListed
<1>1. ASSUME counter < MaxChats, counter' = counter + 1
      PROVE  counter' \in 0..MaxChats /\ counter' \in C!All
  <2>1. MaxChats \in Nat
    BY ConsoleAssumption
  <2>. QED BY <1>1, <2>1 DEF C!All, C!New
<1>2. CASE C!NewChat
  BY <1>1, <1>2 DEF C!NewChat
<1>3. CASE C!Send
  BY <1>3 DEF C!Send
<1>4. ASSUME NEW c \in C!All, C!Activate(c) PROVE CInv'
  BY <1>4 DEF C!Activate
<1>5. ASSUME NEW c \in C!All, C!Answered(c) PROVE CInv'
  BY <1>5 DEF C!Answered
<1>6. ASSUME NEW c \in C!All, C!Delete(c) PROVE CInv'
  <2>1. CASE conversations \ {c} = {}
    BY <1>1, <1>6, <2>1 DEF C!Delete
  <2>2. CASE conversations \ {c} # {}
    BY <1>6, <2>2 DEF C!Delete
  <2>. QED BY <2>1, <2>2
<1>7. CASE UNCHANGED C!vars
  BY <1>7 DEF C!vars
<1>. QED BY <1>2, <1>3, <1>4, <1>5, <1>6, <1>7 DEF C!Next

-----------------------------------------------------------------------------
(* Read-only pages *)

LEMMA KeysAre ==
  P!Keys = {"analysis", "notice", "chart", "activities", "basic", "advanced", "cards", "tags"}
BY DEF P!Keys, P!Answer

\* The names of every activity are fields it has, with both servers.
LEMMA ActivitiesFilled ==
  P!Filled(P!MockActivities) = {"events"} /\ P!Filled(P!WorkerActivities) = {"events"}
<1>1. \A x \in P!MockActivities : x.names \subseteq x.has
  BY DEF P!MockActivities, P!Activity
<1>2. \A x \in P!WorkerActivities : x.names \subseteq x.has
  BY DEF P!WorkerActivities, P!Activity
<1>. QED BY <1>1, <1>2 DEF P!Filled

ReadCharts ==
  {"visitData", "visitData2", "salesData", "searchData", "offlineData", "offlineChartData",
   "salesTypeData", "salesTypeDataOnline", "salesTypeDataOffline"}

\* What both servers answer, as far as the panels that wait draw it.
LEMMA AnswersHave ==
  ASSUME NEW s \in {"mock", "worker"}
  PROVE  /\ ReadCharts \subseteq P!Answer[s]["analysis"]
         /\ {"title", "logo", "description", "updatedAt", "member"} \subseteq P!Answer[s]["notice"]
         /\ "events" \in P!Answer[s]["activities"]
         /\ {"basicGoods", "basicProgress"} \subseteq P!Answer[s]["basic"]
         /\ {"advancedOperation1", "advancedOperation2", "advancedOperation3"}
              \subseteq P!Answer[s]["advanced"]
         /\ "list" \in P!Answer[s]["cards"] /\ "list" \in P!Answer[s]["tags"]
<1>1. CASE s = "mock"
  BY <1>1, ActivitiesFilled DEF P!Answer, ReadCharts, P!MockChart, P!MockNotice, P!MockBasic,
       P!MockAdvanced
<1>2. CASE s = "worker"
  BY <1>2, ActivitiesFilled
     DEF P!Answer, ReadCharts, P!WorkerChart, P!WorkerNotice, P!WorkerBasic, P!WorkerAdvanced
<1>. QED BY <1>1, <1>2

\* Neither server answers nothing.
LEMMA AnswersAreThere ==
  ASSUME NEW s \in {"mock", "worker"}, NEW k \in P!Keys
  PROVE  P!Answer[s][k] # {}
<1>1. P!Answer[s]["chart"] # {}
  <2>1. "radarData" \in P!MockWorkplace /\ "radarData" \in P!WorkerChart
    BY DEF P!MockWorkplace, P!MockRadar, P!WorkerChart
  <2>. QED BY <2>1 DEF P!Answer
<1>2. k \in {"analysis", "notice", "chart", "activities", "basic", "advanced", "cards", "tags"}
  BY KeysAre
<1>. QED BY <1>1, <1>2, AnswersHave DEF ReadCharts

\* A panel has a query, and draws what either server answers to it.
LEMMA PanelsDraw ==
  ASSUME P!TypeOK, NEW p \in P!Panels[readPage], p # P!RadarCard
  PROVE  p.key \in P!Keys /\ p.waits /\ p.draws \subseteq P!Answer[server][p.key]
<1>0. readPage \in P!Pages /\ operationKey \in {"tab1", "tab2", "tab3"} /\ server \in {"mock", "worker"}
  BY DEF P!TypeOK, P!Operation
<1>1. CASE readPage = "analysis"
  <2>1. p \in P!AnalysisPage
    BY <1>1 DEF P!Panels
  <2>. QED BY <1>0, <2>1, KeysAre, AnswersHave
       DEF P!AnalysisPage, P!IntroduceRow, P!SalesCard, P!TopSearch, P!ProportionSales, P!OfflineData,
           P!Waits, ReadCharts
<1>2. CASE readPage = "workplace"
  <2>1. p \in P!WorkplacePage
    BY <1>2 DEF P!Panels
  <2>. QED BY <1>0, <2>1, KeysAre, AnswersHave
       DEF P!WorkplacePage, P!ProjectList, P!Team, P!Activities, P!Waits
<1>3. CASE readPage = "basic"
  <2>1. p \in P!BasicPage
    BY <1>3 DEF P!Panels
  <2>. QED BY <1>0, <2>1, KeysAre, AnswersHave DEF P!BasicPage, P!Goods, P!Progress, P!Waits
<1>4. CASE readPage = "advanced"
  <2>1. p = P!Operations
    BY <1>4 DEF P!Panels, P!AdvancedPage
  <2>2. P!Operation[operationKey] \in
          {"advancedOperation1", "advancedOperation2", "advancedOperation3"}
    BY <1>0 DEF P!Operation
  <2>. QED BY <1>0, <2>1, <2>2, KeysAre, AnswersHave DEF P!Operations, P!Waits
<1>5. CASE readPage = "cards"
  <2>1. p = P!Cards
    BY <1>5 DEF P!Panels, P!CardsPage
  <2>. QED BY <1>0, <2>1, KeysAre, AnswersHave DEF P!Cards, P!Waits
<1>6. CASE readPage = "monitor"
  <2>1. p = P!HotSearch
    BY <1>6 DEF P!Panels, P!MonitorPage
  <2>. QED BY <1>0, <2>1, KeysAre, AnswersHave DEF P!HotSearch, P!Waits
<1>. QED BY <1>0, <1>1, <1>2, <1>3, <1>4, <1>5, <1>6 DEF P!Pages

\* What the open page observes is there, has been asked for, or has failed.
PInv ==
  /\ P!TypeOK
  /\ \A k \in P!Keys : k \in P!Observed => readCache[k] # {} \/ readFetch[k] # "idle"
          \/ k \in readFailed
  /\ cardTab = operationKey
  /\ DOMAIN readCache = P!Keys

\* The queries of each page, whichever tab is active.
PageQueries ==
  [analysis |-> {"analysis"}, workplace |-> {"notice", "activities", "chart"},
   basic |-> {"basic"}, advanced |-> {"advanced"}, cards |-> {"cards"}, monitor |-> {"tags"}]

LEMMA QueriesOfPage == readPage \in P!Pages =>
        {p.key : p \in P!Panels[readPage]} = PageQueries[readPage]
<1>1. ASSUME readPage = "analysis" PROVE {p.key : p \in P!Panels[readPage]} = PageQueries[readPage]
  <2>1. P!Panels[readPage] = {P!IntroduceRow, P!SalesCard, P!TopSearch, P!ProportionSales, P!OfflineData}
    BY <1>1 DEF P!Panels, P!AnalysisPage
  <2>2. \A p \in P!Panels[readPage] : p.key = "analysis"
    BY <2>1 DEF P!IntroduceRow, P!SalesCard, P!TopSearch, P!ProportionSales, P!OfflineData,
         P!Waits
  <2>. QED BY <1>1, <2>1, <2>2 DEF PageQueries
<1>2. ASSUME readPage = "workplace" PROVE {p.key : p \in P!Panels[readPage]} = PageQueries[readPage]
  <2>1. P!Panels[readPage] = {P!ProjectList, P!Team, P!Activities, P!RadarCard}
    BY <1>2 DEF P!Panels, P!WorkplacePage
  <2>2. /\ P!ProjectList.key = "notice" /\ P!Team.key = "notice"
        /\ P!Activities.key = "activities" /\ P!RadarCard.key = "chart"
    BY DEF P!ProjectList, P!Team, P!Activities, P!RadarCard, P!Waits, P!AtOnce
  <2>3. PageQueries[readPage] = {"notice", "activities", "chart"}
    BY <1>2 DEF PageQueries
  <2>. QED BY <2>1, <2>2, <2>3
<1>3. ASSUME readPage = "basic" PROVE {p.key : p \in P!Panels[readPage]} = PageQueries[readPage]
  <2>1. P!Panels[readPage] = {P!Goods, P!Progress}
    BY <1>3 DEF P!Panels, P!BasicPage
  <2>2. P!Goods.key = "basic" /\ P!Progress.key = "basic"
    BY DEF P!Goods, P!Progress, P!Waits
  <2>. QED BY <1>3, <2>1, <2>2 DEF PageQueries
<1>4. ASSUME readPage = "advanced" PROVE {p.key : p \in P!Panels[readPage]} = PageQueries[readPage]
  <2>1. P!Panels[readPage] = {P!Operations}
    BY <1>4 DEF P!Panels, P!AdvancedPage
  <2>2. P!Operations.key = "advanced"
    BY DEF P!Operations, P!Waits
  <2>. QED BY <1>4, <2>1, <2>2 DEF PageQueries
<1>5. ASSUME readPage = "cards" PROVE {p.key : p \in P!Panels[readPage]} = PageQueries[readPage]
  <2>1. P!Panels[readPage] = {P!Cards}
    BY <1>5 DEF P!Panels, P!CardsPage
  <2>2. P!Cards.key = "cards"
    BY DEF P!Cards, P!Waits
  <2>. QED BY <1>5, <2>1, <2>2 DEF PageQueries
<1>6. ASSUME readPage = "monitor" PROVE {p.key : p \in P!Panels[readPage]} = PageQueries[readPage]
  <2>1. P!Panels[readPage] = {P!HotSearch}
    BY <1>6 DEF P!Panels, P!MonitorPage
  <2>2. P!HotSearch.key = "tags"
    BY DEF P!HotSearch, P!Waits
  <2>. QED BY <1>6, <2>1, <2>2 DEF PageQueries
<1>. QED BY <1>1, <1>2, <1>3, <1>4, <1>5, <1>6 DEF P!Pages

LEMMA PInitInv == P!Init => PInv
BY DEF P!Init, PInv, P!TypeOK, P!Observed, P!Operation

LEMMA StartStep ==
  ASSUME P!TypeOK, NEW ks \in SUBSET P!Keys, P!Start(ks), UNCHANGED <<readOnline, readCache>>
  PROVE  /\ readFetch' \in [P!Keys -> {"idle", "fetching", "paused"}] /\ readFailed' \subseteq P!Keys
         /\ \A k \in ks : readFetch'[k] # "idle"
         /\ \A k \in P!Keys \ ks : readFetch'[k] = readFetch[k]
                 /\ (k \in readFailed => k \in readFailed')
BY DEF P!Start, P!TypeOK

LEMMA PStepInv == PInv /\ [P!Next]_(P!vars) => PInv'
<1>. SUFFICES ASSUME PInv, [P!Next]_(P!vars) PROVE PInv'
  OBVIOUS
<1>0. readPage' = readPage /\ server' = server /\ readPage \in P!Pages /\ P!TypeOK
  BY DEF P!Next, P!GoOffline, P!GoOnline, P!Focus, P!Open, P!Leave, P!Answered, P!Fails,
       P!Pauses, P!Collected,
         P!OnTabChange, P!OnOperationTabChange, P!vars, PInv, P!TypeOK
<1>1. P!Observed = IF readShown THEN PageQueries[readPage] ELSE {}
  BY <1>0, QueriesOfPage DEF P!Observed
<1>2. P!Observed' = IF readShown' THEN PageQueries[readPage] ELSE {}
  <2>1. (readPage \in P!Pages => {p.key : p \in P!Panels[readPage]} = PageQueries[readPage])'
    BY QueriesOfPage, PTL
  <2>2. PageQueries' = PageQueries
    BY DEF PageQueries
  <2>. QED BY <1>0, <2>1, <2>2 DEF P!Observed
<1>3. PageQueries[readPage] \in SUBSET P!Keys
  BY <1>0, KeysAre DEF PageQueries, P!Pages
<1>4. {p.key : p \in P!Panels[readPage]} = PageQueries[readPage]
  BY <1>0, QueriesOfPage
<1>. HIDE DEF P!Observed
<1>5. CASE UNCHANGED P!vars
  BY <1>5, <1>0, <1>1, <1>2 DEF P!vars, P!uiVars, PInv, P!TypeOK
<1>6. CASE P!GoOffline
  BY <1>6, <1>1, <1>2 DEF P!GoOffline, P!uiVars, PInv, P!TypeOK
<1>7. CASE P!GoOnline
  <2>1. P!Observed' = P!Observed
    BY <1>1, <1>2, <1>7 DEF P!GoOnline
  <2>2. P!TypeOK'
    BY <1>7, <1>0 DEF P!GoOnline, P!uiVars, P!TypeOK
  <2>3. \A k \in P!Keys : k \in P!Observed => readFetch'[k] # "idle"
    BY <1>7 DEF P!GoOnline
  <2>. QED BY <1>7, <2>1, <2>2, <2>3 DEF P!GoOnline, P!uiVars, PInv
<1>8. CASE P!Focus
  <2>0. P!Observed \in SUBSET P!Keys /\ P!Observed' = P!Observed
    BY <1>1, <1>2, <1>3, <1>8 DEF P!Focus
  <2>1. P!TypeOK'
    BY <1>8, <1>0, <2>0, StartStep DEF P!Focus, P!uiVars, P!TypeOK
  <2>2. \A k \in P!Observed : readFetch'[k] # "idle"
    BY <1>8, <1>0, <2>0, StartStep DEF P!Focus
  <2>. QED BY <1>8, <2>0, <2>1, <2>2 DEF P!Focus, P!uiVars, PInv
<1>9. CASE P!Open
  <2>0. P!Start(PageQueries[readPage]) /\ P!Observed' = PageQueries[readPage]
    BY <1>2, <1>4, <1>9 DEF P!Open
  <2>1. P!TypeOK'
    BY <1>9, <1>0, <1>3, <2>0, StartStep DEF P!Open, P!TypeOK, P!Operation
  <2>2. \A k \in PageQueries[readPage] : readFetch'[k] # "idle"
    BY <1>9, <1>0, <1>3, <2>0, StartStep DEF P!Open
  <2>. QED BY <1>9, <2>0, <2>1, <2>2 DEF P!Open, PInv
<1>10. CASE P!Leave
  BY <1>10, <1>1, <1>2 DEF P!Leave, P!uiVars, PInv, P!TypeOK
<1>11. ASSUME NEW k \in P!Keys, P!Answered(k) PROVE PInv'
  <2>1. P!Observed' = P!Observed
    BY <1>1, <1>2, <1>11 DEF P!Answered
  <2>2. P!TypeOK'
    BY <1>11, <1>0 DEF P!Answered, P!uiVars, P!TypeOK
  <2>3. \A j \in P!Keys : j # k => readCache'[j] = readCache[j] /\ readFetch'[j] = readFetch[j]
                                   /\ (j \in readFailed => j \in readFailed')
    BY <1>11, <1>0 DEF P!Answered, P!TypeOK
  <2>4. readCache'[k] # {}
    <3>1. readCache'[k] = P!Answer[server][k]
      BY <1>11 DEF P!Answered, PInv
    <3>. QED BY <1>0, <3>1, AnswersAreThere DEF P!TypeOK
  <2>. QED BY <1>11, <2>1, <2>2, <2>3, <2>4 DEF P!Answered, P!uiVars, PInv
<1>12. ASSUME NEW k \in P!Keys, P!Fails(k) PROVE PInv'
  <2>1. P!Observed' = P!Observed
    BY <1>1, <1>2, <1>12 DEF P!Fails
  <2>2. P!TypeOK'
    BY <1>12, <1>0 DEF P!Fails, P!uiVars, P!TypeOK
  <2>. QED BY <1>12, <1>0, <2>1, <2>2 DEF P!Fails, P!uiVars, PInv, P!TypeOK
<1>13. ASSUME NEW k \in P!Keys, P!Pauses(k) PROVE PInv'
  <2>1. P!Observed' = P!Observed
    BY <1>1, <1>2, <1>13 DEF P!Pauses
  <2>2. P!TypeOK'
    BY <1>13, <1>0 DEF P!Pauses, P!uiVars, P!TypeOK
  <2>. QED BY <1>13, <1>0, <2>1, <2>2 DEF P!Pauses, P!uiVars, PInv, P!TypeOK
<1>14. ASSUME NEW k \in P!Keys, P!Collected(k) PROVE PInv'
  <2>1. P!Observed' = P!Observed
    BY <1>1, <1>2, <1>14 DEF P!Collected
  <2>2. P!TypeOK'
    BY <1>14, <1>0 DEF P!Collected, P!uiVars, P!TypeOK
  <2>3. \A j \in P!Keys : j # k => readCache'[j] = readCache[j] /\ readFetch'[j] = readFetch[j]
                                   /\ (j \in readFailed => j \in readFailed')
    BY <1>14, <1>0 DEF P!Collected, P!TypeOK
  <2>. QED BY <1>14, <2>1, <2>2, <2>3 DEF P!Collected, P!uiVars, PInv
<1>15. ASSUME NEW t \in {"detail", "rule"}, P!OnTabChange(t) PROVE PInv'
  BY <1>15, <1>1, <1>2 DEF P!OnTabChange, PInv, P!TypeOK
<1>16. ASSUME NEW t \in DOMAIN P!Operation, P!OnOperationTabChange(t) PROVE PInv'
  BY <1>16, <1>1, <1>2 DEF P!OnOperationTabChange, PInv, P!TypeOK
<1>. QED BY <1>5, <1>6, <1>7, <1>8, <1>9, <1>10, <1>11, <1>12, <1>13, <1>14, <1>15, <1>16
     DEF P!Next

\* A panel that waits draws nothing while its query loads for the first time,
\* and what its query has is all that it draws.
LEMMA PanelsDrawn == PInv => P!DrawnWithData
<1>. SUFFICES ASSUME PInv, readShown, NEW p \in P!Panels[readPage], P!Missing(p) # {}, p # P!RadarCard
              PROVE  p.key \in readFailed \/ readFetch[p.key] = "paused"
  BY DEF P!DrawnWithData
<1>1. p.key \in P!Keys /\ p.waits /\ p.draws \subseteq P!Answer[server][p.key]
  BY PanelsDraw DEF PInv
<1>2. p.key \in P!Observed
  BY DEF P!Observed
<1>3. readCache[p.key] \in {{}, P!Answer[server][p.key]}
  BY <1>1 DEF PInv, P!TypeOK
<1>4. readFetch[p.key] \in {"idle", "fetching", "paused"}
  BY <1>1 DEF PInv, P!TypeOK
<1>5. ~P!Loading(p.key) /\ ~(p.draws \subseteq readCache[p.key])
  BY <1>1 DEF P!Missing
<1>6. readCache[p.key] = {}
  BY <1>1, <1>3, <1>5
<1>. QED BY <1>1, <1>2, <1>4, <1>5, <1>6 DEF PInv, P!Loading

-----------------------------------------------------------------------------
(* Sales period *)

LEMMA CalendarIs ==
  /\ Len(Lengths) \in Nat /\ Len(Lengths) >= 1
  /\ \A m \in 1..Len(Lengths) : Lengths[m] \in Nat /\ Lengths[m] >= 1
  /\ Lengths[Len(Lengths)] >= Week
  /\ Week \in Nat /\ Week >= 1 /\ Months \in Nat /\ Months >= 1
  /\ Hours \in Nat /\ Hours >= 2 /\ Clocks \subseteq Nat /\ None \notin Nat
<1>1. Lengths \in Seq(Nat \ {0})
  BY ConsoleAssumption
<1>2. Len(Lengths) \in Nat /\ \A m \in 1..Len(Lengths) : Lengths[m] \in Nat \ {0}
  BY <1>1
<1>3. Len(Lengths) >= 1
  <2>1. PICK years \in 1..Len(Lengths) : Len(Lengths) = years * Months
    BY ConsoleAssumption
  <2>. QED BY <1>2, <2>1
<1>4. Week \in Nat \ {0} /\ Months \in Nat \ {0} /\ Lengths[Len(Lengths)] >= Week
  BY ConsoleAssumption
<1>5. Hours \in Nat /\ Hours >= 2 /\ Clocks \subseteq Nat
  BY ConsoleAssumption
<1>6. None \notin Nat
  BY ConsoleAssumption
<1>. QED BY <1>2, <1>3, <1>4, <1>5, <1>6

\* A month begins when the one before it has ended.
LEMMA FirstIs ==
  /\ E!First[1] = 1
  /\ \A m \in 1..Len(Lengths) : E!First[m + 1] = E!First[m] + Lengths[m]
  /\ \A m \in 1..(Len(Lengths) + 1) : E!First[m] \in Nat
<1> DEFINE L == Len(Lengths)
           Begins(f) == f = [m \in 1..(L + 1) |-> IF m = 1 THEN 1 ELSE f[m - 1] + Lengths[m - 1]]
           h == [x \in (1..L) \X Nat |-> x[2] + Lengths[x[1]]]
<1>0. L \in Nat /\ \A m \in 1..L : Lengths[m] \in Nat
  BY CalendarIs
<1> HIDE DEF L
<1>1. \E f : Begins(f)
  <2>1. h \in [(1..L) \X Nat -> Nat]
    BY <1>0
  <2>2. PICK f \in [0..L -> Nat] : f[0] = 1 /\ \A i \in 1..L : f[i] = h[<<i, f[i - 1]>>]
    <3>1. 1 \in Nat
      OBVIOUS
    <3> HIDE DEF h
    <3>2. StepByStep(L, Nat, 1, h)
      BY <1>0, <2>1, <3>1, Recursion
    <3>. QED BY <3>2 DEF StepByStep
  <2> DEFINE g == [m \in 1..(L + 1) |-> f[m - 1]]
  <2>3. ASSUME NEW m \in 1..(L + 1)
        PROVE  g[m] = IF m = 1 THEN 1 ELSE g[m - 1] + Lengths[m - 1]
    <3>1. CASE m = 1
      BY <1>0, <2>2, <3>1
    <3>2. CASE m # 1
      <4>1. m - 1 \in 1..L /\ m - 1 \in 1..(L + 1) /\ m - 2 \in 0..L /\ (m - 1) - 1 = m - 2
        BY <1>0, <3>2
      <4>2. <<m - 1, f[m - 2]>> \in (1..L) \X Nat
        BY <4>1
      <4>3. f[m - 1] = h[<<m - 1, f[m - 2]>>]
        BY <1>0, <2>2, <4>1
      <4>4. g[m] = f[m - 2] + Lengths[m - 1]
        BY <4>2, <4>3
      <4>5. g[m - 1] = f[m - 2]
        BY <1>0, <4>1
      <4>. QED BY <3>2, <4>4, <4>5
    <3>. QED BY <3>1, <3>2
  <2>4. Begins(g)
    <3>1. \A m \in 1..(L + 1) : g[m] = [n \in 1..(L + 1) |-> IF n = 1 THEN 1 ELSE g[n - 1] + Lengths[n - 1]][m]
      BY <2>3
    <3> DEFINE k == [n \in 1..(L + 1) |-> IF n = 1 THEN 1 ELSE g[n - 1] + Lengths[n - 1]]
    <3>2. DOMAIN g = 1..(L + 1) /\ DOMAIN k = 1..(L + 1) /\ g = [m \in DOMAIN g |-> g[m]]
          /\ k = [m \in DOMAIN k |-> k[m]]
      OBVIOUS
    <3>. QED BY <3>1, <3>2
  <2> HIDE DEF g
  <2>. QED BY <2>4
<1>2. Begins(E!First)
  BY <1>1 DEF E!First, L
<1>3. E!First[1] = 1
  BY <1>0, <1>2
<1>4. \A m \in 1..L : E!First[m + 1] = E!First[m] + Lengths[m]
  <2>. TAKE m \in 1..L
  <2>1. m + 1 \in 1..(L + 1) /\ m + 1 # 1 /\ (m + 1) - 1 = m
    BY <1>0
  <2>2. E!First[m + 1] = E!First[(m + 1) - 1] + Lengths[(m + 1) - 1]
    BY <1>2, <2>1
  <2>. QED BY <2>1, <2>2
<1>5. \A i \in 0..L : i \in {j \in 0..L : E!First[j + 1] \in Nat}
  <2>1. 0 \in {j \in 0..L : E!First[j + 1] \in Nat}
    BY <1>0, <1>3
  <2>2. ASSUME NEW i \in 1..L, i - 1 \in {j \in 0..L : E!First[j + 1] \in Nat}
        PROVE  i \in {j \in 0..L : E!First[j + 1] \in Nat}
    <3>1. i - 1 + 1 = i /\ i \in 0..L
      BY <1>0
    <3>2. E!First[i] \in Nat
      BY <2>2, <3>1
    <3>. QED BY <1>0, <1>4, <3>1, <3>2
  <2>. QED BY <1>0, <2>1, <2>2, UpTo
<1>6. \A m \in 1..(L + 1) : E!First[m] \in Nat
  <2>1. \A m \in 1..(L + 1) : m - 1 \in 0..L /\ m - 1 + 1 = m
    BY <1>0
  <2>. QED BY <1>5, <2>1
<1>. QED BY <1>3, <1>4, <1>6 DEF L

LEMMA FirstGrows ==
  ASSUME NEW k \in 1..(Len(Lengths) + 1), NEW m \in 1..(Len(Lengths) + 1), k <= m
  PROVE  E!First[k] + (m - k) <= E!First[m]
<1> DEFINE L == Len(Lengths)
           Q == {i \in 0..(m - k) : E!First[k] + i <= E!First[k + i]}
<1>0. /\ L \in Nat /\ \A i \in 1..L : Lengths[i] \in Nat /\ Lengths[i] >= 1
      /\ \A i \in 1..L : E!First[i + 1] = E!First[i] + Lengths[i]
      /\ \A i \in 1..(L + 1) : E!First[i] \in Nat
  BY CalendarIs, FirstIs
<1>1. k \in 1..(L + 1) /\ m \in 1..(L + 1)
  OBVIOUS
<1> HIDE DEF L
<1>2. 0 \in Q
  BY <1>0, <1>1
<1>3. ASSUME NEW i \in 1..(m - k), i - 1 \in Q PROVE i \in Q
  <2>1. /\ k + (i - 1) \in 1..L /\ i \in 0..(m - k) /\ k + (i - 1) + 1 = k + i
        /\ k + i \in 1..(L + 1) /\ k + (i - 1) \in 1..(L + 1)
    BY <1>0, <1>1
  <2>2. E!First[k + i] = E!First[k + (i - 1)] + Lengths[k + (i - 1)]
    BY <1>0, <2>1
  <2>3. E!First[k] + (i - 1) <= E!First[k + (i - 1)]
    BY <1>3
  <2>. QED BY <1>0, <1>1, <2>1, <2>2, <2>3
<1>4. m - k \in Q
  <2>1. m - k \in Nat /\ m - k \in 0..(m - k)
    BY <1>0, <1>1
  <2> HIDE DEF Q
  <2>. QED BY <1>2, <1>3, <2>1, UpTo
<1>. QED BY <1>0, <1>1, <1>4

\* A day is of one month.
LEMMA MonthIs ==
  ASSUME NEW d \in Int, NEW m \in 1..Len(Lengths), E!First[m] <= d, d < E!First[m + 1]
  PROVE  E!MonthOf(d) = m
<1> DEFINE L == Len(Lengths)
<1>0. /\ L \in Nat /\ \A i \in 1..(L + 1) : E!First[i] \in Nat
      /\ \A i, j \in 1..(L + 1) : i <= j => E!First[i] + (j - i) <= E!First[j]
  BY CalendarIs, FirstIs, FirstGrows
<1>1. m \in 1..L
  OBVIOUS
<1>2. E!MonthOf(d) = CHOOSE n \in 1..L : E!First[n] <= d /\ d < E!First[n + 1]
  BY DEF E!MonthOf
<1> HIDE DEF L
<1>3. ASSUME NEW n \in 1..L, E!First[n] <= d, d < E!First[n + 1] PROVE n = m
  <2>1. n \in 1..(L + 1) /\ n + 1 \in 1..(L + 1) /\ m \in 1..(L + 1) /\ m + 1 \in 1..(L + 1)
    BY <1>0, <1>1
  <2>2. CASE n < m
    <3>1. E!First[n + 1] <= E!First[m]
      BY <1>0, <2>1, <2>2
    <3>. QED BY <1>0, <1>3, <2>1, <3>1
  <2>3. CASE m < n
    <3>1. E!First[m + 1] <= E!First[n]
      BY <1>0, <2>1, <2>3
    <3>. QED BY <1>0, <1>3, <2>1, <3>1
  <2>. QED BY <1>0, <1>1, <2>2, <2>3
<1>. QED BY <1>1, <1>2, <1>3

\* A day that the page can be open on is of a month, and not of the last.
LEMMA MonthOfDay ==
  ASSUME NEW d \in E!Days
  PROVE  /\ E!MonthOf(d) \in 1..(Len(Lengths) - 1)
         /\ E!First[E!MonthOf(d)] <= d /\ d < E!First[E!MonthOf(d) + 1]
<1> DEFINE L == Len(Lengths)
           Q == {m \in 1..L : d < E!First[m]}
<1>0. /\ L \in Nat /\ L >= 1 /\ \A i \in 1..(L + 1) : E!First[i] \in Nat
      /\ E!First[1] = 1 /\ Week \in Nat
  BY CalendarIs, FirstIs
<1>1. d \in (Week + 1)..(E!First[L] - 1)
  BY DEF E!Days
<1> HIDE DEF L
<1>2. L \in Q /\ d \in Nat /\ d >= 1
  BY <1>0, <1>1
<1>3. PICK m \in Q : \A n \in Q : m <= n
  <2>1. Q \in SUBSET Nat
    OBVIOUS
  <2> HIDE DEF Q
  <2>. QED BY <1>2, <2>1, LeastNumber
<1>4. m # 1 /\ m - 1 \in 1..L /\ m - 1 \in 1..(L - 1) /\ m - 1 + 1 = m /\ ~(m <= m - 1)
  BY <1>0, <1>2, <1>3
<1>5. ~(d < E!First[m - 1])
  BY <1>3, <1>4
<1>6. E!First[m - 1] <= d /\ d < E!First[m - 1 + 1]
  BY <1>0, <1>2, <1>3, <1>4, <1>5
<1>7. E!MonthOf(d) = m - 1
  BY <1>2, <1>4, <1>6, MonthIs DEF L
<1>. QED BY <1>4, <1>6, <1>7 DEF L

\* How much earlier, and how much later, than days of the fixed length would
\* make it, a day begins for the change of a day from k to m.
Shorter(k, m) == IF short \in k..(m - 1) THEN 1 ELSE 0
Longer(k, m) == IF long \in k..(m - 1) THEN 1 ELSE 0

OneChange == short \in Nat \cup {None} /\ long \in Nat \cup {None} /\ (short # long \/ short = None)

LEMMA MidnightIs ==
  ASSUME OneChange, NEW k \in Nat \ {0}, NEW m \in Nat \ {0}, k <= m
  PROVE  /\ E!Midnight(k) \in Int /\ E!Midnight(m) \in Int
         /\ E!Midnight(m) = E!Midnight(k) + (m - k) * Hours - Shorter(k, m) + Longer(k, m)
<1>0. Hours \in Nat /\ None \notin Nat
  BY CalendarIs
<1>1. (m - 1) * Hours = (k - 1) * Hours + (m - k) * Hours
      /\ (m - 1) * Hours \in Int /\ (k - 1) * Hours \in Int /\ (m - k) * Hours \in Int
  BY <1>0
<1> DEFINE Before(x, n) == IF x \in 1..(n - 1) THEN 1 ELSE 0
           Between(x) == IF x \in k..(m - 1) THEN 1 ELSE 0
<1>2. ASSUME NEW x \in Nat \cup {None}
      PROVE  /\ Before(x, m) = Before(x, k) + Between(x)
             /\ Before(x, k) \in Int /\ Before(x, m) \in Int /\ Between(x) \in Int
  <2>1. CASE x = None
    <3>1. x \notin 1..(m - 1) /\ x \notin 1..(k - 1) /\ x \notin k..(m - 1)
      BY <1>0, <2>1
    <3>. QED BY <3>1
  <2>2. CASE x # None
    BY <2>2
  <2>. QED BY <2>1, <2>2
<1>3. /\ E!Midnight(m) = (m - 1) * Hours - Before(short, m) + Before(long, m)
      /\ E!Midnight(k) = (k - 1) * Hours - Before(short, k) + Before(long, k)
      /\ Shorter(k, m) = Between(short) /\ Longer(k, m) = Between(long)
  BY DEF E!Midnight, Shorter, Longer
<1> DEFINE x == (m - 1) * Hours
           y == (k - 1) * Hours
           z == (m - k) * Hours
<1>4. /\ Before(short, m) = Before(short, k) + Between(short)
      /\ Before(long, m) = Before(long, k) + Between(long)
      /\ {Before(short, k), Before(short, m), Between(short),
          Before(long, k), Before(long, m), Between(long)} \subseteq Int
  BY <1>2 DEF OneChange
<1> HIDE DEF Before, Between
<1>5. x \in Int /\ y \in Int /\ z \in Int /\ x = y + z
  BY <1>1
<1>6. /\ E!Midnight(m) = x - Before(short, m) + Before(long, m)
      /\ E!Midnight(k) = y - Before(short, k) + Before(long, k)
  BY <1>3
<1> HIDE DEF x, y, z
<1>7. /\ E!Midnight(k) \in Int /\ E!Midnight(m) \in Int
      /\ E!Midnight(m) = E!Midnight(k) + z - Shorter(k, m) + Longer(k, m)
  BY <1>3, <1>4, <1>5, <1>6
<1>. QED BY <1>7 DEF z

\* A day begins when the one before it has ended.
LEMMA NextMidnight ==
  ASSUME OneChange, NEW d \in Nat \ {0}
  PROVE  /\ E!HoursOf(d) \in (Hours - 1)..(Hours + 1) /\ (d # short => E!HoursOf(d) >= Hours)
         /\ E!HoursOf(d) = Hours - Shorter(d, d + 1) + Longer(d, d + 1)
         /\ E!Midnight(d + 1) = E!Midnight(d) + E!HoursOf(d)
         /\ E!Midnight(d) \in Int /\ E!Midnight(d + 1) \in Int
<1>0. Hours \in Nat /\ None \notin Nat
  BY CalendarIs
<1>1. E!Midnight(d) \in Int /\ E!Midnight(d + 1) \in Int
      /\ E!Midnight(d + 1) = E!Midnight(d) + ((d + 1) - d) * Hours - Shorter(d, d + 1) + Longer(d, d + 1)
  <2>1. d + 1 \in Nat \ {0} /\ d <= d + 1
    OBVIOUS
  <2>. QED BY <2>1, MidnightIs
<1>2. ((d + 1) - d) * Hours = Hours /\ d..((d + 1) - 1) = {d}
  BY <1>0
<1>3. /\ Shorter(d, d + 1) = IF short = d THEN 1 ELSE 0
      /\ Longer(d, d + 1) = IF long = d THEN 1 ELSE 0
  BY <1>2 DEF Shorter, Longer
<1>4. E!HoursOf(d) = Hours - Shorter(d, d + 1) + Longer(d, d + 1)
  <2>1. ~(short = d /\ long = d)
    BY <1>0 DEF OneChange
  <2>. QED BY <1>0, <1>3, <2>1 DEF E!HoursOf
<1>5. E!HoursOf(d) \in (Hours - 1)..(Hours + 1) /\ (d # short => E!HoursOf(d) >= Hours)
  BY <1>0, <1>3, <1>4
<1>. QED BY <1>0, <1>1, <1>2, <1>3, <1>4, <1>5

LEMMA MidnightGrows ==
  ASSUME OneChange, NEW k \in Nat \ {0}, NEW m \in Nat \ {0}, k <= m
  PROVE  E!Midnight(k) <= E!Midnight(m)
<1> DEFINE Q == {i \in 0..(m - k) : E!Midnight(k) <= E!Midnight(k + i)}
<1>0. Hours \in Nat /\ Hours >= 2
  BY CalendarIs
<1>1. 0 \in Q
  <2>1. E!Midnight(k) \in Int /\ k + 0 = k /\ 0 \in 0..(m - k)
    BY MidnightIs
  <2>. QED BY <2>1
<1>2. ASSUME NEW i \in 1..(m - k), i - 1 \in Q PROVE i \in Q
  <2>1. k + (i - 1) \in Nat \ {0} /\ (k + (i - 1)) + 1 = k + i /\ i \in 0..(m - k)
    OBVIOUS
  <2>2. /\ E!Midnight(k + i) = E!Midnight(k + (i - 1)) + E!HoursOf(k + (i - 1))
        /\ E!HoursOf(k + (i - 1)) \in (Hours - 1)..(Hours + 1)
        /\ E!Midnight(k + (i - 1)) \in Int /\ E!Midnight(k + i) \in Int
    BY <2>1, NextMidnight
  <2>3. E!Midnight(k) <= E!Midnight(k + (i - 1)) /\ E!Midnight(k) \in Int
    BY <1>2, MidnightIs
  <2>4. E!Midnight(k) <= E!Midnight(k + i)
    BY <1>0, <2>2, <2>3
  <2>. QED BY <2>1, <2>4
<1>3. m - k \in Q
  <2>1. m - k \in Nat /\ m - k \in 0..(m - k)
    OBVIOUS
  <2> HIDE DEF Q
  <2>. QED BY <1>1, <1>2, <2>1, UpTo
<1>4. k + (m - k) = m
  OBVIOUS
<1>. QED BY <1>3, <1>4

\* An hour is of one day.
LEMMA DayIs ==
  ASSUME OneChange, E!Last \in Nat, NEW d \in 1..E!Last, NEW h \in Int,
         E!Midnight(d) <= h, h < E!Midnight(d + 1)
  PROVE  E!DayOf(h) = d
<1>1. ASSUME NEW e \in 1..E!Last PROVE E!Midnight(e + 1) = E!Midnight(e) + E!HoursOf(e)
        /\ e \in Nat \ {0}
        /\ E!Midnight(e) \in Int /\ E!Midnight(e + 1) \in Int
  <2>1. e \in Nat \ {0}
    OBVIOUS
  <2>. QED BY <2>1, NextMidnight
<1>2. ASSUME NEW e \in 1..E!Last, E!Midnight(e) <= h, h < E!Midnight(e + 1) PROVE e = d
  <2>1. CASE e < d
    <3>1. e + 1 \in Nat \ {0} /\ e + 1 <= d
      BY <1>1, <2>1
    <3>2. E!Midnight(e + 1) <= E!Midnight(d)
      BY <1>1, <3>1, MidnightGrows
    <3>. QED BY <1>1, <1>2, <3>2
  <2>2. CASE d < e
    <3>1. d + 1 \in Nat \ {0} /\ d + 1 <= e
      BY <1>1, <2>2
    <3>2. E!Midnight(d + 1) <= E!Midnight(e)
      BY <1>1, <3>1, MidnightGrows
    <3>. QED BY <1>1, <1>2, <3>2
  <2>. QED BY <1>1, <2>1, <2>2
<1>3. E!DayOf(h) = CHOOSE e \in 1..E!Last : E!Midnight(e) <= h /\ h < E!Midnight(e + 1)
  <2>1. \A e \in 1..E!Last : (E!Midnight(e) <= h /\ h < E!Midnight(e) + E!HoursOf(e))
                             <=> (E!Midnight(e) <= h /\ h < E!Midnight(e + 1))
    BY <1>1
  <2>. QED BY <2>1 DEF E!DayOf
<1>. QED BY <1>2, <1>3

\* From a day and the midnight it begins with, the days of the fixed length go
\* back to the first of n days and forward to the last of them, or to one more
\* at one end if one of them is short.
LEMMA SpanIs ==
  ASSUME OneChange, E!Last \in Nat, NEW n \in Nat \ {0}, NEW k \in 0..(n - 1),
         NEW a \in Nat, a >= 2, a + n <= E!Last
  PROVE  LET begin == E!Midnight(a + k) - k * Hours
             r == <<E!DayOf(begin), E!Ends(begin, n)>>
         IN \/ r = <<a, a + n - 1>>
            \/ /\ short \in a..(a + n - 1)
               /\ r = <<a - 1, a + n - 1>> \/ r = <<a, a + n>>
<1> DEFINE d == a + k
           begin == E!Midnight(d) - k * Hours
           end == begin + n * Hours - 1
           z == k * Hours
           w == n * Hours
<1>0. Hours \in Nat /\ Hours >= 2 /\ None \notin Nat
  BY CalendarIs
<1>1. /\ a \in Nat \ {0} /\ d \in Nat \ {0} /\ a + n \in Nat \ {0} /\ a - 1 \in Nat \ {0}
      /\ a + n - 1 \in Nat \ {0} /\ a <= d /\ d <= a + n - 1 /\ d <= a + n /\ a <= a + n
      /\ d - a = k /\ (a + n) - a = n /\ (a - 1) + 1 = a /\ (a + n - 1) + 1 = a + n
      /\ {a - 1, a, a + n - 1, a + n} \subseteq 1..E!Last
  OBVIOUS
<1> HIDE DEF d
<1>2. /\ E!Midnight(d) = E!Midnight(a) + z - Shorter(a, d) + Longer(a, d)
      /\ E!Midnight(a + n) = E!Midnight(a) + w - Shorter(a, a + n) + Longer(a, a + n)
      /\ {E!Midnight(a), E!Midnight(d), E!Midnight(a + n)} \subseteq Int
  BY <1>1, MidnightIs
<1>3. z \in Int /\ w \in Int
  BY <1>0
<1>4. /\ \A j \in {a - 1, a, a + n - 1, a + n} :
           /\ E!HoursOf(j) \in (Hours - 1)..(Hours + 1) /\ (j # short => E!HoursOf(j) >= Hours)
           /\ E!Midnight(j + 1) = E!Midnight(j) + E!HoursOf(j)
           /\ E!Midnight(j) \in Int /\ E!Midnight(j + 1) \in Int
  BY <1>1, NextMidnight
\* What of the change comes before d, and what from d on.
<1>5. /\ Shorter(a, a + n) = Shorter(a, d) + Shorter(d, a + n)
      /\ Longer(a, a + n) = Longer(a, d) + Longer(d, a + n)
      /\ {Shorter(a, d), Shorter(d, a + n), Longer(a, d), Longer(d, a + n)} \subseteq {0, 1}
      /\ Shorter(a, d) = 1 => short \in a..(d - 1)
      /\ Shorter(d, a + n) = 1 => short \in d..(a + n - 1)
      /\ Shorter(a, d) = 0 => short \notin a..(d - 1)
      /\ Shorter(d, a + n) = 0 => short \notin d..(a + n - 1)
      /\ Longer(a, d) = 1 => long \in a..(d - 1)
  <2>1. \A x \in Nat : /\ (x \in a..(a + n - 1)) <=> (x \in a..(d - 1) \/ x \in d..(a + n - 1))
                       /\ ~(x \in a..(d - 1) /\ x \in d..(a + n - 1))
    BY <1>1
  <2>2. \A x : x \notin Nat => x \notin a..(a + n - 1) /\ x \notin a..(d - 1) /\ x \notin d..(a + n - 1)
    BY <1>1
  <2>. QED BY <2>1, <2>2 DEF Shorter, Longer
<1> HIDE DEF z, w
<1>6. /\ begin = E!Midnight(a) - Shorter(a, d) + Longer(a, d)
      /\ end = E!Midnight(a + n) + Shorter(d, a + n) - Longer(d, a + n) - 1
      /\ begin \in Int /\ end \in Int
  <2>1. begin = E!Midnight(d) - z /\ end = begin + w - 1
    BY DEF z, w
  <2> HIDE DEF begin, end
  <2>. QED BY <1>2, <1>3, <1>5, <2>1
<1> HIDE DEF begin, end
<1>7. \/ E!DayOf(begin) = a
      \/ E!DayOf(begin) = a - 1 /\ Shorter(a, d) = 1
  <2>1. CASE begin < E!Midnight(a)
    <3>1. Shorter(a, d) = 1 /\ begin = E!Midnight(a) - 1
      BY <1>2, <1>5, <1>6, <2>1
    <3>2. E!Midnight(a - 1) <= begin /\ begin < E!Midnight((a - 1) + 1)
      BY <1>0, <1>1, <1>4, <3>1
    <3>. QED BY <1>1, <1>6, <3>1, <3>2, DayIs
  <2>2. CASE begin >= E!Midnight(a)
    <3>1. begin = E!Midnight(a) \/ (begin = E!Midnight(a) + 1 /\ Shorter(a, d) = 0 /\ Longer(a, d) = 1)
      BY <1>2, <1>5, <1>6, <2>2
    <3>2. begin < E!Midnight(a + 1)
      <4>1. CASE begin = E!Midnight(a)
        BY <1>0, <1>4, <4>1
      <4>2. CASE begin = E!Midnight(a) + 1 /\ Shorter(a, d) = 0 /\ Longer(a, d) = 1
        <5>1. a <= d - 1
          BY <1>1, <1>5, <4>2
        <5>2. a # short
          BY <1>1, <1>5, <4>2, <5>1
        <5>3. E!HoursOf(a) >= Hours
          BY <1>4, <5>2
        <5>. QED BY <1>0, <1>4, <4>2, <5>3
      <4>. QED BY <3>1, <4>1, <4>2
    <3>. QED BY <1>1, <1>6, <2>2, <3>2, DayIs
  <2>. QED BY <1>2, <1>6, <2>1, <2>2
<1>8. \/ E!DayOf(end) = a + n - 1
      \/ E!DayOf(end) = a + n /\ Shorter(d, a + n) = 1
  <2>1. CASE end >= E!Midnight(a + n)
    <3>1. Shorter(d, a + n) = 1 /\ end = E!Midnight(a + n)
      BY <1>2, <1>5, <1>6, <2>1
    <3>2. E!Midnight(a + n) <= end /\ end < E!Midnight((a + n) + 1)
      BY <1>0, <1>4, <2>1, <3>1
    <3>. QED BY <1>1, <1>6, <3>1, <3>2, DayIs
  <2>2. CASE end < E!Midnight(a + n)
    <3>1. \/ end = E!Midnight(a + n) - 1
          \/ end = E!Midnight(a + n) - 2 /\ Shorter(d, a + n) = 0
      BY <1>2, <1>5, <1>6, <2>2
    <3>2. E!Midnight(a + n) = E!Midnight(a + n - 1) + E!HoursOf(a + n - 1)
      BY <1>1, <1>4
    <3>3. E!Midnight(a + n - 1) <= end
      <4>1. CASE end = E!Midnight(a + n) - 1
        BY <1>0, <1>4, <3>2, <4>1
      <4>2. CASE end = E!Midnight(a + n) - 2 /\ Shorter(d, a + n) = 0
        <5>1. a + n - 1 # short
          BY <1>1, <1>5, <4>2
        <5>2. E!HoursOf(a + n - 1) >= Hours
          BY <1>4, <5>1
        <5>. QED BY <1>0, <1>4, <3>2, <4>2, <5>2
      <4>. QED BY <3>1, <4>1, <4>2
    <3>. QED BY <1>1, <1>6, <2>2, <3>3, DayIs
  <2>. QED BY <1>2, <1>6, <2>1, <2>2
<1>9. E!Ends(begin, n) = E!DayOf(end)
  BY DEF E!Ends, end
<1>10. ~(Shorter(a, d) = 1 /\ Shorter(d, a + n) = 1)
  BY <1>1, <1>5
<1>11. Shorter(a, d) = 1 \/ Shorter(d, a + n) = 1 => short \in a..(a + n - 1)
  BY <1>1, <1>5
<1>. QED BY <1>7, <1>8, <1>9, <1>10, <1>11 DEF begin, d

\* A range with day d in it is the period, which has d in it too, or a day
\* longer than that for a short day.
RangeOf(t, d, r, p) ==
  /\ r \in (1..E!Last) \X (1..E!Last) /\ r[1] <= d /\ d <= r[2]
  /\ \/ r = p
     \/ /\ t \in {"today", "week"} /\ short \in p[1]..p[2]
        /\ \/ r = <<p[1] - 1, p[2]>>
           \/ r = <<p[1], p[2] + 1>>

LEMMA DaysAre ==
  /\ E!Last \in Nat
  /\ \A d \in E!Days : d \in Nat /\ d >= Week + 1 /\ d + Week <= E!Last
<1> DEFINE L == Len(Lengths)
<1>1. /\ L \in Nat /\ L >= 1 /\ Lengths[L] \in Nat /\ Lengths[L] >= Week
      /\ Week \in Nat /\ Week >= 1
  BY CalendarIs
<1>2. L \in 1..L /\ L \in 1..(L + 1) /\ L + 1 \in 1..(L + 1) /\ 1 \in 1..(L + 1)
  BY <1>1
<1>3. E!First[L + 1] = E!First[L] + Lengths[L] /\ E!First[L] \in Nat
  BY <1>2, FirstIs
<1>4. E!Last = E!First[L] + Lengths[L] - 1 /\ E!First[L] >= 1
  <2>1. E!First[1] = 1 /\ E!First[1] + (L - 1) <= E!First[L]
    BY <1>1, <1>2, FirstGrows, FirstIs
  <2>. QED BY <1>1, <1>3, <2>1 DEF E!Last
<1>5. E!Days = (Week + 1)..(E!First[L] - 1)
  BY DEF E!Days
<1> HIDE DEF L
<1>. QED BY <1>1, <1>3, <1>4, <1>5

LEMMA SpanInDays ==
  ASSUME NEW t, t \in {"today", "week"}, NEW d \in Nat, NEW a \in Nat, NEW n \in Nat \ {0},
         a <= d, d <= a + n - 1, a >= 2, a + n <= E!Last, E!Last \in Nat, NEW r,
         \/ r = <<a, a + n - 1>>
         \/ /\ short \in a..(a + n - 1)
            /\ r = <<a - 1, a + n - 1>> \/ r = <<a, a + n>>
  PROVE  RangeOf(t, d, r, <<a, a + n - 1>>)
<1> DEFINE p == <<a, a + n - 1>>
<1>1. p[1] = a /\ p[2] = a + n - 1 /\ p[2] + 1 = a + n
  OBVIOUS
<1>2. {a - 1, a, a + n - 1, a + n} \subseteq 1..E!Last
  OBVIOUS
<1>3. CASE r = <<a, a + n - 1>>
  BY <1>1, <1>2, <1>3 DEF RangeOf
<1>4. CASE short \in a..(a + n - 1) /\ r = <<a - 1, a + n - 1>>
  BY <1>1, <1>2, <1>4 DEF RangeOf
<1>5. CASE short \in a..(a + n - 1) /\ r = <<a, a + n>>
  BY <1>1, <1>2, <1>5 DEF RangeOf
<1>. QED BY <1>3, <1>4, <1>5

LEMMA TodayIs ==
  ASSUME OneChange, NEW d \in E!Days
  PROVE  RangeOf("today", d, E!Today(d), <<d, d>>)
<1>0. Week \in Nat /\ Week >= 1 /\ Hours \in Nat
  BY CalendarIs
<1>1. d \in Nat /\ d >= 2 /\ d + 1 <= E!Last /\ E!Last \in Nat
  BY <1>0, DaysAre
<1>2. /\ E!Midnight(d) \in Int /\ d + 0 = d /\ 0 * Hours = 0 /\ d + 1 - 1 = d
      /\ 1 \in Nat \ {0} /\ 0 \in 0..(1 - 1) /\ "today" \in {"today", "week"}
      /\ d <= d /\ d <= d + 1 - 1
  BY <1>0, <1>1, NextMidnight
<1> DEFINE begin == E!Midnight(d + 0) - 0 * Hours
           r == <<E!DayOf(begin), E!Ends(begin, 1)>>
<1>3. \/ r = <<d, d + 1 - 1>>
      \/ /\ short \in d..(d + 1 - 1)
         /\ r = <<d - 1, d + 1 - 1>> \/ r = <<d, d + 1>>
  BY <1>1, <1>2, SpanIs
<1>4. begin = E!Midnight(d)
  BY <1>2
<1>5. E!DayOf(E!Midnight(d)) = d
  <2>1. E!HoursOf(d) >= 1 /\ E!Midnight(d + 1) = E!Midnight(d) + E!HoursOf(d)
    <3>1. /\ E!HoursOf(d) \in (Hours - 1)..(Hours + 1)
            /\ E!Midnight(d + 1) = E!Midnight(d) + E!HoursOf(d)
      BY <1>1, NextMidnight
    <3>. QED BY <3>1, CalendarIs
  <2>2. E!HoursOf(d) \in Int
    BY <1>0, <1>1, NextMidnight
  <2>3. E!Midnight(d) <= E!Midnight(d) /\ E!Midnight(d) < E!Midnight(d + 1) /\ d \in 1..E!Last
    BY <1>1, <1>2, <2>1, <2>2
  <2>. QED BY <1>1, <1>2, <2>3, DayIs
<1>6. r = E!Today(d)
  BY <1>4, <1>5 DEF E!Today
<1> HIDE DEF r
<1>7. RangeOf("today", d, r, <<d, d + 1 - 1>>)
  BY <1>1, <1>2, <1>3, SpanInDays
<1>. QED BY <1>2, <1>6, <1>7

LEMMA ThisWeekIs ==
  ASSUME OneChange, NEW d \in E!Days
  PROVE  LET monday == d - E!DayOfWeek(d)
         IN  RangeOf("week", d, E!ThisWeek(d), <<monday, monday + Week - 1>>)
<1> DEFINE k == E!DayOfWeek(d)
           a == d - k
           begin == E!Midnight(a + k) - k * Hours
           r == <<E!DayOf(begin), E!Ends(begin, Week)>>
<1>0. Week \in Nat \ {0} /\ Hours \in Nat
  BY CalendarIs
<1>1. d \in Nat /\ d >= Week + 1 /\ d + Week <= E!Last /\ E!Last \in Nat
  BY DaysAre
<1>2. k \in 0..(Week - 1)
  BY <1>0, <1>1 DEF E!DayOfWeek
<1> HIDE DEF k
<1>3. /\ a \in Nat /\ a >= 2 /\ a + Week <= E!Last /\ a + k = d
      /\ a <= d /\ d <= a + Week - 1 /\ "week" \in {"today", "week"}
  BY <1>0, <1>1, <1>2
<1>4. r = E!ThisWeek(d)
  BY <1>3 DEF E!ThisWeek, k
<1> HIDE DEF a
<1>5. \/ r = <<a, a + Week - 1>>
      \/ /\ short \in a..(a + Week - 1)
         /\ r = <<a - 1, a + Week - 1>> \/ r = <<a, a + Week>>
  BY <1>0, <1>1, <1>2, <1>3, SpanIs
<1> HIDE DEF r
<1>6. RangeOf("week", d, r, <<a, a + Week - 1>>)
  BY <1>0, <1>1, <1>3, <1>5, SpanInDays
<1>. QED BY <1>4, <1>6 DEF a, k

\* A month from a day is in the next month.
LEMMA ThisMonthIs ==
  ASSUME NEW d \in E!Days
  PROVE  LET m == E!MonthOf(d)
         IN  RangeOf("month", d, E!ThisMonth(d), <<E!First[m], E!First[m + 1] - 1>>)
<1> DEFINE L == Len(Lengths)
           m == E!MonthOf(d)
<1>0. /\ L \in Nat /\ L >= 1 /\ \A i \in 1..L : Lengths[i] \in Nat /\ Lengths[i] >= 1
      /\ E!First[1] = 1 /\ \A i \in 1..L : E!First[i + 1] = E!First[i] + Lengths[i]
      /\ \A i \in 1..(L + 1) : E!First[i] \in Nat
      /\ \A i, j \in 1..(L + 1) : i <= j => E!First[i] + (j - i) <= E!First[j]
  BY CalendarIs, FirstIs, FirstGrows
<1>1. m \in 1..(L - 1) /\ E!First[m] <= d /\ d < E!First[m + 1] /\ d \in Nat /\ E!Last \in Nat
  BY MonthOfDay, DaysAre
<1>2. E!Last = E!First[L + 1] - 1
  BY DEF E!Last
<1>3. E!AddMonth(d) = E!First[m + 1] + (IF d - E!First[m] < Lengths[m + 1] THEN d - E!First[m]
                                    ELSE Lengths[m + 1] - 1)
  BY DEF E!AddMonth
<1> HIDE DEF m
<1>4. /\ {m, m + 1} \subseteq 1..L /\ {m, m + 1, (m + 1) + 1, 1, L + 1} \subseteq 1..(L + 1)
      /\ 1 <= m /\ m + 1 <= L + 1
  BY <1>0, <1>1
<1>5. E!First[(m + 1) + 1] = E!First[m + 1] + Lengths[m + 1] /\ Lengths[m + 1] \in Nat
        /\ Lengths[m + 1] >= 1
  BY <1>0, <1>4
<1>6. {E!First[m], E!First[m + 1], E!First[(m + 1) + 1], E!First[L + 1]} \subseteq Nat
  BY <1>0, <1>4
<1>7. E!AddMonth(d) \in Int /\ E!First[m + 1] <= E!AddMonth(d) /\ E!AddMonth(d) < E!First[(m + 1) + 1]
  BY <1>1, <1>3, <1>5, <1>6
<1>8. E!MonthOf(E!AddMonth(d)) = m + 1
  BY <1>4, <1>7, MonthIs
<1>9. E!ThisMonth(d) = <<E!First[m], E!First[m + 1] - 1>>
  BY <1>8 DEF E!ThisMonth, m
<1>10. E!First[1] + (m - 1) <= E!First[m] /\ E!First[m + 1] + ((L + 1) - (m + 1)) <= E!First[L + 1]
  BY <1>0, <1>4
<1>11. E!First[m] \in 1..E!Last /\ E!First[m + 1] - 1 \in 1..E!Last
  <2>1. E!First[m] >= 1
    <3>1. 1 + (m - 1) <= E!First[m]
      BY <1>0, <1>10
    <3>. QED BY <1>1, <1>0, <1>6, <3>1
  <2>2. E!First[m + 1] <= E!First[L + 1]
    <3>1. (L + 1) - (m + 1) \in Nat
      BY <1>0, <1>1
    <3>. QED BY <1>6, <1>10, <3>1
  <2>3. E!First[m] < E!First[m + 1]
    BY <1>1, <1>6
  <2> HIDE DEF L
  <2>4. E!First[m] <= E!Last /\ E!First[m + 1] - 1 <= E!Last /\ E!First[m + 1] - 1 >= 1
    BY <1>2, <1>6, <2>1, <2>2, <2>3
  <2>. QED BY <1>1, <1>6, <2>1, <2>4
<1> DEFINE p == <<E!First[m], E!First[m + 1] - 1>>
<1>12. p \in (1..E!Last) \X (1..E!Last) /\ p[1] = E!First[m] /\ p[2] = E!First[m + 1] - 1
  BY <1>11
<1>13. p[1] <= d /\ d <= p[2]
  BY <1>1, <1>6, <1>12
<1>14. RangeOf("month", d, p, p)
  BY <1>12, <1>13 DEF RangeOf
<1>. QED BY <1>9, <1>14 DEF m

LEMMA ThisYearIs ==
  ASSUME NEW d \in E!Days
  PROVE  RangeOf("year", d, E!ThisYear(d), <<E!First[E!January(d)], E!First[E!January(d) + Months] - 1>>)
<1> DEFINE L == Len(Lengths)
           m == E!MonthOf(d)
           q == (m - 1) \div Months
           j == E!January(d)
<1>0. /\ L \in Nat /\ E!First[1] = 1 /\ Months \in Nat /\ Months >= 1
      /\ \A i \in 1..(L + 1) : E!First[i] \in Nat
      /\ \A i, k \in 1..(L + 1) : i <= k => E!First[i] + (k - i) <= E!First[k]
  BY CalendarIs, FirstIs, FirstGrows
<1>1. m \in 1..(L - 1) /\ E!First[m] <= d /\ d < E!First[m + 1] /\ d \in Nat /\ E!Last \in Nat
  BY MonthOfDay, DaysAre
<1>2. E!Last = E!First[L + 1] - 1 /\ j = q * Months + 1
  BY DEF E!Last, E!January
<1> HIDE DEF m, j
<1>3. q \in Nat /\ q * Months <= m - 1 /\ m - 1 < q * Months + Months
  BY <1>0, <1>1
<1>4. PICK years \in 1..L : L = years * Months
  BY ConsoleAssumption
<1> HIDE DEF L, q
\* The year has begun in a year of the calendar, so it ends in one.
<1>5. q * Months + Months <= L
  <2>1. q < years
    <3>1. SUFFICES ASSUME q >= years PROVE FALSE
      BY <1>0, <1>3
    <3>2. q * Months >= years * Months
      BY <1>0, <1>3, <3>1
    <3>. QED BY <1>0, <1>1, <1>3, <1>4, <3>2
  <2>2. (q + 1) * Months <= years * Months
    BY <1>0, <1>3, <2>1
  <2>3. (q + 1) * Months = q * Months + Months
    BY <1>0, <1>3
  <2>. QED BY <1>4, <2>2, <2>3
<1> DEFINE y == q * Months
<1>6. y \in Nat /\ j = y + 1 /\ y <= m - 1 /\ m - 1 < y + Months /\ y + Months <= L
  BY <1>0, <1>2, <1>3, <1>5
<1> HIDE DEF y
<1>7. /\ {1, j, m, m + 1, j + Months, L + 1} \subseteq 1..(L + 1)
      /\ j <= m /\ m + 1 <= j + Months /\ j + Months <= L + 1 /\ 1 <= j
  BY <1>0, <1>1, <1>6
<1>8. {E!First[j], E!First[m], E!First[m + 1], E!First[j + Months], E!First[L + 1]} \subseteq Nat
  BY <1>0, <1>7
<1>9. ASSUME NEW i \in 1..(L + 1), NEW k \in 1..(L + 1), i <= k PROVE E!First[i] <= E!First[k]
  <2>1. E!First[i] + (k - i) <= E!First[k] /\ E!First[i] \in Nat /\ E!First[k] \in Nat
    BY <1>0, <1>9
  <2>. QED BY <1>0, <1>9, <2>1
<1>10. /\ E!First[1] <= E!First[j] /\ E!First[j] <= E!First[m]
       /\ E!First[m + 1] <= E!First[j + Months] /\ E!First[j + Months] <= E!First[L + 1]
  BY <1>7, <1>9
<1> DEFINE p == <<E!First[j], E!First[j + Months] - 1>>
<1>11. /\ E!First[j] \in 1..E!Last /\ E!First[j + Months] - 1 \in 1..E!Last
       /\ E!First[j] <= d /\ d <= E!First[j + Months] - 1
  BY <1>0, <1>1, <1>2, <1>8, <1>10
<1>12. p \in (1..E!Last) \X (1..E!Last) /\ p[1] = E!First[j] /\ p[2] = E!First[j + Months] - 1
  BY <1>11
<1>13. RangeOf("year", d, p, p)
  BY <1>11, <1>12 DEF RangeOf
<1>. QED BY <1>13 DEF E!ThisYear, j

\* What a button sets and what lights it is the period that its day is in.
LEMMA DistanceIs ==
  ASSUME OneChange, NEW t \in E!Types, NEW d \in E!Days
  PROVE  RangeOf(t, d, E!GetTimeDistance(t, d), E!Period(t, d))
<1>1. CASE t = "today"
  BY <1>1, TodayIs DEF E!GetTimeDistance, E!Period
<1>2. CASE t = "week"
  <2>1. E!GetTimeDistance(t, d) = E!ThisWeek(d)
    BY <1>2 DEF E!GetTimeDistance
  <2>2. E!Period(t, d) = <<d - E!DayOfWeek(d), d - E!DayOfWeek(d) + Week - 1>>
    BY <1>2 DEF E!Period
  <2>. QED BY <1>2, <2>1, <2>2, ThisWeekIs
<1>3. CASE t = "month"
  <2>1. E!GetTimeDistance(t, d) = E!ThisMonth(d)
    BY <1>3 DEF E!GetTimeDistance
  <2>2. E!Period(t, d) = <<E!First[E!MonthOf(d)], E!First[E!MonthOf(d) + 1] - 1>>
    BY <1>3 DEF E!Period
  <2>. QED BY <1>3, <2>1, <2>2, ThisMonthIs
<1>4. CASE t = "year"
  <2>1. E!GetTimeDistance(t, d) = E!ThisYear(d)
    BY <1>4 DEF E!GetTimeDistance
  <2>2. E!Period(t, d) = <<E!First[E!January(d)], E!First[E!January(d) + Months] - 1>>
    BY <1>4 DEF E!Period
  <2>. QED BY <1>4, <2>1, <2>2, ThisYearIs
<1>. QED BY <1>1, <1>2, <1>3, <1>4 DEF E!Types

\* The inductive invariant: the calendar has at most one change to summer time
\* and one back, on different days, and the range is what the button that was
\* used made of the day it was used on.
EInv ==
  /\ E!TypeOK
  /\ short # long \/ short = None
  /\ picked # None => range = E!GetTimeDistance(picked[1], picked[2])

LEMMA ChangesOnce == E!TypeOK /\ (short # long \/ short = None) => OneChange
BY CalendarIs DEF E!TypeOK, OneChange

LEMMA EInitInv == E!Init => EInv
<1>. SUFFICES ASSUME E!Init PROVE EInv
  OBVIOUS
<1>1. /\ short \in Clocks \cup {None} /\ long \in Clocks \cup {None} /\ today \in E!Days
      /\ rendered \in E!Days /\ (short # long \/ short = None)
  BY DEF E!Init
<1>2. OneChange
  BY <1>1, CalendarIs DEF OneChange
<1>3. "year" \in E!Types /\ range = E!GetTimeDistance("year", today) /\ picked = <<"year", today>>
  BY DEF E!Init, E!Types, E!GetTimeDistance
<1>4. RangeOf("year", today, range, E!Period("year", today))
  BY <1>1, <1>2, <1>3, DistanceIs
<1>5. range \in (1..E!Last) \X (1..E!Last)
  BY <1>4 DEF RangeOf
<1>6. picked \in E!Types \X E!Days /\ picked[1] = "year" /\ picked[2] = today
  BY <1>1, <1>3
<1>. QED BY <1>1, <1>3, <1>5, <1>6 DEF EInv, E!TypeOK

\* Ranges change with the calendar only, which does not change.
LEMMA SameDistance ==
  ASSUME UNCHANGED <<short, long>>, NEW t \in E!Types, NEW d \in Int
  PROVE  E!GetTimeDistance(t, d)' = E!GetTimeDistance(t, d)
<1>1. \A e : E!Midnight(e)' = E!Midnight(e) /\ E!HoursOf(e)' = E!HoursOf(e)
  BY DEF E!Midnight, E!HoursOf
<1>2. \A h : E!DayOf(h)' = E!DayOf(h)
  BY <1>1 DEF E!DayOf, E!Last
<1>3. CASE t = "today"
  BY <1>1, <1>2, <1>3 DEF E!GetTimeDistance, E!Today, E!Ends
<1>4. CASE t = "week"
  BY <1>1, <1>2, <1>4 DEF E!GetTimeDistance, E!ThisWeek, E!Ends, E!DayOfWeek
<1>5. CASE t = "month"
  BY <1>5 DEF E!GetTimeDistance, E!ThisMonth, E!AddMonth, E!MonthOf
<1>6. CASE t = "year"
  BY <1>6 DEF E!GetTimeDistance, E!ThisYear, E!January, E!MonthOf
<1>. QED BY <1>3, <1>4, <1>5, <1>6 DEF E!Types

LEMMA EStepInv == EInv /\ [E!Next]_(E!vars) => EInv'
<1>. SUFFICES ASSUME EInv, [E!Next]_(E!vars) PROVE EInv'
  OBVIOUS
<1>0. OneChange
  BY ChangesOnce DEF EInv
<1>1. ASSUME NEW t \in E!Types, E!SelectDate(t) PROVE EInv'
  <2>1. /\ range' = E!GetTimeDistance(t, today) /\ picked' = <<t, today>> /\ rendered' = today
        /\ UNCHANGED <<short, long, today>>
    BY <1>1 DEF E!SelectDate
  <2>2. today \in E!Days
    BY DEF EInv, E!TypeOK
  <2>3. RangeOf(t, today, range', E!Period(t, today))
    BY <1>0, <2>1, <2>2, DistanceIs
  <2>4. range' \in (1..E!Last) \X (1..E!Last)
    BY <2>3 DEF RangeOf
  <2>5. picked' \in E!Types \X E!Days /\ picked'[1] = t /\ picked'[2] = today
    BY <2>1, <2>2
  <2>6. PICK d : d = today /\ d \in Int
    BY <2>2, DaysAre
  <2>7. E!GetTimeDistance(t, d)' = range'
    BY <2>1, <2>6, SameDistance
  <2>8. range' = E!GetTimeDistance(picked[1], picked[2])'
    BY <2>5, <2>6, <2>7
  <2>. QED BY <2>1, <2>2, <2>4, <2>5, <2>8 DEF EInv, E!TypeOK
<1>2. CASE E!HandleRangePickerChange
  <2>1. PICK r \in {None} \cup {<<d, d>> : d \in E!Days} : range' = r
    BY <1>2 DEF E!HandleRangePickerChange
  <2>2. \A d \in E!Days : d \in 1..E!Last
    BY DaysAre, CalendarIs
  <2>3. range' \in {None} \cup ((1..E!Last) \X (1..E!Last))
    BY <2>1, <2>2
  <2>. QED BY <1>2, <2>3 DEF E!HandleRangePickerChange, EInv, E!TypeOK
<1>3. ASSUME UNCHANGED <<short, long, range, picked>>, today' \in E!Days, rendered' \in E!Days
      PROVE  EInv'
  <2>1. ASSUME picked # None PROVE range' = E!GetTimeDistance(picked[1], picked[2])'
    <3>1. PICK t \in E!Types, d \in E!Days : picked = <<t, d>>
      BY <2>1 DEF EInv, E!TypeOK
    <3>2. d \in Int /\ picked[1] = t /\ picked[2] = d
      BY <3>1, DaysAre
    <3>3. range = E!GetTimeDistance(t, d)
      BY <2>1, <3>2 DEF EInv
    <3>4. E!GetTimeDistance(t, d)' = range
      BY <1>3, <3>2, <3>3, SameDistance
    <3>. QED BY <1>3, <3>1, <3>2, <3>4
  <2>. QED BY <1>3, <2>1 DEF EInv, E!TypeOK
<1>4. CASE E!Rendered
  BY <1>3, <1>4 DEF E!Rendered, EInv, E!TypeOK
<1>5. CASE E!Midnights
  BY <1>3, <1>5 DEF E!Midnights, EInv, E!TypeOK
<1>6. CASE UNCHANGED E!vars
  BY <1>3, <1>6 DEF E!vars, EInv, E!TypeOK
<1>. QED BY <1>1, <1>2, <1>4, <1>5, <1>6 DEF E!Next

\* So each button is lit over a range that has the day of the last render in it.
LEMMA PeriodIsSet == EInv => E!RangeIsPeriod /\ E!LitIsCurrent
<1>. SUFFICES ASSUME EInv PROVE E!RangeIsPeriod /\ E!LitIsCurrent
  OBVIOUS
<1>0. OneChange
  BY ChangesOnce DEF EInv
<1>1. ASSUME picked # None PROVE E!RangeIsPeriod
  <2>1. PICK t \in E!Types, d \in E!Days : picked = <<t, d>>
    BY <1>1 DEF EInv, E!TypeOK
  <2>2. picked[1] = t /\ picked[2] = d
    BY <2>1
  <2>3. RangeOf(t, d, range, E!Period(t, d))
    BY <1>0, <1>1, <2>2, DistanceIs DEF EInv
  <2>. QED BY <2>2, <2>3 DEF RangeOf, E!RangeIsPeriod
<1>2. ASSUME NEW t \in E!Types, E!IsActive(t) PROVE range[1] <= rendered /\ rendered <= range[2]
  <2>1. range = E!GetTimeDistance(t, rendered) /\ rendered \in E!Days
    BY <1>2 DEF E!IsActive, EInv, E!TypeOK
  <2>2. RangeOf(t, rendered, range, E!Period(t, rendered))
    BY <1>0, <2>1, DistanceIs
  <2>. QED BY <2>2 DEF RangeOf
<1>. QED BY <1>1, <1>2 DEF E!RangeIsPeriod, E!LitIsCurrent

-----------------------------------------------------------------------------
(* Active chart *)

\* The timer that waits is the one the ref names.
HInv == H!TypeOK /\ H!OneTimer /\ (mounted <=> timerRef # None)

LEMMA HInitInv == H!Init => HInv
BY DEF H!Init, HInv, H!TypeOK, H!OneTimer

LEMMA HStepInv == HInv /\ [H!Next]_(H!vars) => HInv'
<1>. SUFFICES ASSUME HInv, [H!Next]_(H!vars) PROVE HInv'
  OBVIOUS
<1>0. None \notin Timers
  BY ConsoleAssumption
<1>. USE <1>0 DEF HInv, H!TypeOK, H!OneTimer
<1>1. CASE H!Mount
  BY <1>1 DEF H!Mount, H!SetTimeout
<1>2. CASE H!Unmount
  BY <1>2 DEF H!Unmount
<1>3. ASSUME NEW t \in Timers, H!LoopData(t) PROVE HInv'
  BY <1>3 DEF H!LoopData, H!SetTimeout
<1>4. CASE UNCHANGED H!vars
  BY <1>4 DEF H!vars
<1>. QED BY <1>1, <1>2, <1>3, <1>4 DEF H!Next

-----------------------------------------------------------------------------
(* The theorems *)

IInv ==
  /\ NInv /\ KInv /\ OInv /\ TInv /\ RInv /\ AInv /\ SInv /\ FInv
  /\ DInv /\ MInv /\ GInv /\ BInv /\ CInv /\ PInv /\ EInv /\ HInv

LEMMA InitInv == Init => IInv
<1>1. Init => NInv /\ KInv /\ OInv /\ TInv
  BY NInitInv, KInitInv, OInitInv, TInitInv DEF Init
<1>2. Init => RInv /\ AInv /\ SInv /\ FInv
  BY RInitInv, AInitInv, SInitInv, FInitInv DEF Init
<1>3. Init => DInv /\ MInv /\ GInv /\ BInv
  BY DInitInv, MInitInv, GInitInv, BInitInv DEF Init
<1>4. Init => CInv /\ PInv /\ EInv /\ HInv
  BY CInitInv, PInitInv, EInitInv, HInitInv DEF Init
<1>. QED BY <1>1, <1>2, <1>3, <1>4 DEF IInv

LEMMA StepInv == IInv /\ [Next]_vars => IInv'
<1>1. IInv /\ [Next]_vars => (NInv /\ KInv /\ OInv /\ TInv)'
  BY Steps, NStepInv, KStepInv, OStepInv, TStepInv DEF IInv
<1>2. IInv /\ [Next]_vars => (RInv /\ AInv /\ SInv /\ FInv)'
  BY Steps, RStepInv, AStepInv, SStepInv, FStepInv DEF IInv
<1>3. IInv /\ [Next]_vars => (DInv /\ MInv /\ GInv /\ BInv)'
  BY Steps, DStepInv, MStepInv, GStepInv, BStepInv DEF IInv
<1>4. IInv /\ [Next]_vars => (CInv /\ PInv /\ EInv /\ HInv)'
  BY Steps, CStepInv, PStepInv, EStepInv, HStepInv DEF IInv
<1>. QED BY <1>1, <1>2, <1>3, <1>4 DEF IInv

LEMMA Invariance == Spec => []IInv
BY InitInv, StepInv, PTL DEF Spec

\* Every variable of the sixteen modules keeps its type; for the sales period,
\* each range of a button, and what it lights, is made of days of the calendar.
THEOREM TypeCorrect == Spec => []TypeOK
<1>1. IInv => N!TypeOK /\ K!TypeOK /\ O!TypeOK /\ T!TypeOK
  BY DEF IInv, NInv, KInv, OInv, TInv
<1>2. IInv => R!TypeOK /\ A!TypeOK /\ S!TypeOK /\ F!TypeOK
  BY DEF IInv, RInv, AInv, SInv, FInv
<1>3. IInv => D!TypeOK /\ M!TypeOK /\ G!TypeOK /\ B!TypeOK
  BY DEF IInv, DInv, MInv, GInv, BInv
<1>4. IInv => C!TypeOK /\ P!TypeOK /\ E!TypeOK /\ H!TypeOK
  BY DEF IInv, CInv, PInv, EInv, HInv
<1>5. IInv => TypeOK
  BY <1>1, <1>2, <1>3, <1>4 DEF TypeOK
<1>. QED BY <1>5, Invariance, PTL

\* A rate times the time it stands for is what was really sent in that time, to
\* the rounding, however many samples failed in between; where an interface has
\* gone it is too low and never too high.
THEOREM RatesAreTraffic == Spec => RateIsTraffic
<1> DEFINE Sampled ==
      N!Sample /\ prev # None /\ elapsed > 0 =>
        /\ 2 * rate' * seconds <= 20 * traffic + seconds
        /\ dropped \/ 2 * rate' * seconds >= 20 * traffic - seconds
<1>1. NInv /\ [N!Next]_(N!vars) => [Sampled]_(N!vars)
  BY RateStep
<1>. QED BY <1>1, Steps, Invariance, PTL DEF Spec, IInv, RateIsTraffic, N!RateIsTraffic

\* Once there is data, no background request takes away what was typed into the
\* settings form, nor the tags: only leaving the page does.
THEOREM EditsStay == Spec => EditsKept
<1> DEFINE Stays ==
      /\ accountForm # None /\ accountForm.typed
           /\ (accountForm' = None \/ ~accountForm'.typed) =>
             accountPlace' # accountPlace \/ accountCache = None
      /\ newTags # {} /\ newTags' = {} => accountPlace' # accountPlace
<1>1. AInv /\ [A!Next]_(A!vars) => [Stays]_(A!vars)
  <2> SUFFICES ASSUME AInv, [A!Next]_(A!vars) PROVE Stays
    OBVIOUS
  <2>. QED BY AStepInv
<1>. QED BY <1>1, Steps, Invariance, PTL DEF Spec, IInv, EditsKept, A!EditsKept

\* Keys tell the rows of the rule table apart and each is on one page of those
\* that are announced, keys tell the members apart and ids the tasks, with
\* either server and whatever requests overlap.
THEOREM RowsToldApart == Spec => []KeysTellApart
<1>1. IInv => KeysTellApart
  BY KeysTell, OnOnePage, TasksTold DEF IInv, DInv, KeysTellApart
<1>. QED BY <1>1, Invariance, PTL

\* Once nothing is under way, the rule table, the account pages, the search lists
\* and the read-only pages show what their own server has for what was asked,
\* but for the overlaps and failures their modules name; for the rule table these
\* are a last GET that failed and a create without a reload.
THEOREM ShownWasAsked == Spec => []ShowsWhatWasAsked
<1>1. IInv => ShowsWhatWasAsked
  BY TableShows, ListsFollow, PanelsDrawn DEF IInv, AInv, ShowsWhatWasAsked
<1>. QED BY <1>1, Invariance, PTL

\* What is kept in two places agrees, in each of the pages and with any
\* calendar: address and country of a row are from one lookup, whatever the
\* sessions of two connections remember, unless it was pieced together since it
\* was last written whole; the range of a button is the period of its day, or a day longer for
\* a change to summer time, and the buttons lit are those of that range.
THEOREM TwoPlacesAgree == Spec => []HoldsTogether
<1>1. IInv => K!OneLookup
  BY DEF IInv, KInv
<1>2. IInv => /\ N!WrittenInAUnit /\ A!FormHasData /\ A!CityOfProvince
              /\ F!ConfirmsDraft /\ D!ErrorsGo
  BY UnitWritten DEF IInv, NInv, AInv, FInv, DInv
<1>3. IInv => /\ G!SentTwice /\ B!AddBeginsEmpty /\ C!ActiveIsListed
              /\ E!RangeIsPeriod /\ E!LitIsCurrent
  BY TasksTold, PeriodIsSet DEF IInv, GInv, CInv
<1>4. IInv => P!TabsAgree
  BY DEF IInv, PInv, P!TabsAgree
<1>5. IInv => HoldsTogether
  BY <1>1, <1>2, <1>3, <1>4 DEF HoldsTogether
<1>. QED BY <1>5, Invariance, PTL

\* The banner tells whether there is a connection and a page whose chunk failed
\* is loaded when there is one, a map with its data is drawn, the captcha button
\* waits for an interval that runs, and no timer is left for a chart that has gone.
THEOREM NothingLeftWaiting == Spec => []NothingIsStuck
<1>1. IInv => NothingIsStuck
  BY DEF IInv, OInv, MInv, GInv, HInv, NothingIsStuck
<1>. QED BY <1>1, Invariance, PTL

\* Stopped at any step and run again in any order, the scripts lose no text, are
\* offered while work is left, and end with the same tree.
THEOREM ScriptsEndAlike == Spec => []ScriptsComplete
<1>1. IInv => ScriptsComplete
  BY ScriptsEndSame DEF IInv, ScriptsComplete
<1>. QED BY <1>1, Invariance, PTL
=============================================================================
