------------------------- MODULE DisplayPrefsProofs -------------------------
(***************************************************************************)
(* Proofs about the display preferences: every copy that says it was read   *)
(* after the last change is the row, a page between two saves shows the row  *)
(* unless there is a reason, and a save from such a copy overwrites nothing. *)
(***************************************************************************)
EXTENDS MCDisplayPrefs, FiniteSetTheorems, TLAPS

-----------------------------------------------------------------------------
(* The inductive invariant *)

\* A copy is of a state the row has had, and of this one only if it is the row.
Good(c) ==
  /\ c.of <= changes \/ c.of \in {Unread, Edited}
  /\ c.of = changes => c.prefs = Stored

\* The saves that can still change the row.
Pending == {s \in Slots : saves[s] # None /\ saves[s].stage \in {"sent", "read"}}
Counted == changes + Cardinality(Pending) <= made

GoodCopies ==
  /\ \A t \in Tabs : Good(copy[t])
  /\ \A t \in Tabs : get[t] \notin {None, Asked} => Good(get[t])
  /\ \A t \in HostTabs, m \in Machines : del[t][m] # None => Good(del[t][m])

\* What a save carries differs from the copy it was made from in one switch.
OnlyWhat(p) ==
  /\ p.next.shown \ {p.what} = p.prev.prefs.shown \ {p.what}
  /\ p.next.hidden \ {p.what} = p.prev.prefs.hidden \ {p.what}

GoodSave(p) ==
  /\ Good(p.prev)
  /\ p.saved # None => Good(p.saved)
  /\ OnlyWhat(p)
  /\ p.read # None \/ p.stage = "stored" => row # None
  /\ p.stage = "answered" => p.saved # None

GoodSaves == \A s \in Slots : saves[s] # None => GoodSave(saves[s])

\* The copy the page goes on with when the save is over will be the row.
Fresh(p) ==
  /\ p.stage \in {"sent", "read", "failed"} => p.prev.of = changes
  /\ p.stage = "answered" => p.saved.of = changes

Closed(t) ==
  /\ copy[t] = Initially /\ get[t] = None /\ Waiting(t) = {}
  /\ t \in HostTabs => \A m \in Machines : del[t][m] = None

\* A page with no reason to be stale: it waits for its GET, or for one save, or
\* for nothing.
Current(t) ==
  /\ get[t] # None => copy[t] = Initially /\ Waiting(t) = {}
  /\ get[t] \notin {None, Asked} => get[t].of = changes
  /\ get[t] = None /\ Waiting(t) = {} => copy[t].of = changes
  /\ Waiting(t) # {} => saving[t]
  /\ \A s \in Waiting(t) : Waiting(t) = {s} /\ Fresh(saves[s])

Pages ==
  /\ \A t \in Tabs \ open : Closed(t)
  /\ \A t \in open \ excused : Current(t)

IInv == TypeOK /\ Counted /\ GoodCopies /\ GoodSaves /\ Pages /\ DisabledForASave

-----------------------------------------------------------------------------
(* Facts about the data *)

\* The marks of a copy without a place in the history are beyond every change.
LEMMA Bounds ==
  /\ MaxSaves \in Nat \ {0} /\ Unread \in Nat /\ Edited \in Nat
  /\ Unread > MaxSaves /\ Edited > MaxSaves
  /\ Unread \in 0..Edited /\ Edited \in 0..Edited /\ 0..MaxSaves \subseteq 0..Edited
BY PrefsAssumption DEF Unread, Edited

\* Default preferences are preferences, and the copy of a page just opened is one.
LEMMA DefaultIsPrefs == Default \in Prefs /\ Initially \in Copy
BY Bounds DEF Default, Prefs, Initially, Copy

\* What the server answers are preferences.
LEMMA StoredIsPrefs == ASSUME row \in Prefs \cup {None} PROVE Stored \in Prefs
BY DefaultIsPrefs, SentinelAssumption DEF Stored

\* A copy is none of the marks for its absence.
LEMMA CopiesAreNotMarks == \A c \in Copy : c # None /\ c # Asked
BY SentinelAssumption

\* The saves that can still change the row are finitely many.
LEMMA PendingFinite == IsFiniteSet(Pending) /\ Cardinality(Pending) \in Nat
<1>1. IsFiniteSet(Slots)
  BY Bounds, FS_Interval DEF Slots
<1>2. IsFiniteSet(Pending)
  BY <1>1, FS_Subset DEF Pending
<1>. QED BY <1>2, FS_CardinalityType

\* A save with one field set is a save.
LEMMA SaveFields ==
  ASSUME NEW p \in Save
  PROVE  /\ [p EXCEPT !.waits = FALSE] \in Save
         /\ \A x \in {"sent", "read", "stored", "answered", "failed"} : [p EXCEPT !.stage = x] \in Save
         /\ \A x \in {"sent", "read", "stored", "answered", "failed"}, r \in Prefs \cup {None} :
              [p EXCEPT !.stage = x, !.read = r] \in Save
         /\ \A x \in {"sent", "read", "stored", "answered", "failed"}, r \in Copy \cup {None} :
              [p EXCEPT !.stage = x, !.saved = r] \in Save
BY DEF Save

\* While the row and the saves stay, so does what is said about them.
LEMMA ServerStays ==
  ASSUME UNCHANGED <<row, changes, saves>>
  PROVE  /\ Stored' = Stored /\ Pending' = Pending
         /\ \A t : Waiting(t)' = Waiting(t)
         /\ \A c : Good(c)' <=> Good(c)
         /\ \A p : GoodSave(p)' <=> GoodSave(p)
         /\ \A p : Fresh(p)' <=> Fresh(p)
BY DEF Stored, Pending, Waiting, Good, GoodSave, Fresh

-----------------------------------------------------------------------------
(* The page's own steps *)

LEMMA MountStep == ASSUME IInv, NEW t \in Tabs, Mount(t) PROVE IInv'
<1>. USE DEF IInv, Mount, server, puts
<1>1. TypeOK'
  BY DEF TypeOK
<1>2. Counted' /\ GoodSaves'
  BY ServerStays DEF Counted, GoodSaves
<1>3. GoodCopies'
  BY ServerStays, SentinelAssumption DEF GoodCopies, TypeOK
<1>4. Pages'
  <2>1. \A u \in Tabs \ open' : Closed(u)'
    BY ServerStays DEF Pages, Closed, TypeOK
  <2>2. \A u \in open' \ excused' : Current(u)'
    BY ServerStays, SentinelAssumption DEF Pages, Current, Closed, TypeOK
  <2>. QED BY <2>1, <2>2 DEF Pages
<1>5. DisabledForASave'
  BY ServerStays DEF DisabledForASave
<1>. QED BY <1>1, <1>2, <1>3, <1>4, <1>5

LEMMA GetAnsweredStep == ASSUME IInv, NEW t \in Tabs, GetAnswered(t) PROVE IInv'
<1>. USE DEF IInv, GetAnswered, server, puts
<1>. DEFINE answer == [prefs |-> Stored, of |-> changes]
<1>1. answer \in Copy /\ Good(answer) /\ answer.of = changes
  BY StoredIsPrefs, Bounds DEF TypeOK, Copy, Good
<1>2. TypeOK'
  BY <1>1 DEF TypeOK
<1>3. Counted' /\ GoodSaves'
  BY ServerStays DEF Counted, GoodSaves
<1>4. GoodCopies'
  BY <1>1, ServerStays DEF GoodCopies, TypeOK
<1>5. Pages'
  <2>1. \A u \in Tabs \ open' : Closed(u)'
    BY ServerStays, SentinelAssumption DEF Pages, Closed, TypeOK
  <2>2. \A u \in open' \ excused' : Current(u)'
    BY <1>1, ServerStays, SentinelAssumption DEF Pages, Current, TypeOK
  <2>. QED BY <2>1, <2>2 DEF Pages
<1>6. DisabledForASave'
  BY ServerStays DEF DisabledForASave
<1>. QED BY <1>2, <1>3, <1>4, <1>5, <1>6

LEMMA GetArrivesStep == ASSUME IInv, NEW t \in Tabs, GetArrives(t) PROVE IInv'
<1>. USE DEF IInv, GetArrives, server, puts
<1>1. get[t] \in Copy /\ Good(get[t])
  BY DEF TypeOK, GoodCopies
<1>2. TypeOK'
  BY <1>1 DEF TypeOK
<1>3. Counted' /\ GoodSaves'
  BY ServerStays DEF Counted, GoodSaves
<1>4. GoodCopies'
  BY <1>1, ServerStays DEF GoodCopies, TypeOK
<1>5. Pages'
  <2>1. \A u \in Tabs \ open' : Closed(u)'
    BY ServerStays, SentinelAssumption DEF Pages, Closed, TypeOK
  <2>2. \A u \in open' \ excused' : Current(u)'
    BY <1>1, ServerStays, SentinelAssumption DEF Pages, Current, TypeOK
  <2>. QED BY <2>1, <2>2 DEF Pages
<1>6. DisabledForASave'
  BY ServerStays DEF DisabledForASave
<1>. QED BY <1>2, <1>3, <1>4, <1>5, <1>6

LEMMA GetFailsStep == ASSUME IInv, NEW t \in Tabs, GetFails(t) PROVE IInv'
<1>. USE DEF IInv, GetFails, server, puts
<1>1. TypeOK'
  BY DEF TypeOK
<1>2. Counted' /\ GoodSaves'
  BY ServerStays DEF Counted, GoodSaves
<1>3. GoodCopies'
  BY ServerStays, SentinelAssumption DEF GoodCopies, TypeOK
<1>4. Pages'
  <2>1. \A u \in Tabs \ open' : Closed(u)'
    BY ServerStays DEF Pages, Closed, TypeOK
  <2>2. \A u \in open' \ excused' : Current(u)'
    BY ServerStays DEF Pages, Current, TypeOK
  <2>. QED BY <2>1, <2>2 DEF Pages
<1>5. DisabledForASave'
  BY ServerStays DEF DisabledForASave
<1>. QED BY <1>1, <1>2, <1>3, <1>4, <1>5

\* handleDelete captures a copy, lets it go, or takes nothing out of it.
LEMMA DeleteSteps ==
  ASSUME IInv, NEW t \in HostTabs, NEW m \in Machines, NEW v \in {None, copy[t]}, t \in open,
         del' = [del EXCEPT ![t][m] = v],
         UNCHANGED <<server, open, copy, saving, get, puts, excused>>
  PROVE  IInv'
<1>. USE DEF IInv, server, puts
<1>1. copy[t] \in Copy /\ Good(copy[t])
  BY PrefsAssumption DEF TypeOK, GoodCopies
<1>2. TypeOK'
  BY <1>1 DEF TypeOK
<1>3. Counted' /\ GoodSaves'
  BY ServerStays DEF Counted, GoodSaves
<1>4. GoodCopies'
  BY <1>1, ServerStays DEF GoodCopies, TypeOK
<1>5. Pages'
  BY ServerStays DEF Pages, Closed, Current, TypeOK
<1>6. DisabledForASave'
  BY ServerStays DEF DisabledForASave
<1>. QED BY <1>2, <1>3, <1>4, <1>5, <1>6

-----------------------------------------------------------------------------
(* What a step does to the saves *)

\* A save is forgotten only when nobody waits for it and the row is done with it.
LEMMA LeftIsOver ==
  ASSUME NEW p \in Save
  PROVE  /\ p # None /\ Left(p) \in {None, p}
         /\ p.waits \/ p.stage \in {"sent", "read"} => Left(p) = p
BY SentinelAssumption DEF Left

\* One save changes; the others, and what their pages wait for, stay.
LEMMA SetOne ==
  ASSUME TypeOK, NEW s \in Slots, saves[s] # None, NEW p \in Save,
         p.tab = saves[s].tab, p.waits => saves[s].waits, Set(s, p)
  PROVE  /\ saves' \in [Slots -> {None} \cup Save]
         /\ saves'[s] \in {None, p} /\ (p.waits => saves'[s] = p)
         /\ \A r \in Slots \ {s} : saves'[r] = saves[r]
         /\ p.waits = saves[s].waits => \A t : Waiting(t)' = Waiting(t)
         /\ ~p.waits => \A t : Waiting(t)' = Waiting(t) \ {s}
         /\ Pending' = IF p.stage \in {"sent", "read"} THEN Pending \cup {s} ELSE Pending \ {s}
<1>1. saves \in [Slots -> {None} \cup Save] /\ saves' = [saves EXCEPT ![s] = Left(p)]
  BY DEF TypeOK, Set
<1>2. /\ p # None /\ Left(p) \in {None, p} /\ p.waits \in BOOLEAN
      /\ p.waits \/ p.stage \in {"sent", "read"} => Left(p) = p
  BY LeftIsOver DEF Save
<1>3. /\ saves' \in [Slots -> {None} \cup Save]
      /\ saves'[s] = Left(p)
      /\ \A r \in Slots \ {s} : saves'[r] = saves[r]
  BY <1>1, <1>2
<1>4. \A t, r : r \in Waiting(t)' <=> IF r = s THEN p.tab = t /\ p.waits ELSE r \in Waiting(t)
  BY <1>2, <1>3 DEF Waiting
<1>5. \A t : s \in Waiting(t) <=> p.tab = t /\ saves[s].waits
  BY DEF Waiting
<1>6. p.waits = saves[s].waits => \A t : Waiting(t)' = Waiting(t)
  BY <1>4, <1>5
<1>7. ~p.waits => \A t : Waiting(t)' = Waiting(t) \ {s}
  BY <1>4, <1>5
<1>8. \A r : r \in Pending' <=> IF r = s THEN p.stage \in {"sent", "read"} ELSE r \in Pending
  BY <1>2, <1>3 DEF Pending
<1>9. Pending' = IF p.stage \in {"sent", "read"} THEN Pending \cup {s} ELSE Pending \ {s}
  BY <1>8
<1>. QED BY <1>2, <1>3, <1>6, <1>7, <1>9

\* A new save takes a free slot, and its page waits for it.
LEMMA StartOne ==
  ASSUME IInv, NEW t \in Tabs, NEW what \in Machines \cup Cards,
         NEW prev \in Copy, Good(prev), NEW next \in Prefs,
         next.shown \ {what} = prev.prefs.shown \ {what},
         next.hidden \ {what} = prev.prefs.hidden \ {what},
         Start(t, what, prev, next), UNCHANGED server
  PROVE  /\ saves' \in [Slots -> {None} \cup Save] /\ made' \in 0..MaxSaves
         /\ copy' = [copy EXCEPT ![t] = [prefs |-> next, of |-> Edited]]
         /\ copy'[t] \in Copy /\ Good(copy[t])'
         /\ saving' = [saving EXCEPT ![t] = TRUE]
         /\ \A u \in Tabs \ {t} : Waiting(u)' = Waiting(u)
         /\ \A r \in Slots : saves[r] # None => saves'[r] = saves[r]
         /\ \E s \in Slots :
              /\ Waiting(t)' = Waiting(t) \cup {s} /\ saves'[s].prev = prev
              /\ saves'[s].stage = "sent"
         /\ Counted' /\ GoodSaves'
<1>. DEFINE new == [tab |-> t, what |-> what, next |-> next, prev |-> prev,
                    stage |-> "sent", waits |-> TRUE, read |-> None, saved |-> None]
<1>1. PICK s \in Slots : saves[s] = None /\ saves' = [saves EXCEPT ![s] = new]
  BY DEF Start
<1>2. new \in Save /\ new # None
  <2>1. new \in Save
    BY DEF Save
  <2>. QED BY <2>1, SentinelAssumption
<1>3. saves \in [Slots -> {None} \cup Save] /\ made \in 0..MaxSaves /\ changes \in 0..MaxSaves
  BY DEF IInv, TypeOK
<1>4. /\ saves' \in [Slots -> {None} \cup Save] /\ saves'[s] = new
      /\ \A r \in Slots \ {s} : saves'[r] = saves[r]
  BY <1>1, <1>2, <1>3
<1>5. made' = made + 1 /\ made' \in 0..MaxSaves
  BY <1>3, Bounds DEF Start
<1>6. /\ copy' = [copy EXCEPT ![t] = [prefs |-> next, of |-> Edited]]
      /\ saving' = [saving EXCEPT ![t] = TRUE]
      /\ copy'[t] = [prefs |-> next, of |-> Edited]
  BY DEF Start, IInv, TypeOK
<1>7. copy'[t] \in Copy /\ Good(copy[t])'
  BY <1>3, <1>6, Bounds DEF Copy, Good, server
<1>8. \A u \in Tabs \ {t} : Waiting(u)' = Waiting(u)
  BY <1>1, <1>4 DEF Waiting
<1>9. Waiting(t)' = Waiting(t) \cup {s}
  BY <1>1, <1>2, <1>4 DEF Waiting
<1>10. Pending' = Pending \cup {s} /\ s \notin Pending
  BY <1>1, <1>2, <1>4 DEF Pending
<1>11. Counted'
  <2>1. Cardinality(Pending') = Cardinality(Pending) + 1
    BY <1>10, PendingFinite, FS_AddElement
  <2>. QED BY <2>1, <1>3, <1>5, PendingFinite DEF Counted, IInv, server
<1>12. GoodSaves'
  <2>1. \A c : Good(c)' <=> Good(c)
    BY DEF Good, Stored, server
  <2>2. \A r \in Slots \ {s} : saves'[r] # None => GoodSave(saves[r])'
    BY <1>4, <2>1 DEF IInv, GoodSaves, GoodSave, server
  <2>3. GoodSave(new)'
    BY <2>1 DEF GoodSave, OnlyWhat
  <2>. QED BY <1>4, <2>2, <2>3 DEF GoodSaves
<1>. QED BY <1>1, <1>4, <1>5, <1>6, <1>7, <1>8, <1>9, <1>11, <1>12

-----------------------------------------------------------------------------
(* saveDisplayPrefs *)

\* A page that is current and saves what it shows waits for that save only.
LEMMA StartStep ==
  ASSUME IInv, NEW t \in open, NEW what \in Machines \cup Cards,
         NEW prev \in Copy, Good(prev), NEW next \in Prefs,
         next.shown \ {what} = prev.prefs.shown \ {what},
         next.hidden \ {what} = prev.prefs.hidden \ {what},
         Start(t, what, prev, next), UNCHANGED <<server, open, get>>,
         del' \in [HostTabs -> [Machines -> {None} \cup Copy]],
         \A u \in HostTabs, m \in Machines : del'[u][m] \in {None, del[u][m]},
         excused' \in {excused, excused \cup {t}},
         t \notin excused' => get[t] = None /\ Waiting(t) = {} /\ prev = copy[t]
  PROVE  IInv'
<1>1. t \in Tabs /\ open \subseteq Tabs
  BY DEF IInv, TypeOK
<1>2. /\ saves' \in [Slots -> {None} \cup Save] /\ made' \in 0..MaxSaves
      /\ copy' = [copy EXCEPT ![t] = [prefs |-> next, of |-> Edited]]
      /\ copy'[t] \in Copy /\ Good(copy[t])'
      /\ saving' = [saving EXCEPT ![t] = TRUE]
      /\ \A u \in Tabs \ {t} : Waiting(u)' = Waiting(u)
      /\ \A r \in Slots : saves[r] # None => saves'[r] = saves[r]
      /\ Counted' /\ GoodSaves'
  BY <1>1, StartOne
<1>3. PICK s \in Slots : /\ Waiting(t)' = Waiting(t) \cup {s} /\ saves'[s].prev = prev
                         /\ saves'[s].stage = "sent"
  BY <1>1, StartOne
<1>4. TypeOK'
  BY <1>1, <1>2 DEF IInv, TypeOK, server
<1>5. GoodCopies'
  <2>1. \A c : Good(c)' <=> Good(c)
    BY DEF Good, Stored, server
  <2>2. \A u \in Tabs : Good(copy[u])'
    BY <1>2, <2>1 DEF IInv, GoodCopies, TypeOK
  <2>3. \A u \in Tabs : get'[u] \notin {None, Asked} => Good(get[u])'
    BY <2>1 DEF IInv, GoodCopies
  <2>4. \A u \in HostTabs, m \in Machines : del'[u][m] # None => Good(del[u][m])'
    BY <2>1 DEF IInv, GoodCopies
  <2>. QED BY <2>2, <2>3, <2>4 DEF GoodCopies
<1>6. \A u \in Tabs \ open' : Closed(u)'
  BY <1>2 DEF IInv, Pages, Closed, TypeOK
<1>7. \A u \in open' \ excused' : Current(u)'
  <2>1. CASE t \notin excused'
    <3>1. /\ get[t] = None /\ Waiting(t)' = {s} /\ saving'[t]
          /\ prev.of = changes
      BY <1>1, <1>2, <1>3, <2>1 DEF IInv, TypeOK, Pages, Current
    <3>2. Current(t)'
      BY <1>3, <3>1 DEF Current, Fresh, server
    <3>3. \A u \in (open \ excused) \ {t} : Current(u)'
      <4>. SUFFICES ASSUME NEW u \in (open \ excused) \ {t} PROVE Current(u)'
        OBVIOUS
      <4>1. Current(u) /\ u \in Tabs \ {t}
        BY <1>1 DEF IInv, Pages
      <4>2. \A r \in Waiting(u) : saves'[r] = saves[r]
        BY <1>2 DEF Waiting
      <4>. QED BY <1>1, <1>2, <4>1, <4>2 DEF IInv, TypeOK, Current, Fresh, server
    <3>. QED BY <3>2, <3>3
  <2>2. CASE t \in excused'
    <3>. SUFFICES ASSUME NEW u \in (open \ excused) \ {t} PROVE Current(u)'
      BY <2>2
    <3>1. Current(u) /\ u \in Tabs \ {t}
      BY <1>1 DEF IInv, Pages
    <3>2. \A r \in Waiting(u) : saves'[r] = saves[r]
      BY <1>2 DEF Waiting
    <3>. QED BY <1>1, <1>2, <3>1, <3>2 DEF IInv, TypeOK, Current, Fresh, server
  <2>. QED BY <2>1, <2>2
<1>8. DisabledForASave'
  BY <1>1, <1>2, <1>3 DEF IInv, DisabledForASave, TypeOK
<1>. QED BY <1>2, <1>4, <1>5, <1>6, <1>7, <1>8 DEF IInv, Pages

\* A switch thrown changes what it stands for.
LEMMA EditStep ==
  ASSUME IInv, NEW t \in Tabs, NEW what \in Machines \cup Cards, NEW next \in Prefs,
         next.shown \ {what} = copy[t].prefs.shown \ {what},
         next.hidden \ {what} = copy[t].prefs.hidden \ {what},
         Edit(t, what, next)
  PROVE  IInv'
<1>1. t \in open /\ copy[t] \in Copy /\ Good(copy[t])
  BY DEF Edit, IInv, TypeOK, GoodCopies
<1>2. t \notin excused' => get[t] = None /\ Waiting(t) = {}
  BY <1>1 DEF Edit, IInv, Pages, Current
<1>. QED
  BY <1>1, <1>2, StartStep DEF Edit, IInv, TypeOK

LEMMA ToggleAgentHiddenStep ==
  ASSUME IInv, NEW t \in Tabs, NEW m \in Machines, ToggleAgentHidden(t, m) PROVE IInv'
<1>. DEFINE next == [copy[t].prefs EXCEPT !.hidden = Flip(@, m)]
<1>1. copy[t].prefs \in Prefs
  BY DEF IInv, TypeOK, Copy
<1>2. /\ next \in Prefs /\ next.shown = copy[t].prefs.shown
      /\ next.hidden \ {m} = copy[t].prefs.hidden \ {m}
  BY <1>1 DEF Prefs, Flip
<1>3. Edit(t, m, next)
  BY DEF ToggleAgentHidden
<1>. QED BY <1>2, <1>3, EditStep

LEMMA ToggleCardsStep ==
  ASSUME IInv, NEW t \in Tabs, NEW c \in Cards, ToggleCards(t, c) PROVE IInv'
<1>. DEFINE next == [copy[t].prefs EXCEPT !.shown = Flip(@, c)]
<1>1. copy[t].prefs \in Prefs
  BY DEF IInv, TypeOK, Copy
<1>2. /\ next \in Prefs /\ next.hidden = copy[t].prefs.hidden
      /\ next.shown \ {c} = copy[t].prefs.shown \ {c}
  BY <1>1 DEF Prefs, Flip
<1>3. Edit(t, c, next)
  BY DEF ToggleCards
<1>. QED BY <1>2, <1>3, EditStep

LEMMA DeletedStep ==
  ASSUME IInv, NEW t \in HostTabs, NEW m \in Machines, Deleted(t, m) PROVE IInv'
<1>. DEFINE old == del[t][m]
            next == [old.prefs EXCEPT !.hidden = @ \ {m}]
<1>1. t \in Tabs /\ t \in open
  BY PrefsAssumption DEF Deleted, IInv, Pages, Closed
<1>2. old \in Copy /\ Good(old)
  BY DEF Deleted, IInv, TypeOK, GoodCopies
<1>3. /\ next \in Prefs /\ next.shown = old.prefs.shown
      /\ next.hidden \ {m} = old.prefs.hidden \ {m}
  BY <1>2 DEF Copy, Prefs
<1>4. del' = [del EXCEPT ![t][m] = None]
  BY DEF Deleted
<1>5. /\ del' \in [HostTabs -> [Machines -> {None} \cup Copy]]
      /\ \A u \in HostTabs, n \in Machines : del'[u][n] \in {None, del[u][n]}
  BY <1>4 DEF IInv, TypeOK
<1>6. CASE m \notin old.prefs.hidden
  BY <1>1, <1>4, <1>6, DeleteSteps DEF Deleted
<1>7. CASE m \in old.prefs.hidden
  <2>1. Start(t, m, old, next) /\ UNCHANGED <<server, open, get>>
    BY <1>7 DEF Deleted
  <2>2. /\ excused' = IF Waiting(t) # {} \/ old # copy[t]
                      THEN excused \cup {t} ELSE excused
    BY <1>7 DEF Deleted
  <2>3. t \notin excused' => get[t] = None /\ Waiting(t) = {} /\ old = copy[t]
    <3>. SUFFICES ASSUME t \notin excused' PROVE get[t] = None
      BY <2>2
    <3>1. t \in open \ excused /\ old = copy[t]
      BY <1>1, <2>2
    <3>2. old # Initially
      BY <1>7 DEF Initially, Default
    <3>. QED BY <3>1, <3>2 DEF IInv, Pages, Current
  <2>. QED BY <1>1, <1>2, <1>3, <1>5, <2>1, <2>2, <2>3, StartStep
<1>. QED BY <1>6, <1>7

LEMMA UnmountStep == ASSUME IInv, NEW t \in Tabs, Unmount(t) PROVE IInv'
<1>1. /\ saves \in [Slots -> {None} \cup Save]
      /\ \A s \in Waiting(t) : saves[s] \in Save
  BY DEF IInv, TypeOK, Waiting
<1>2. \A s \in Slots \ Waiting(t) : saves'[s] = saves[s]
  BY DEF Unmount
<1>. DEFINE off(s) == [saves[s] EXCEPT !.waits = FALSE]
<1>3. \A s \in Waiting(t) : saves'[s] = Left(off(s))
  BY DEF Unmount, Waiting
<1>4. \A s \in Waiting(t) :
        /\ off(s) \in Save /\ off(s).tab = t /\ ~off(s).waits
        /\ off(s).stage = saves[s].stage /\ off(s).prev = saves[s].prev
        /\ off(s).saved = saves[s].saved /\ off(s).read = saves[s].read
        /\ off(s).what = saves[s].what /\ off(s).next = saves[s].next
  BY <1>1 DEF Save, Waiting
<1>. HIDE DEF off
<1>5. \A s \in Waiting(t) :
        /\ off(s) # None /\ saves'[s] \in {None, off(s)}
        /\ saves[s].stage \in {"sent", "read"} => saves'[s] = off(s)
  BY <1>3, <1>4, LeftIsOver
<1>6. saves' \in [Slots -> {None} \cup Save]
  BY <1>1, <1>2, <1>4, <1>5 DEF Unmount
<1>7. Waiting(t)' = {}
  BY <1>2, <1>4, <1>5 DEF Waiting
<1>8. \A u \in Tabs \ {t} : Waiting(u)' = Waiting(u)
  BY <1>2, <1>4, <1>5 DEF Waiting
<1>9. Pending' = Pending
  <2>1. \A s \in Slots \ Waiting(t) : s \in Pending' <=> s \in Pending
    BY <1>2 DEF Pending
  <2>2. \A s \in Waiting(t) : s \in Pending' <=> s \in Pending
    BY <1>4, <1>5 DEF Pending, Waiting
  <2>. QED BY <2>1, <2>2 DEF Pending
<1>10. \A c : Good(c)' <=> Good(c)
  BY DEF Good, Stored, Unmount, server
<1>11. Counted'
  BY <1>9 DEF IInv, Counted, Unmount, server
<1>12. TypeOK'
  BY <1>6, DefaultIsPrefs DEF Unmount, IInv, TypeOK, server
<1>13. GoodCopies'
  <2>2. \A u \in Tabs : Good(copy[u])'
    <3>. SUFFICES ASSUME NEW u \in Tabs PROVE Good(copy[u])'
      OBVIOUS
    <3>1. CASE u = t
      <4>1. copy'[u] = Initially /\ changes' \in 0..MaxSaves
        BY <3>1, <1>12 DEF Unmount, IInv, TypeOK
      <4>. QED BY <4>1, Bounds DEF Good, Initially
    <3>2. CASE u # t
      BY <3>2, <1>10 DEF Unmount, IInv, TypeOK, GoodCopies
    <3>. QED BY <3>1, <3>2
  <2>3. \A u \in Tabs : get'[u] \notin {None, Asked} => Good(get[u])'
    BY <1>10 DEF Unmount, IInv, TypeOK, GoodCopies
  <2>4. \A u \in HostTabs, m \in Machines : del'[u][m] # None => Good(del[u][m])'
    BY <1>10 DEF Unmount, IInv, TypeOK, GoodCopies
  <2>. QED BY <2>2, <2>3, <2>4 DEF GoodCopies
<1>14. GoodSaves'
  <2>1. \A s \in Slots \ Waiting(t) : saves'[s] # None => GoodSave(saves[s])'
    BY <1>2, <1>10 DEF IInv, GoodSaves, GoodSave, Unmount, server
  <2>2. \A s \in Waiting(t) : saves'[s] # None => GoodSave(saves[s])'
    <3>. SUFFICES ASSUME NEW s \in Waiting(t), saves'[s] # None PROVE GoodSave(saves[s])'
      OBVIOUS
    <3>1. GoodSave(saves[s])
      BY DEF IInv, GoodSaves, Waiting
    <3>2. GoodSave(off(s)) /\ saves'[s] = off(s)
      BY <1>4, <1>5, <3>1 DEF GoodSave, OnlyWhat
    <3>. QED BY <1>10, <3>2 DEF GoodSave, Unmount, server
  <2>. QED BY <2>1, <2>2 DEF GoodSaves
<1>15. \A u \in Tabs \ open' : Closed(u)'
  <2>1. Closed(t)'
    BY <1>7 DEF Unmount, IInv, TypeOK, Closed
  <2>2. \A u \in (Tabs \ open) \ {t} : Closed(u)'
    BY <1>8 DEF Unmount, IInv, TypeOK, Pages, Closed
  <2>. QED BY <2>1, <2>2 DEF Unmount
<1>16. \A u \in open' \ excused' : Current(u)'
  <2>. SUFFICES ASSUME NEW u \in (open \ excused) \ {t} PROVE Current(u)'
    BY DEF Unmount
  <2>1. Current(u) /\ u \in Tabs \ {t}
    BY DEF IInv, Pages, TypeOK
  <2>2. \A s \in Waiting(u) : saves'[s] = saves[s]
    BY <1>2, <2>1 DEF Waiting
  <2>3. copy'[u] = copy[u] /\ get'[u] = get[u] /\ saving'[u] = saving[u]
    BY <2>1 DEF Unmount, IInv, TypeOK
  <2>4. \A s \in Waiting(u) : Fresh(saves[s])'
    BY <2>1, <2>2 DEF Current, Fresh, Unmount, server
  <2>. QED BY <1>8, <2>1, <2>3, <2>4 DEF Current, Unmount, server
<1>17. DisabledForASave'
  BY <1>8 DEF Unmount, IInv, TypeOK, DisabledForASave
<1>. QED BY <1>11, <1>12, <1>13, <1>14, <1>15, <1>16, <1>17 DEF IInv, Pages

-----------------------------------------------------------------------------
(* update_machines_display_prefs *)

\* What the server learns or decides about a save, while the row stays.
LEMMA ServerStep ==
  ASSUME IInv, NEW s \in Slots, saves[s] # None, NEW p \in Save,
         p.tab = saves[s].tab, p.waits = saves[s].waits, Set(s, p),
         GoodSave(p), Fresh(saves[s]) => Fresh(p),
         p.stage \in {"sent", "read"} => saves[s].stage \in {"sent", "read"},
         UNCHANGED <<server, page, excused>>
  PROVE  IInv'
<1>1. TypeOK /\ made' = made
  BY DEF IInv, Set
<1>2. /\ saves' \in [Slots -> {None} \cup Save]
      /\ saves'[s] \in {None, p} /\ (p.waits => saves'[s] = p)
      /\ \A r \in Slots \ {s} : saves'[r] = saves[r]
      /\ \A t : Waiting(t)' = Waiting(t)
      /\ Pending' = IF p.stage \in {"sent", "read"} THEN Pending \cup {s} ELSE Pending \ {s}
  BY <1>1, SetOne
<1>3. Pending' \subseteq Pending
  BY <1>2 DEF Pending
<1>4. Counted'
  <2>1. Cardinality(Pending') \in Nat /\ Cardinality(Pending') <= Cardinality(Pending)
    BY <1>3, PendingFinite, FS_Subset, FS_CardinalityType
  <2>. QED BY <1>1, <2>1, PendingFinite DEF IInv, Counted, TypeOK, server
<1>5. TypeOK'
  BY <1>1, <1>2 DEF TypeOK, server, page
<1>6. \A c : Good(c)' <=> Good(c)
  BY DEF Good, Stored, server
<1>7. GoodCopies'
  BY <1>6 DEF IInv, GoodCopies, page
<1>8. GoodSaves'
  <2>1. \A r \in Slots : saves'[r] # None => GoodSave(saves'[r])
    BY <1>2 DEF IInv, GoodSaves
  <2>. QED BY <1>6, <2>1 DEF GoodSaves, GoodSave, server
<1>9. \A t \in Tabs \ open' : Closed(t)'
  BY <1>2 DEF IInv, Pages, Closed, page
<1>10. \A t \in open' \ excused' : Current(t)'
  <2>. SUFFICES ASSUME NEW t \in open \ excused PROVE Current(t)'
    BY DEF page
  <2>1. Current(t)
    BY DEF IInv, Pages
  <2>2. \A r \in Waiting(t) : saves'[r] = IF r = s THEN p ELSE saves[r]
    <3>1. s \in Waiting(t) => p.waits
      BY DEF Waiting
    <3>2. Waiting(t) \subseteq Slots
      BY DEF Waiting
    <3>. QED BY <1>2, <3>1, <3>2
  <2>3. \A r \in Waiting(t) : Fresh(saves'[r])
    BY <2>1, <2>2 DEF Current
  <2>4. \A r \in Waiting(t) : Fresh(saves[r])'
    BY <2>3 DEF Fresh, server
  <2>. QED BY <1>2, <2>1, <2>4 DEF Current, page, server
<1>11. DisabledForASave'
  BY <1>2 DEF IInv, DisabledForASave, page
<1>. QED BY <1>4, <1>5, <1>7, <1>8, <1>9, <1>10, <1>11 DEF IInv, Pages

LEMMA ReadStep == ASSUME IInv, NEW s \in Slots, Read(s) PROVE IInv'
<1>. DEFINE p == [saves[s] EXCEPT !.stage = "read", !.read = row]
<1>1. saves[s] # None /\ saves[s] \in Save /\ saves[s].stage = "sent" /\ row \in Prefs \cup {None}
  BY DEF Read, At, IInv, TypeOK
<1>2. GoodSave(saves[s])
  BY <1>1 DEF IInv, GoodSaves
<1>3. p \in Save
  BY <1>1, SaveFields
<1>4. /\ p.tab = saves[s].tab /\ p.waits = saves[s].waits /\ p.stage = "read"
      /\ p.prev = saves[s].prev /\ p.saved = saves[s].saved /\ p.read = row
      /\ p.what = saves[s].what /\ p.next = saves[s].next
  BY <1>1 DEF Save
<1>5. Set(s, p) /\ UNCHANGED <<server, page, excused>>
  BY DEF Read
<1>. HIDE DEF p
<1>6. GoodSave(p) /\ (Fresh(saves[s]) => Fresh(p))
  BY <1>1, <1>2, <1>4 DEF GoodSave, OnlyWhat, Fresh
<1>. QED BY <1>1, <1>3, <1>4, <1>5, <1>6, ServerStep

LEMMA RefreshStep == ASSUME IInv, NEW s \in Slots, Refresh(s) PROVE IInv'
<1>. DEFINE now == [prefs |-> row, of |-> changes]
            p == [saves[s] EXCEPT !.stage = "answered", !.saved = now]
<1>1. saves[s] # None /\ saves[s] \in Save /\ saves[s].stage = "stored" /\ row \in Prefs \cup {None}
  BY DEF Refresh, At, IInv, TypeOK
<1>2. GoodSave(saves[s])
  BY <1>1 DEF IInv, GoodSaves
<1>3. now \in Copy /\ now # None /\ Good(now)
  <2>1. row \in Prefs /\ row # None
    BY <1>1, <1>2 DEF GoodSave
  <2>2. now \in Copy
    BY <2>1, Bounds DEF IInv, TypeOK, Copy
  <2>. QED BY <2>1, <2>2, CopiesAreNotMarks DEF Good, Stored, IInv, TypeOK
<1>4. p \in Save
  BY <1>1, <1>3, SaveFields
<1>5. /\ p.tab = saves[s].tab /\ p.waits = saves[s].waits /\ p.stage = "answered"
      /\ p.prev = saves[s].prev /\ p.saved = now /\ p.read = saves[s].read
      /\ p.what = saves[s].what /\ p.next = saves[s].next
  BY <1>1 DEF Save
<1>6. Set(s, p) /\ UNCHANGED <<server, page, excused>>
  BY DEF Refresh
<1>7. now.of = changes
  OBVIOUS
<1>. HIDE DEF p, now
<1>8. GoodSave(p) /\ Fresh(p)
  BY <1>1, <1>2, <1>3, <1>5, <1>7 DEF GoodSave, OnlyWhat, Fresh
<1>. QED BY <1>1, <1>4, <1>5, <1>6, <1>8, ServerStep

LEMMA ServerFailsStep == ASSUME IInv, NEW s \in Slots, ServerFails(s) PROVE IInv'
<1>. DEFINE p == [saves[s] EXCEPT !.stage = "failed"]
<1>1. saves[s] # None /\ saves[s] \in Save /\ saves[s].stage \in {"sent", "read"}
  BY DEF ServerFails, At, IInv, TypeOK
<1>2. GoodSave(saves[s])
  BY <1>1 DEF IInv, GoodSaves
<1>3. p \in Save
  BY <1>1, SaveFields
<1>4. /\ p.tab = saves[s].tab /\ p.waits = saves[s].waits /\ p.stage = "failed"
      /\ p.prev = saves[s].prev /\ p.saved = saves[s].saved /\ p.read = saves[s].read
      /\ p.what = saves[s].what /\ p.next = saves[s].next
  BY <1>1 DEF Save
<1>5. Set(s, p) /\ UNCHANGED <<server, page, excused>>
  BY DEF ServerFails
<1>. HIDE DEF p
<1>6. GoodSave(p) /\ (Fresh(saves[s]) => Fresh(p))
  BY <1>1, <1>2, <1>4 DEF GoodSave, OnlyWhat, Fresh
<1>. QED BY <1>1, <1>3, <1>4, <1>5, <1>6, ServerStep

\* A change of the row leaves every copy behind, and is the last one's own.
LEMMA StoreMoves ==
  ASSUME IInv, NEW s \in Slots, Store(s)
  PROVE  /\ saves[s] # None /\ saves[s] \in Save /\ saves[s].stage = "read" /\ GoodSave(saves[s])
         /\ row' \in Prefs \cup {None} /\ (row # None => row' # None)
         /\ changes' = IF row' = row THEN changes ELSE changes + 1
         /\ UNCHANGED page
         /\ \E x \in {"failed", "stored"} :
              /\ Set(s, [saves[s] EXCEPT !.stage = x])
              /\ x = "stored" => row' # None
              /\ row' # row => x = "stored"
<1>. DEFINE p == saves[s]
<1>1. p # None /\ p \in Save /\ p.stage = "read" /\ row \in Prefs \cup {None}
  BY DEF Store, At, IInv, TypeOK
<1>2. GoodSave(p)
  BY <1>1 DEF IInv, GoodSaves
<1>3. p.next \in Prefs /\ p.read \in Prefs \cup {None}
  BY <1>1 DEF Save
<1>4. row \in Prefs /\ p.read \in Prefs => Merge(p.next, p.read, row) \in Prefs
  BY <1>3 DEF Merge, Column, Prefs
<1>5. None \notin Prefs
  BY SentinelAssumption
<1>6. changes' = (IF row' = row THEN changes ELSE changes + 1) /\ UNCHANGED page
  BY DEF Store
<1>7. CASE /\ p.read = None /\ row # None
           /\ Set(s, [p EXCEPT !.stage = "failed"]) /\ UNCHANGED row
  BY <1>1, <1>2, <1>6, <1>7
<1>8. CASE /\ p.read = None /\ row = None
           /\ row' = p.next /\ Set(s, [p EXCEPT !.stage = "stored"])
  BY <1>1, <1>2, <1>3, <1>5, <1>6, <1>8
<1>9. CASE /\ p.read # None /\ row' = Merge(p.next, p.read, row)
           /\ Set(s, [p EXCEPT !.stage = "stored"])
  <2>1. row # None /\ row \in Prefs /\ p.read \in Prefs
    BY <1>1, <1>2, <1>3, <1>9 DEF GoodSave
  <2>2. row' \in Prefs /\ row' # None
    BY <1>4, <1>5, <1>9, <2>1
  <2>. QED BY <1>1, <1>2, <1>6, <1>9, <2>2
<1>. QED BY <1>7, <1>8, <1>9 DEF Store

LEMMA StoreStep == ASSUME IInv, NEW s \in Slots, Store(s) PROVE IInv'
<1>1. /\ saves[s] # None /\ saves[s] \in Save /\ saves[s].stage = "read" /\ GoodSave(saves[s])
      /\ row' \in Prefs \cup {None} /\ (row # None => row' # None)
      /\ changes' = IF row' = row THEN changes ELSE changes + 1
      /\ UNCHANGED page
  BY StoreMoves
<1>2. PICK x \in {"failed", "stored"} :
        /\ Set(s, [saves[s] EXCEPT !.stage = x])
        /\ x = "stored" => row' # None
        /\ row' # row => x = "stored"
  BY StoreMoves
<1>. DEFINE q == [saves[s] EXCEPT !.stage = x]
<1>3. q \in Save
  BY <1>1, SaveFields
<1>4. /\ q.tab = saves[s].tab /\ q.waits = saves[s].waits /\ q.stage = x
      /\ q.prev = saves[s].prev /\ q.saved = saves[s].saved /\ q.read = saves[s].read
      /\ q.what = saves[s].what /\ q.next = saves[s].next
  BY <1>1 DEF Save
<1>5. Set(s, q) /\ Outdates(s)
  BY <1>2 DEF Store
<1>. HIDE DEF q
<1>6. CASE row' = row
  <2>1. UNCHANGED <<server, page, excused>>
    BY <1>1, <1>5, <1>6 DEF Outdates, server
  <2>2. GoodSave(q) /\ (Fresh(saves[s]) => Fresh(q))
    BY <1>1, <1>2, <1>4, <1>6 DEF GoodSave, OnlyWhat, Fresh
  <2>. QED BY <1>1, <1>2, <1>3, <1>4, <1>5, <2>1, <2>2, ServerStep
<1>7. CASE row' # row
  <2>1. TypeOK /\ made' = made /\ q.stage = "stored" /\ row' # None
    BY <1>2, <1>4, <1>5, <1>7 DEF IInv, Set
  <2>2. /\ saves' \in [Slots -> {None} \cup Save]
        /\ saves'[s] \in {None, q} /\ (q.waits => saves'[s] = q)
        /\ \A r \in Slots \ {s} : saves'[r] = saves[r]
        /\ \A t : Waiting(t)' = Waiting(t)
        /\ Pending' = Pending \ {s}
    BY <1>1, <1>3, <1>4, <1>5, <2>1, SetOne
  <2>3. changes' = changes + 1 /\ Counted'
    <3>1. s \in Pending
      BY <1>1 DEF Pending
    <3>2. Cardinality(Pending') = Cardinality(Pending) - 1
      BY <2>2, <3>1, PendingFinite, FS_RemoveElement
    <3>. QED BY <1>1, <1>7, <2>1, <3>2, PendingFinite DEF IInv, Counted, TypeOK
  <2>4. changes' \in 0..MaxSaves
    <3>1. IsFiniteSet(Pending') /\ Cardinality(Pending') \in Nat
      BY <2>2, PendingFinite, FS_Subset, FS_CardinalityType
    <3>. QED BY <2>1, <2>3, <3>1, Bounds DEF TypeOK, Counted
  <2>5. TypeOK'
    BY <1>1, <1>5, <2>1, <2>2, <2>4 DEF TypeOK, page, Outdates
  <2>6. \A c \in Copy : Good(c) => Good(c)'
    <3>. SUFFICES ASSUME NEW c \in Copy, Good(c) PROVE Good(c)'
      OBVIOUS
    <3>1. c.of \in Nat /\ changes \in Nat /\ Unread # changes' /\ Edited # changes'
      BY <2>1, <2>4, Bounds DEF Copy, TypeOK
    <3>. QED BY <2>3, <3>1 DEF Good
  <2>7. GoodCopies'
    BY <1>1, <2>1, <2>6 DEF IInv, GoodCopies, TypeOK, page
  <2>8. GoodSaves'
    <3>. SUFFICES ASSUME NEW r \in Slots, saves'[r] # None PROVE GoodSave(saves[r])'
      BY DEF GoodSaves
    <3>1. saves'[r] \in Save /\ GoodSave(saves[s])
      BY <1>1, <2>2
    <3>2. saves[r] # None /\ GoodSave(saves[r])
          /\ saves'[r].prev = saves[r].prev /\ saves'[r].saved = saves[r].saved
          /\ saves'[r].what = saves[r].what /\ saves'[r].next = saves[r].next
          /\ (saves'[r].stage = "answered" => saves[r].stage = "answered")
      BY <1>1, <1>4, <2>1, <2>2 DEF IInv, GoodSaves
    <3>3. saves[r] \in Save
      BY <2>1, <3>2 DEF TypeOK
    <3>4. saves[r].prev \in Copy /\ (saves[r].saved # None => saves[r].saved \in Copy)
      BY <3>3 DEF Save
    <3>5. Good(saves[r].prev) /\ (saves[r].saved # None => Good(saves[r].saved))
      BY <3>2 DEF GoodSave
    <3>. QED BY <2>1, <2>6, <3>2, <3>4, <3>5 DEF GoodSave, OnlyWhat
  <2>9. \A t \in Tabs \ open' : Closed(t)'
    BY <1>1, <2>2 DEF IInv, Pages, Closed, page
  <2>10. \A t \in open' \ excused' : Current(t)'
    <3>. SUFFICES ASSUME NEW t \in open, t \notin excused' PROVE Current(t)'
      BY <1>1 DEF page
    <3>1. t \in open \ excused /\ s \in Waiting(t)
      BY <1>5, <1>7 DEF Outdates
    <3>2. Current(t) /\ Waiting(t) = {s} /\ saves[s].waits
      BY <3>1 DEF IInv, Pages, Current, Waiting
    <3>3. saves'[s] = q /\ q.stage = "stored"
      BY <1>4, <2>1, <2>2, <3>2
    <3>4. Fresh(saves[s])'
      BY <3>3 DEF Fresh
    <3>. QED BY <1>1, <2>2, <3>2, <3>4 DEF Current, page
  <2>11. DisabledForASave'
    BY <1>1, <2>2 DEF IInv, DisabledForASave, page
  <2>. QED BY <2>3, <2>5, <2>7, <2>8, <2>9, <2>10, <2>11 DEF IInv, Pages
<1>. QED BY <1>6, <1>7

-----------------------------------------------------------------------------
(* The answer reaches saveDisplayPrefs *)

\* The page goes on with one of the two copies the save has, and waits no more.
LEMMA OverStep ==
  ASSUME IInv, NEW s \in Slots, saves[s] # None, saves[s].waits,
         NEW c \in Copy, Good(c),
         copy' = [copy EXCEPT ![saves[s].tab] = c],
         saving' = [saving EXCEPT ![saves[s].tab] = FALSE],
         Set(s, [saves[s] EXCEPT !.waits = FALSE]),
         excused' \in {excused, excused \cup {saves[s].tab}},
         saves[s].tab \notin excused' /\ Fresh(saves[s]) => c.of = changes,
         UNCHANGED <<server, open, get, del>>
  PROVE  IInv'
<1>. DEFINE q == [saves[s] EXCEPT !.waits = FALSE]
            t == saves[s].tab
<1>1. TypeOK /\ made' = made /\ saves[s] \in Save /\ GoodSave(saves[s])
  BY DEF IInv, TypeOK, GoodSaves, Set
<1>2. q \in Save
  BY <1>1, SaveFields
<1>3. /\ q.tab = t /\ ~q.waits /\ q.stage = saves[s].stage
      /\ q.prev = saves[s].prev /\ q.saved = saves[s].saved /\ q.read = saves[s].read
      /\ q.what = saves[s].what /\ q.next = saves[s].next
  BY <1>1 DEF Save
<1>4. Set(s, q) /\ t \in Tabs
  BY <1>1 DEF Save
<1>. HIDE DEF q
<1>5. /\ saves' \in [Slots -> {None} \cup Save]
      /\ saves'[s] \in {None, q}
      /\ \A r \in Slots \ {s} : saves'[r] = saves[r]
      /\ \A u : Waiting(u)' = Waiting(u) \ {s}
      /\ Pending' = IF q.stage \in {"sent", "read"} THEN Pending \cup {s} ELSE Pending \ {s}
  BY <1>1, <1>2, <1>3, <1>4, SetOne
<1>6. Pending' = Pending
  BY <1>1, <1>3, <1>5 DEF Pending
<1>7. Counted'
  BY <1>1, <1>6 DEF IInv, Counted, server
<1>8. s \in Waiting(t) /\ t \in open
  BY <1>4 DEF Waiting, IInv, Pages, Closed
<1>9. TypeOK'
  BY <1>1, <1>4, <1>5 DEF TypeOK, server
<1>10. \A d : Good(d)' <=> Good(d)
  BY DEF Good, Stored, server
<1>11. GoodCopies'
  BY <1>1, <1>4, <1>10 DEF IInv, GoodCopies, TypeOK
<1>12. GoodSaves'
  <2>1. GoodSave(q)
    BY <1>1, <1>3 DEF GoodSave, OnlyWhat
  <2>2. \A r \in Slots : saves'[r] # None => GoodSave(saves'[r])
    BY <1>5, <2>1 DEF IInv, GoodSaves
  <2>. QED BY <1>10, <2>2 DEF GoodSaves, GoodSave, server
<1>13. \A u \in Tabs \ {t} : s \notin Waiting(u)
  BY DEF Waiting
<1>14. \A u \in Tabs \ open' : Closed(u)'
  BY <1>1, <1>5, <1>8 DEF IInv, Pages, Closed, TypeOK
<1>15. \A u \in open' \ excused' : Current(u)'
  <2>. SUFFICES ASSUME NEW u \in open, u \notin excused' PROVE Current(u)'
    OBVIOUS
  <2>1. Current(u) /\ u \in Tabs
    BY <1>1 DEF IInv, Pages, TypeOK
  <2>2. CASE u = t
    <3>1. Waiting(u) = {s} /\ Fresh(saves[s])
      BY <1>8, <2>1, <2>2 DEF Current
    <3>2. Waiting(u)' = {}
      BY <1>5, <3>1
    <3>3. get[u] = None /\ c.of = changes /\ copy'[u] = c
      BY <1>1, <2>1, <2>2, <3>1 DEF Current, TypeOK
    <3>. QED BY <3>2, <3>3 DEF Current, server
  <2>3. CASE u # t
    <3>1. Waiting(u)' = Waiting(u) /\ s \notin Waiting(u)
      BY <1>5, <1>13, <2>1, <2>3
    <3>2. \A r \in Waiting(u) : saves'[r] = saves[r]
      BY <1>5, <3>1 DEF Waiting
    <3>3. copy'[u] = copy[u] /\ saving'[u] = saving[u]
      BY <1>1, <2>1, <2>3 DEF TypeOK
    <3>. QED BY <2>1, <3>1, <3>2, <3>3 DEF Current, Fresh, server
  <2>. QED BY <2>2, <2>3
<1>16. DisabledForASave'
  BY <1>1, <1>4, <1>5, <1>13 DEF IInv, DisabledForASave, TypeOK
<1>. QED BY <1>7, <1>9, <1>11, <1>12, <1>14, <1>15, <1>16 DEF IInv, Pages

LEMMA AnsweredStep == ASSUME IInv, NEW s \in Slots, Answered(s) PROVE IInv'
<1>1. saves[s] # None /\ saves[s] \in Save /\ saves[s].stage = "answered" /\ GoodSave(saves[s])
  BY DEF Answered, At, IInv, TypeOK, GoodSaves
<1>2. saves[s].saved \in Copy /\ Good(saves[s].saved)
  BY <1>1 DEF Save, GoodSave
<1>. QED BY <1>1, <1>2, OverStep DEF Answered, Fresh

LEMMA FailedStep == ASSUME IInv, NEW s \in Slots, Failed(s) PROVE IInv'
<1>1. saves[s] # None /\ saves[s] \in Save /\ GoodSave(saves[s])
  BY DEF Failed, IInv, TypeOK, GoodSaves
<1>2. saves[s].prev \in Copy /\ Good(saves[s].prev)
  BY <1>1 DEF Save, GoodSave
<1>3. /\ excused' \in {excused, excused \cup {saves[s].tab}}
      /\ saves[s].tab \notin excused' => saves[s].stage = "failed"
  BY DEF Failed, At
<1>. QED BY <1>1, <1>2, <1>3, OverStep DEF Failed, Fresh

-----------------------------------------------------------------------------
(* The theorems *)

LEMMA InitInv == Init => IInv
<1>. SUFFICES ASSUME Init PROVE IInv
  OBVIOUS
<1>1. \A s \in Slots : saves[s] = None
  BY DEF Init
<1>2. \A t \in Tabs : Waiting(t) = {}
  BY <1>1 DEF Waiting
<1>3. Pending = {}
  BY <1>1 DEF Pending
<1>4. row \in Prefs \cup {None} /\ changes \in 0..MaxSaves /\ made \in 0..MaxSaves
  BY Bounds DEF Init, Prefs
<1>5. TypeOK
  BY <1>4, DefaultIsPrefs DEF Init, TypeOK
<1>6. Counted
  BY <1>3, FS_EmptySet DEF Init, Counted
<1>7. Good(Initially)
  BY Bounds DEF Init, Good, Initially
<1>8. GoodCopies
  BY <1>7 DEF Init, GoodCopies
<1>9. GoodSaves /\ DisabledForASave
  BY <1>1 DEF Init, GoodSaves, DisabledForASave
<1>10. Pages
  BY <1>2 DEF Init, Pages, Closed
<1>. QED BY <1>5, <1>6, <1>8, <1>9, <1>10 DEF IInv

LEMMA StepInv == IInv /\ [Next]_vars => IInv'
<1>. SUFFICES ASSUME IInv, [Next]_vars PROVE IInv'
  OBVIOUS
<1>1. ASSUME NEW t \in Tabs, Mount(t) \/ Unmount(t) \/ GetAnswered(t) \/ GetArrives(t) \/ GetFails(t)
      PROVE  IInv'
  BY <1>1, MountStep, UnmountStep, GetAnsweredStep, GetArrivesStep, GetFailsStep
<1>2. ASSUME NEW t \in Tabs, NEW m \in Machines, ToggleAgentHidden(t, m) PROVE IInv'
  BY <1>2, ToggleAgentHiddenStep
<1>3. ASSUME NEW t \in Tabs, NEW c \in Cards, ToggleCards(t, c) PROVE IInv'
  BY <1>3, ToggleCardsStep
<1>4. ASSUME NEW t \in HostTabs, NEW m \in Machines, Delete(t, m) PROVE IInv'
  BY <1>4, DeleteSteps DEF Delete
<1>5. ASSUME NEW t \in HostTabs, NEW m \in Machines, DeleteFails(t, m) PROVE IInv'
  <2>1. t \in open
    BY <1>5, PrefsAssumption DEF DeleteFails, IInv, Pages, Closed
  <2>. QED BY <1>5, <2>1, DeleteSteps DEF DeleteFails
<1>6. ASSUME NEW t \in HostTabs, NEW m \in Machines, Deleted(t, m) PROVE IInv'
  BY <1>6, DeletedStep
<1>7. ASSUME NEW s \in Slots, Read(s) \/ Store(s) \/ Refresh(s) \/ ServerFails(s)
      PROVE  IInv'
  BY <1>7, ReadStep, StoreStep, RefreshStep, ServerFailsStep
<1>8. ASSUME NEW s \in Slots, Answered(s) \/ Failed(s) PROVE IInv'
  BY <1>8, AnsweredStep, FailedStep
<1>9. CASE UNCHANGED vars
  <2>. USE <1>9 DEF vars, server, page, puts
  <2>1. TypeOK' /\ Counted' /\ GoodCopies' /\ GoodSaves' /\ DisabledForASave'
    BY ServerStays DEF IInv, TypeOK, Counted, GoodCopies, GoodSaves, DisabledForASave
  <2>2. Pages'
    BY ServerStays DEF IInv, Pages, Closed, Current
  <2>. QED BY <2>1, <2>2 DEF IInv
<1>. QED BY <1>1, <1>2, <1>3, <1>4, <1>5, <1>6, <1>7, <1>8, <1>9 DEF Next

LEMMA Invariance == Spec => []IInv
BY InitInv, StepInv, PTL DEF Spec

\* What a page shows between two saves is the row, unless one of the reasons
\* StaleForAReason names made it old, and its switches are disabled only while
\* a save it waits for is under way; every variable keeps its type, the number
\* of changes of the row among them.
THEOREM PagesAreCurrentAlways == Spec => []PagesAreCurrent
<1>1. IInv => PagesAreCurrent
  <2>. SUFFICES ASSUME IInv PROVE StaleForAReason
    BY DEF IInv, PagesAreCurrent
  <2>. QED BY DEF IInv, Pages, Current, StaleForAReason
<1>. QED BY <1>1, Invariance, PTL

\* No page, save or delete under way holds a copy that claims to be of the last
\* change and is not the row.
THEOREM CopiesAreStored == Spec => []CopyIsStored
<1>1. IInv => CopyIsStored
  <2>. SUFFICES ASSUME IInv PROVE CopyIsStored
    OBVIOUS
  <2>1. \A t \in open : Good(copy[t])
    BY DEF IInv, TypeOK, GoodCopies
  <2>2. \A s \in Slots : saves[s] # None => Good(saves[s].prev)
    BY DEF IInv, GoodSaves, GoodSave
  <2>3. \A t \in HostTabs, m \in Machines : del[t][m] # None => Good(del[t][m])
    BY DEF IInv, GoodCopies
  <2>. QED BY <2>1, <2>2, <2>3 DEF CopyIsStored, Good
<1>. QED BY <1>1, Invariance, PTL

\* The UPDATE of a save made from an up-to-date copy leaves every switch but its
\* own as it was in the row, whatever it read before.
THEOREM FreshSavesLoseNothing == Spec => FreshSaveLosesNothing
<1>. DEFINE Kept(s) ==
       /\ row'.shown \ {saves[s].what} = Stored.shown \ {saves[s].what}
       /\ row'.hidden \ {saves[s].what} = Stored.hidden \ {saves[s].what}
<1>1. ASSUME IInv, NEW s \in Slots, Store(s), saves[s].prev.of = changes, row' # row
      PROVE  Kept(s)
  <2>. DEFINE p == saves[s]
  <2>1. p # None /\ p \in Save /\ GoodSave(p)
    BY <1>1, StoreMoves
  <2>2. p.prev.prefs = Stored /\ OnlyWhat(p)
    BY <1>1, <2>1 DEF GoodSave, Good
  <2>3. CASE row' = p.next
    BY <2>2, <2>3 DEF OnlyWhat
  <2>4. CASE p.read # None /\ row' = Merge(p.next, p.read, row)
    <3>1. Stored = row
      BY <2>1, <2>4 DEF GoodSave, Stored
    <3>2. row'.shown \in {p.next.shown, row.shown} /\ row'.hidden \in {p.next.hidden, row.hidden}
      BY <2>4 DEF Merge, Column
    <3>. QED BY <2>2, <3>1, <3>2 DEF OnlyWhat
  <2>. QED BY <1>1, <2>3, <2>4 DEF Store
<1>2. IInv /\ [Next]_vars =>
        [\A s \in Slots :
           /\ At(s, "read") /\ Store(s)
           /\ saves[s].prev.of = changes /\ row' # row
           => /\ row'.shown \ {saves[s].what} = Stored.shown \ {saves[s].what}
              /\ row'.hidden \ {saves[s].what} = Stored.hidden \ {saves[s].what}]_vars
  BY <1>1
<1>. QED BY <1>2, Invariance, PTL DEF Spec, FreshSaveLosesNothing
=============================================================================
