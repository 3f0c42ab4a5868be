--------------------------- MODULE MCDisplayPrefs ---------------------------
EXTENDS DisplayPrefs, TLC

\* Machines are interchangeable: no definition names one.
Sym == Permutations(Machines)

\* Between the saves of a page its copy is that of the row, unless one of the
\* reasons StaleForAReason names made it old, and its switches wait only for a
\* save that is going to be answered.
PagesAreCurrent == TypeOK /\ StaleForAReason /\ DisabledForASave
=============================================================================
