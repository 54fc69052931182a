--------------------------- MODULE HotReloadProofs ----------------------------
(***************************************************************************)
(* Proof about HotReload: the watcher is never wrong about a file it takes *)
(* for unchanged.                                                          *)
(***************************************************************************)
EXTENDS HotReload, TLAPS

USE ReloadAssumption DEF File

\* What a file holds contributes entries.
LEMMA ReadType ==
    ASSUME TypeOK, NEW f \in File PROVE Read(f) \in SUBSET Entry
BY DEF TypeOK, Read, Content, Yaml, Absent, Garbled

\* The file system tells every change a time.
LEMMA StampType == ASSUME NEW n \in Nat PROVE Stamp(n) \in Nat
BY DEF Stamp

\* A file that changes is not up to date, the other one stays as it was.
LEMMA ChangeIsNew ==
    ASSUME TypeOK, NEW g \in File, NEW c \in Content, Change(g, c),
           UNCHANGED xbVars
    PROVE  /\ clock' \in Nat /\ content' \in [File -> Content] /\ mtime' \in [File -> Nat]
           /\ missed' \subseteq File
           /\ TickInv => TickInv'
           /\ ReadInv => ReadInv'
<1>1. clock' \in Nat /\ Stamp(clock') \in Nat
  BY StampType DEF TypeOK, Change
<1>2. content' \in [File -> Content] /\ mtime' \in [File -> Nat] /\ missed' \subseteq File
  BY <1>1 DEF TypeOK, Change
<1>3. \A f \in File : UpToDate(f)' => UpToDate(f) /\ Read(f)' = Read(f)
  BY <1>2 DEF TypeOK, Change, UpToDate, Read, xbVars
<1>4. \A f \in File : Quiet(f)' => Quiet(f)
  BY DEF Quiet, xbVars
<1> QED BY <1>1, <1>2, <1>3, <1>4 DEF TickInv, ReadInv, TypeOK, xbVars

\* The entries of the processes that are done are entries.
LEMMA ToldGrows ==
    ASSUME TypeOK, NEW p \in Writer, NEW s, pc[p] # "done", Goto(p, s)
    PROVE  Told \subseteq Told'
BY DEF Told, Goto, TypeOK, Writer

(***************************************************************************)
(* The invariant.                                                          *)
(***************************************************************************)
\* It holds of a sandbox that has not read its files yet.
LEMMA InitIInv == Init => IInv
<1> SUFFICES ASSUME Init PROVE IInv
  OBVIOUS
<1>1. Stamp(1) \in Nat /\ Stamp(2) \in Nat
  BY StampType
<1>2. TypeOK
  BY <1>1 DEF Init, TypeOK, Edits, Content, Writer
<1> QED BY <1>2 DEF Init, IInv, TickInv, RulesInv, Settled, ReadInv, Quiet

\* A step of the sandbox preserves it.
LEMMA XbIInv ==
    ASSUME IInv, XbStep PROVE IInv'
<1> USE DEF IInv
<1>1. CASE LoadUser
  <2>1. TypeOK'
    BY <1>1, ReadType DEF TypeOK, LoadUser, LoadFile, fileVars, writeVars
  <2> QED BY <1>1, <2>1 DEF LoadUser, LoadFile, fileVars, writeVars, TickInv, RulesInv,
                            Settled, ReadInv, Quiet
<1>2. CASE LoadProject
  <2>1. TypeOK'
    BY <1>2, ReadType DEF TypeOK, LoadProject, LoadFile, fileVars, writeVars
  <2> QED BY <1>2, <2>1 DEF LoadProject, LoadFile, fileVars, writeVars, TickInv, RulesInv,
                            Settled, ReadInv, Quiet
<1>3. CASE StartGuardian
  <2>1. TypeOK'
    BY <1>3 DEF TypeOK, StartGuardian, fileVars, writeVars, Merged
  <2>2. RulesInv'
    BY <1>3 DEF StartGuardian, RulesInv, Merged
  <2> QED BY <1>3, <2>1, <2>2 DEF StartGuardian, fileVars, writeVars, TickInv, ReadInv,
                                  Quiet
<1>4. CASE Register
  <2>1. TypeOK'
    BY <1>4 DEF TypeOK, Register, fileVars, writeVars
  <2> QED BY <1>4, <2>1 DEF Register, fileVars, writeVars, TickInv, RulesInv, Settled,
                            Merged, Told, ReadInv, Quiet
<1>5. ASSUME NEW f \in File, FirstStat(f)
      PROVE  /\ UpToDate(f)' => got'[f] = Read(f)'
             /\ \A g \in File \ {f} : UpToDate(g)' => UpToDate(g)
             /\ \A g \in File : got'[g] = got[g] /\ Read(g)' = Read(g)
  BY <1>5 DEF FirstStat, TypeOK, UpToDate, Read
<1>6. CASE FirstUser
  <2>1. TypeOK'
    BY <1>6 DEF TypeOK, FirstUser, FirstStat, writeVars
  <2>2. ReadInv'
    BY <1>5, <1>6 DEF FirstUser, ReadInv, Quiet
  <2> QED BY <1>6, <2>1, <2>2 DEF FirstUser, FirstStat, writeVars, TickInv, RulesInv,
                                  Settled, Merged, Told
<1>7. CASE FirstProject
  <2>1. TypeOK'
    BY <1>7 DEF TypeOK, FirstProject, FirstStat, writeVars
  <2>2. ReadInv'
    BY <1>5, <1>7 DEF FirstProject, ReadInv, Quiet
  <2> QED BY <1>7, <2>1, <2>2 DEF FirstProject, FirstStat, writeVars, TickInv, RulesInv,
                                  Settled, Merged, Told
<1>8. CASE Tick
  <2>1. TypeOK'
    BY <1>8 DEF TypeOK, Tick, fileVars, writeVars
  <2> QED BY <1>8, <2>1 DEF Tick, fileVars, writeVars, TickInv, RulesInv, Settled,
                            Merged, Told, ReadInv, Quiet, UpToDate, Read
<1>9. ASSUME NEW f \in File, Stat(f) PROVE
        /\ seen' \in [File -> Nat] /\ changed' \in BOOLEAN
        /\ changed => changed'
        /\ ~changed' => \A g \in File : UpToDate(g)' => UpToDate(g)
  BY <1>9 DEF TypeOK, Stat, fileVars, TickInv, UpToDate
<1>10. CASE StatUser
  <2>1. TypeOK'
    BY <1>9, <1>10 DEF TypeOK, StatUser, Stat, fileVars, writeVars
  <2>2. RulesInv'
    BY <1>10 DEF StatUser, Stat, RulesInv, Settled, Merged, Told, writeVars
  <2>3. ReadInv'
    BY <1>9, <1>10 DEF StatUser, Stat, fileVars, ReadInv, Quiet, Read
  <2> QED BY <1>9, <1>10, <2>1, <2>2, <2>3 DEF StatUser, Stat, fileVars, TickInv
<1>11. CASE StatProject
  <2>1. TypeOK'
    BY <1>9, <1>11 DEF TypeOK, StatProject, Stat, fileVars, writeVars
  <2>2. RulesInv'
    BY <1>11 DEF StatProject, Stat, RulesInv, Settled, Merged, Told, writeVars
  <2>3. ReadInv'
    BY <1>9, <1>11 DEF StatProject, Stat, fileVars, ReadInv, Quiet, Read
  <2> QED BY <1>9, <1>11, <2>1, <2>2, <2>3 DEF StatProject, Stat, fileVars, TickInv
<1>12. CASE ReloadUser
  <2>1. TypeOK'
    BY <1>12, ReadType DEF TypeOK, ReloadUser, LoadFile, fileVars, writeVars
  <2> QED BY <1>12, <2>1 DEF ReloadUser, LoadFile, fileVars, writeVars, TickInv, RulesInv,
                             Settled, ReadInv, Quiet, Read, TypeOK
<1>13. CASE ReloadProject
  <2>1. TypeOK'
    BY <1>13, ReadType DEF TypeOK, ReloadProject, LoadFile, fileVars, writeVars
  <2> QED BY <1>13, <2>1 DEF ReloadProject, LoadFile, fileVars, writeVars, TickInv,
                             RulesInv, Settled, ReadInv, Quiet, Read, UpToDate, TypeOK
<1>14. CASE Replace
  <2>1. TypeOK'
    BY <1>14 DEF TypeOK, Replace, fileVars, writeVars, Merged
  <2>2. RulesInv'
    BY <1>14 DEF Replace, RulesInv, Merged
  <2> QED BY <1>14, <2>1, <2>2 DEF Replace, fileVars, writeVars, TickInv, ReadInv,
                                   Quiet, UpToDate, Read
<1> QED BY <1>1, <1>2, <1>3, <1>4, <1>6, <1>7, <1>8, <1>10, <1>11, <1>12, <1>13, <1>14
        DEF XbStep

\* So does a step of xb --allow or xb --init ...
LEMMA WriterIInv ==
    ASSUME IInv, NEW p \in Writer,
           \/ AllowLoad(p) \/ AllowCheck(p) \/ AllowCancelled(p) \/ InitStat(p)
           \/ Truncate(p) \/ Write(p) \/ Live(p)
    PROVE  IInv'
<1> USE DEF IInv
<1>1. ASSUME UNCHANGED xbVars, Told \subseteq Told' PROVE RulesInv'
  BY <1>1 DEF xbVars, RulesInv, Merged
<1>2. ASSUME UNCHANGED <<fileVars, xbVars>> PROVE TickInv' /\ ReadInv'
  BY <1>2 DEF fileVars, xbVars, TickInv, ReadInv, Quiet, UpToDate, Read
<1>3. CASE AllowLoad(p)
  <2>1. TypeOK'
    BY <1>3, ReadType DEF TypeOK, AllowLoad, Goto, fileVars, xbVars
  <2>2. Told \subseteq Told'
    BY <1>3, ToldGrows DEF AllowLoad
  <2> QED BY <1>1, <1>2, <1>3, <2>1, <2>2 DEF AllowLoad
<1>4. CASE AllowCheck(p)
  <2>1. TypeOK'
    BY <1>4, ReadType DEF TypeOK, AllowCheck, Goto, fileVars, xbVars
  <2>2. Told \subseteq Told'
    BY <1>4, ToldGrows DEF AllowCheck
  <2> QED BY <1>1, <1>2, <1>4, <2>1, <2>2 DEF AllowCheck
<1>5. CASE AllowCancelled(p)
  <2>1. TypeOK'
    BY <1>5 DEF TypeOK, AllowCancelled, Goto, fileVars, xbVars
  <2>2. Told \subseteq Told'
    BY <1>5, ToldGrows DEF AllowCancelled
  <2> QED BY <1>1, <1>2, <1>5, <2>1, <2>2 DEF AllowCancelled
<1>6. CASE InitStat(p)
  <2>1. TypeOK'
    BY <1>6 DEF TypeOK, InitStat, Goto, fileVars, xbVars
  <2>2. Told \subseteq Told'
    BY <1>6, ToldGrows DEF InitStat
  <2> QED BY <1>1, <1>2, <1>6, <2>1, <2>2 DEF InitStat
<1>7. CASE Truncate(p)
  <2>1. Yaml({}) \in Content
    BY DEF Content
  <2>2. /\ clock' \in Nat /\ content' \in [File -> Content] /\ mtime' \in [File -> Nat]
        /\ missed' \subseteq File /\ TickInv' /\ ReadInv'
    BY <1>7, <2>1, ChangeIsNew DEF Truncate
  <2>3. TypeOK'
    BY <1>7, <2>2 DEF TypeOK, Truncate, Goto, xbVars
  <2>4. Told \subseteq Told'
    BY <1>7, ToldGrows DEF Truncate
  <2> QED BY <1>1, <1>7, <2>2, <2>3, <2>4 DEF Truncate
<1>8. CASE Write(p)
  <2>1. ASSUME p \in holds
        PROVE  /\ clock' \in Nat /\ content' \in [File -> Content]
               /\ mtime' \in [File -> Nat] /\ missed' \subseteq File
               /\ TickInv' /\ ReadInv'
    <3>1. PICK c \in {Yaml(buffer[p])} \cup {Garbled} : Change("user", c)
      BY <1>8, <2>1 DEF Write
    <3>2. c \in Content
      BY DEF Content, TypeOK
    <3> QED BY <1>8, <3>1, <3>2, ChangeIsNew DEF Write
  <2>2. /\ clock' \in Nat /\ content' \in [File -> Content] /\ mtime' \in [File -> Nat]
        /\ missed' \subseteq File /\ TickInv' /\ ReadInv'
    <3>1. CASE p \notin holds
      BY <1>2, <1>8, <3>1 DEF Write, TypeOK, fileVars
    <3> QED BY <2>1, <3>1
  <2>3. TypeOK'
    BY <1>8, <2>2 DEF TypeOK, Write, Goto, xbVars
  <2>4. Told \subseteq Told'
    BY <1>8, ToldGrows DEF Write
  <2> QED BY <1>1, <1>8, <2>2, <2>3, <2>4 DEF Write
<1>9. CASE Live(p)
  <2>1. p \in Cli => AddOf[p] \in Entry
    OBVIOUS
  <2>2. TypeOK'
    BY <1>9, <2>1 DEF TypeOK, Live, Goto, fileVars
  <2>3. Told \subseteq Told'
    BY <1>9, ToldGrows DEF Live
  <2>4. p \in Cli => AddOf[p] \in Told'
    BY <1>9 DEF Live, Goto, Told, TypeOK, Writer
  <2>5. RulesInv'
    BY <1>9, <2>3, <2>4 DEF Live, RulesInv, Merged
  <2> QED BY <1>9, <2>2, <2>5 DEF Live, fileVars, TickInv, ReadInv, Quiet, UpToDate, Read
<1> QED BY <1>3, <1>4, <1>5, <1>6, <1>7, <1>8, <1>9

\* ... and a step of the editor.
LEMMA EditIInv ==
    ASSUME IInv, NEW f \in File, EditFile(f) PROVE IInv'
<1> USE DEF IInv
<1>1. PICK c \in Edits : Change(f, c)
  BY DEF EditFile
<1>2. c \in Content
  BY DEF Edits, Content
<1>3. /\ clock' \in Nat /\ content' \in [File -> Content] /\ mtime' \in [File -> Nat]
      /\ missed' \subseteq File /\ TickInv' /\ ReadInv'
  BY <1>1, <1>2, ChangeIsNew DEF EditFile
<1>4. TypeOK'
  BY <1>3 DEF TypeOK, EditFile, xbVars
<1>5. RulesInv'
  BY DEF EditFile, xbVars, RulesInv, Merged, Told
<1> QED BY <1>3, <1>4, <1>5

\* The invariant holds in every state of every behaviour, for every set of
\* entries, of files' contents and of processes.
THEOREM AlwaysIInv == Spec => []IInv
<1>1. ASSUME IInv, UNCHANGED vars PROVE IInv'
  BY <1>1 DEF IInv, TypeOK, TickInv, RulesInv, Settled, ReadInv, Quiet, UpToDate, Read,
              Merged, Told, vars, fileVars, writeVars, xbVars
<1>2. IInv /\ [Next]_vars => IInv'
  BY <1>1, XbIInv, WriterIInv, EditIInv DEF Next
<1> QED BY InitIInv, <1>2, PTL DEF Spec

\* The watcher is never wrong, between two ticks, about a
\* file it takes for unchanged, however its reads have met the saves of others.
THEOREM NeverStale == Spec => []NoMissedChange
<1>1. IInv => NoMissedChange
  BY DEF IInv, RulesInv, Settled, ReadInv, Quiet, NoMissedChange, Merged
<1> QED BY AlwaysIInv, <1>1, PTL
===============================================================================
