------------------------------- MODULE HotReload -------------------------------
(***************************************************************************)
(* The configuration of a running sandbox: the two files it comes from,    *)
(* the processes that write them (an editor, xb --allow, xb --init), and   *)
(* the watcher that polls their modification times and reloads the rules   *)
(* (pkg/sandbox/sandbox.go, pkg/config/config.go, cmd/allow.go, init.go).  *)
(*                                                                         *)
(* A configuration is the set of its allow and deny entries: the merge of  *)
(* config.Load is additive for both.  Files change in steps as os.WriteFile*)
(* does it; the clock of the file system is coarse, so that changes which  *)
(* follow each other closely may have the same modification time.          *)
(***************************************************************************)
EXTENDS Naturals

CONSTANTS
    Entry,     \* entries of the allow and deny lists
    Default,   \* those of DefaultConfig
    Cli,       \* processes that run xb --allow
    AddOf,     \* the entry each of them is asked to add
    SameDir,   \* those started in the directory of the sandbox
    Setup,     \* processes that run xb --init
    Edit,      \* what an editor may save, sets of entries
    Grain,     \* changes made in one tick of the clock of the file system
    MaxClock   \* bound: the editor stops when so many changes have been made

File == {"user", "project"}
Writer == Cli \cup Setup

\* What a file holds.  loadAndMerge and LoadUserOnly take nothing from a file
\* that cannot be read or does not parse, and neither tells its caller.
Yaml(es) == [kind |-> "yaml", entries |-> es]
Absent   == [kind |-> "absent", entries |-> {}]
Garbled  == [kind |-> "garbled", entries |-> {}]
Content  == {Yaml(es) : es \in SUBSET Entry} \cup {Absent, Garbled}
Edits    == {Yaml(es) : es \in Edit} \cup {Garbled, Absent}

ASSUME ReloadAssumption ==
    /\ Default \subseteq Entry
    /\ AddOf \in [Cli -> Entry]
    /\ SameDir \subseteq Cli /\ Cli \cap Setup = {}
    /\ Edit \subseteq SUBSET Entry
    /\ Grain \in Nat \ {0} /\ MaxClock \in Nat

VARIABLES
    clock,     \* the number of changes made to the files
    content,   \* what each file holds
    mtime,     \* the time of its last change, 0 when it does not exist
    pc,        \* where each xb --allow and xb --init is
    merged,    \* the configuration an xb --allow looks for duplicates in
    buffer,    \* what it is going to write
    holds,     \* the writers whose open file still is the user file
    xb,        \* where the sandbox is: its start, then the watcher's loop
    seen,      \* the watcher's mtimes, 0 for a file without an entry
    changed,   \* whether this tick has found a new time
    got,       \* what the last read of each file has contributed
    rules,     \* the entries in force in the guardian
    missed     \* history: the files that hold what was not read when they had
               \* the time that the watcher knows

fileVars  == <<clock, content, mtime, missed>>
writeVars == <<pc, merged, buffer, holds>>
xbVars    == <<xb, seen, changed, got, rules>>
vars      == <<fileVars, writeVars, xbVars>>

\* The time of the n-th change, as the file system tells it.
Stamp(n) == 1 + n \div Grain

\* The files as a user may have left them.
Init ==
    /\ clock = 2
    /\ content \in [File -> Edits]
    /\ mtime = [f \in File |-> IF content[f] = Absent THEN 0
                               ELSE Stamp(IF f = "user" THEN 1 ELSE 2)]
    /\ pc = [p \in Writer |-> IF p \in Cli THEN "load" ELSE "stat"]
    /\ merged = [p \in Writer |-> {}] /\ buffer = [p \in Writer |-> {}]
    /\ holds = {}
    /\ xb = "loadUser"
    /\ seen = [f \in File |-> 0] /\ changed = FALSE
    /\ got = [f \in File |-> {}]
    /\ rules = {} /\ missed = {}

Read(f) == content[f].entries

-------------------------------------------------------------------------------
(* The sandbox: config.Load, the guardian, and watchConfig.                   *)

\* Mutant of LoadFile: the file of the project is read only when there is no
\* user file.
LoadFile_FirstOnly(f) ==
    /\ got' = [got EXCEPT ![f] =
                 IF f = "project" /\ content["user"] # Absent THEN {} ELSE Read(f)]
    /\ missed' = missed \ {f}
    /\ UNCHANGED <<clock, content, mtime, writeVars, seen, changed, rules>>

LoadFile(f) ==
    /\ got' = [got EXCEPT ![f] = Read(f)]
    /\ missed' = missed \ {f}
    /\ UNCHANGED <<clock, content, mtime, writeVars, seen, changed, rules>>

\* Load of runSandbox: the two files one after the other.
LoadUser    == xb = "loadUser" /\ LoadFile("user") /\ xb' = "loadProject"
LoadProject == xb = "loadProject" /\ LoadFile("project") /\ xb' = "guardian"

Merged == Default \cup got["user"] \cup got["project"]

\* NewRules and Start; nobody finds the sandbox before its cwd file is written.
StartGuardian ==
    /\ xb = "guardian"
    /\ rules' = Merged
    /\ xb' = "register"
    /\ UNCHANGED <<fileVars, writeVars, seen, changed, got>>

Register ==
    /\ xb = "register"
    /\ xb' = "firstUser"
    /\ UNCHANGED <<fileVars, writeVars, seen, changed, got, rules>>

\* The times watchConfig starts from, read after the files were loaded: a change in
\* between is missed.
FirstStat(f) ==
    /\ seen' = [seen EXCEPT ![f] = mtime[f]]
    /\ missed' = IF got[f] # Read(f) THEN missed \cup {f} ELSE missed
    /\ UNCHANGED <<clock, content, mtime, writeVars, changed, got, rules>>

FirstUser    == xb = "firstUser" /\ FirstStat("user") /\ xb' = "firstProject"
FirstProject == xb = "firstProject" /\ FirstStat("project") /\ xb' = "idle"

\* The ticker, every two seconds.
Tick ==
    /\ xb = "idle"
    /\ changed' = FALSE
    /\ xb' = "statUser"
    /\ UNCHANGED <<fileVars, writeVars, seen, got, rules>>

\* Mutant of Stat: the last file decides.
Stat_LastWins(f) ==
    /\ IF mtime[f] # 0
       THEN /\ changed' = (seen[f] # mtime[f])
            /\ seen' = [seen EXCEPT ![f] = mtime[f]]
       ELSE UNCHANGED <<changed, seen>>
    /\ UNCHANGED <<fileVars, writeVars, got, rules>>

\* A file that does not exist is passed over, its entry kept.
Stat(f) ==
    /\ IF mtime[f] # 0
       THEN /\ changed' = (changed \/ seen[f] # mtime[f])
            /\ seen' = [seen EXCEPT ![f] = mtime[f]]
       ELSE UNCHANGED <<changed, seen>>
    /\ UNCHANGED <<fileVars, writeVars, got, rules>>

StatUser == xb = "statUser" /\ Stat("user") /\ xb' = "statProject"
StatProject ==
    /\ xb = "statProject"
    /\ Stat("project")
    /\ xb' = IF changed' THEN "reloadUser" ELSE "idle"

ReloadUser    == xb = "reloadUser" /\ LoadFile("user") /\ xb' = "reloadProject"
ReloadProject == xb = "reloadProject" /\ LoadFile("project") /\ xb' = "replace"

\* Mutant of Replace: the rules of before are kept.
Replace_KeepsOld ==
    /\ xb = "replace"
    /\ rules' = rules \cup Merged
    /\ xb' = "idle"
    /\ UNCHANGED <<fileVars, writeVars, seen, changed, got>>

\* ReplaceRules: both lists at once, live additions are dropped with the rest.
Replace ==
    /\ xb = "replace"
    /\ rules' = Merged
    /\ xb' = "idle"
    /\ UNCHANGED <<fileVars, writeVars, seen, changed, got>>

XbStep ==
    \/ LoadUser \/ LoadProject \/ StartGuardian \/ Register \/ FirstUser
    \/ FirstProject \/ Tick \/ StatUser \/ StatProject \/ ReloadUser
    \/ ReloadProject \/ Replace

-------------------------------------------------------------------------------
(* xb --allow, xb --init and the editor.                                      *)

Goto(p, s) == pc' = [pc EXCEPT ![p] = s]

\* runAllow begins with Load(""): the defaults and the user file.
AllowLoad(p) ==
    /\ p \in Cli /\ pc[p] = "load"
    /\ merged' = [merged EXCEPT ![p] = Default \cup Read("user")]
    /\ Goto(p, "check")
    /\ UNCHANGED <<fileVars, buffer, holds, xbVars>>

\* A question to the user may lie between the two reads.  LoadUserOnly ignores
\* what it cannot parse, so a garbled file is about to be replaced.
AllowCheck(p) ==
    /\ p \in Cli /\ pc[p] = "check"
    /\ IF AddOf[p] \in merged[p]
       THEN Goto(p, "already") /\ UNCHANGED buffer
       ELSE /\ buffer' = [buffer EXCEPT ![p] = Read("user") \cup {AddOf[p]}]
            /\ Goto(p, "truncate")
    /\ UNCHANGED <<fileVars, merged, holds, xbVars>>

AllowCancelled(p) ==
    /\ p \in Cli /\ pc[p] = "check"
    /\ Goto(p, "cancelled")
    /\ UNCHANGED <<fileVars, merged, buffer, holds, xbVars>>

InitStat(p) ==
    /\ p \in Setup /\ pc[p] = "stat"
    /\ IF content["user"] # Absent
       THEN Goto(p, "already") /\ UNCHANGED buffer
       ELSE /\ buffer' = [buffer EXCEPT ![p] = Default]
            /\ Goto(p, "truncate")
    /\ UNCHANGED <<fileVars, merged, holds, xbVars>>

\* A change at the time that the watcher has seen is missed.
Change(f, c) ==
    /\ clock' = clock + 1
    /\ content' = [content EXCEPT ![f] = c]
    /\ mtime' = [mtime EXCEPT ![f] = IF c = Absent THEN 0 ELSE Stamp(clock')]
    /\ missed' = IF c # Absent /\ mtime'[f] = seen[f] THEN missed \cup {f} ELSE missed

\* SaveDefault is os.WriteFile: open with O_CREATE and O_TRUNC ...
Truncate(p) ==
    /\ pc[p] = "truncate"
    /\ Change("user", Yaml({}))
    /\ holds' = holds \cup {p}
    /\ Goto(p, "write")
    /\ UNCHANGED <<merged, buffer, xbVars>>

\* ... then a write at offset 0 of the file that was opened, which need not be
\* the user file any more; what another process has written there since the
\* truncation is overwritten, but for a tail when it was longer.
Write(p) ==
    /\ pc[p] = "write"
    /\ IF p \in holds
       THEN \E c \in {Yaml(buffer[p])} \cup (IF content["user"] = Yaml({}) THEN {} ELSE {Garbled}) :
              Change("user", c)
       ELSE UNCHANGED fileVars
    /\ Goto(p, IF p \in Cli THEN "live" ELSE "done")
    /\ UNCHANGED <<merged, buffer, holds, xbVars>>

Registered == xb \notin {"loadUser", "loadProject", "guardian", "register"}

\* "added ... to allowlist" is printed; the sandbox of this directory is told.
Live(p) ==
    /\ pc[p] = "live"
    /\ rules' = IF p \in SameDir /\ Registered THEN rules \cup {AddOf[p]} ELSE rules
    /\ Goto(p, "done")
    /\ UNCHANGED <<fileVars, merged, buffer, holds, xb, seen, changed, got>>

\* An editor saves by renaming a finished file over the old one, or deletes it.
EditFile(f) ==
    /\ clock < MaxClock
    /\ \E c \in Edits : c # content[f] /\ Change(f, c)
    /\ holds' = IF f = "user" THEN {} ELSE holds
    /\ UNCHANGED <<pc, merged, buffer, xbVars>>

Next ==
    \/ XbStep
    \/ \E p \in Writer :
         \/ AllowLoad(p) \/ AllowCheck(p) \/ AllowCancelled(p) \/ InitStat(p)
         \/ Truncate(p) \/ Write(p) \/ Live(p)
    \/ \E f \in File : EditFile(f)

\* The watcher's goroutine runs until the command exits; the writers and the
\* editor may stop anywhere, in the middle of a save too.
Spec == Init /\ [][Next]_vars /\ WF_vars(XbStep)

-------------------------------------------------------------------------------
\* Every variable has its type.
TypeOK ==
    /\ clock \in Nat
    /\ content \in [File -> Content]
    /\ mtime \in [File -> Nat]
    /\ pc \in [Writer -> {"load", "check", "stat", "truncate", "write", "live",
                          "done", "already", "cancelled"}]
    /\ merged \in [Writer -> SUBSET Entry]
    /\ buffer \in [Writer -> SUBSET Entry]
    /\ holds \subseteq Writer
    /\ xb \in {"loadUser", "loadProject", "guardian", "register", "firstUser",
               "firstProject", "idle", "statUser", "statProject", "reloadUser",
               "reloadProject", "replace"}
    /\ seen \in [File -> Nat] /\ changed \in BOOLEAN
    /\ got \in [File -> SUBSET Entry]
    /\ rules \subseteq Entry
    /\ missed \subseteq File

\* The watcher believes, and is right, that what it read last is what the file holds.
UpToDate(f) == mtime[f] # 0 /\ seen[f] = mtime[f] /\ f \notin missed

Told == {AddOf[p] : p \in {q \in Cli : pc[q] = "done"}}

\* Between two ticks every entry of a file the watcher takes for unchanged is in
\* force, and what else is in force is built in, was added live, or was read from a
\* file that the next tick finds changed or that is gone (watchConfig, sandbox.go:134
\* passes over a file that was deleted).  The exceptions are the files in missed: one
\* that changed after it was loaded and before watchConfig first looked at it
\* (sandbox.go:118), and one that changed twice within a tick of the file system's
\* clock (sandbox.go:137).
NoMissedChange ==
    xb = "idle" =>
        /\ \A f \in File : UpToDate(f) => Read(f) \subseteq rules
        /\ \A e \in rules : \/ e \in Default \cup Told
                            \/ \E f \in File : e \in got[f] /\ (UpToDate(f) => e \in Read(f))

\* The inductive invariant of the proof.  A tick starts without a change found; the
\* rules are what was merged last and what was added live since; and a file that has
\* kept the time the watcher knows holds what its last read has found, but while a
\* tick has found a change and the files are being read again.
TickInv == xb = "statUser" => ~changed

Settled == {"register", "firstUser", "firstProject", "idle", "statUser",
            "statProject", "reloadUser"}

RulesInv == xb \in Settled => Merged \subseteq rules /\ rules \subseteq Merged \cup Told

Quiet(f) ==
    \/ xb \in {"idle", "statUser"}
    \/ xb = "statProject" /\ ~changed
    \/ xb \in {"firstProject", "reloadProject"} /\ f = "user"
    \/ xb = "replace"

ReadInv == \A f \in File : Quiet(f) /\ UpToDate(f) => got[f] = Read(f)

\* The rules in force, the reads of the watcher and the times it knows agree.
IInv == TypeOK /\ TickInv /\ RulesInv /\ ReadInv

\* When the files have come to rest, the entries of both are in force for ever,
\* however the reads of the watcher met the saves, but for a missed change.
Converges ==
    <>[](\A f \in File \ missed : mtime[f] # 0 => Read(f) \subseteq rules)

\* "added ... to allowlist": when every process is done and nobody else edits
\* the file, each entry that was reported as added is in it.
AddedStays ==
    (\A p \in Writer : pc[p] \in {"done", "already", "cancelled"}) =>
        Told \subseteq Read("user")
===============================================================================
