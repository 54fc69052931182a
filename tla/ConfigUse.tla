------------------------------- MODULE ConfigUse -------------------------------
(***************************************************************************)
(* One user at one terminal: the commands xb --init, xb --allow and        *)
(* xb --allow --from-log, an editor, and a sandbox that is started in the  *)
(* project, asked for destinations, reloaded and stopped.  Each command is *)
(* one step; HotReload has their steps, this module what they do with the  *)
(* contents: ConfigMerge for the files, RuleMatch for the patterns, Mounts *)
(* for the view of the command.                                            *)
(***************************************************************************)
EXTENDS RuleMatch, ConfigMerge, Mounts

CONSTANTS
    Default,      \* DefaultConfig()
    Value,        \* the strings that occur as entries
    AddValue,     \* those a user gives to xb --allow
    Dest,         \* destinations [host, port] the command asks for
    OtherDest,    \* ... and those that sandboxes of other directories are denied
    UserFile,     \* what an editor may save as the user file
    ProjectFiles, \* ... and as the project file
    MaxEdits,     \* bound: how often an editor saves
    MaxAllow,     \* bound: how often xb --allow saves
    MaxLog        \* bound: the entries of all log files

VARIABLES
    user, project, \* the two files
    logs,          \* the audit logs: a sequence of entries for each path
    sb,            \* the sandbox of the project, or NoSandbox
    blocked,       \* history: what it was denied last, or NoDest
    edits, adds    \* how often the editor and xb --allow have saved

vars == <<user, project, logs, sb, blocked, edits, adds>>

NoDest    == [host |-> Blank, port |-> -1]
NoSandbox == [on |-> FALSE]

\* The paths a log may be written to or read from.
LogNames ==
    ({Default.logFile} \cup {f.doc.logFile : f \in {g \in UserFile \cup ProjectFiles :
                                                   g.kind \in {"yaml", "mistyped"}}}) \ {""}
LogPaths == LogNames \cup {Expand[p] : p \in LogNames}

\* The text before the last colon of "host:port", or all of ":port".
Offered(d) == IF d.host = Blank THEN Text(<<Empty>>, <<d.port>>) ELSE d.host

IsString(v) ==
    \/ v = Blank
    \/ v.kind = "cidr" /\ v = Cidr(v.net)
    \/ v.kind = "text" /\ IsText(v)

IsDest(d) ==
    /\ d = [host |-> d.host, port |-> d.port] /\ d.port \in Int
    /\ d.host # Blank => d.host.kind = "text" /\ IsText(d.host)

\* A configuration, or a document: they differ in filter.
IsConfig(c) ==
    /\ DOMAIN c = DOMAIN Zero
    /\ c.allow \in Seq(Value) /\ c.deny \in Seq(Value) /\ c.envAllow \in Seq(STRING)
    /\ c.caVars \in Seq(STRING)
    /\ c.shares \in Seq([path : DOMAIN ShareDest, mode : STRING])
    /\ c.logFile \in LogNames \cup {""}

IsFile(f) ==
    \/ f \in {Absent, Malformed}
    \/ f.kind = "yaml" /\ f = Yaml(f.doc) /\ IsConfig(f.doc)
    \/ f.kind = "mistyped" /\ f = Mistyped(f.doc) /\ IsConfig(f.doc)

\* The built-in defaults have no shares, and lists of variables and of agents.
ASSUME ConfigAssumption ==
    /\ \A v \in Value : IsString(v)
    /\ \A d \in Dest : IsDest(d) /\ Offered(d) \in Value
    /\ NoDest \notin Dest /\ OtherDest \subseteq Dest
    /\ AddValue \subseteq Value /\ MaxEdits \in Nat /\ MaxAllow \in Nat
    /\ \A f \in UserFile \cup ProjectFiles : IsFile(f)
    /\ IsConfig(Default) /\ Default = [x \in DOMAIN Zero |-> Default[x]]
    /\ Default.filter \in BOOLEAN /\ Default.logFile # "" /\ Default.shares = <<>>
    /\ Default.envAllow # <<>>
    /\ Default.persist = [a \in DOMAIN Default.persist |-> Default.persist[a]]

-------------------------------------------------------------------------------
(* RuleDecision, with the patterns of RuleMatch in the place of its           *)
(* parameters.                                                                *)

None == [type |-> "none"]
RuleTable == [v \in Value |-> IF v.kind = "blank" THEN None ELSE RuleOf(v)]
RuleSet   == {RuleTable[v] : v \in Value} \ {None}
Matching  == {rd \in RuleSet \X Dest : RuleMatches(rd[1], rd[2])}
Decision  == INSTANCE RuleDecision
               WITH Rule <- RuleSet, NoRule <- None, Parse <- RuleTable,
                    NoHost <- {d \in Dest : d.host = Blank}, MatchRel <- Matching

-------------------------------------------------------------------------------
Init ==
    /\ user \in UserFile /\ project \in ProjectFiles
    /\ logs = [p \in LogPaths |-> <<>>]
    /\ sb = NoSandbox /\ blocked = NoDest
    /\ edits = 0 /\ adds = 0

\* What the next sandbox of the project, or the next reload, would load, and what
\* xb --allow and xb --logs load, which do not look at the project.
Effective == Load(Default, user, project)
Global    == Load(Default, user, Absent)

EditUser ==
    /\ edits < MaxEdits /\ edits' = edits + 1
    /\ user' \in UserFile \ {user}
    /\ UNCHANGED <<project, logs, sb, blocked, adds>>

EditProject ==
    /\ edits < MaxEdits /\ edits' = edits + 1
    /\ project' \in ProjectFiles \ {project}
    /\ UNCHANGED <<user, logs, sb, blocked, adds>>

\* xb --init
InitCommand ==
    /\ user = Absent
    /\ user' = SaveDefault(Default)
    /\ UNCHANGED <<project, logs, sb, blocked, edits, adds>>

\* The rules that addRule makes of a string and of a list.  Of the lists of a sandbox
\* only their sets of rules are kept: no more counts for a verdict (RuleDecision).
RulesFor(v)   == Decision!RulesIn(Decision!AddRule(<<>>, v))
RulesOf(list) == UNION {RulesFor(v) : v \in ToSet(list)}

\* Mutant of Add: the sandbox is not told.
Add_FileOnly(v) ==
    IF Contains(Global.allow, v)
    THEN UNCHANGED <<user, sb, adds>>
    ELSE /\ adds < MaxAllow /\ adds' = adds + 1
         /\ user' = SaveDefault([LoadUserOnly(user) EXCEPT !.allow = Append(@, v)])
         /\ sb' = sb

\* runAllow from the test for a duplicate on: the user file, then the sandbox that
\* runs in this directory.
Add(v) ==
    IF Contains(Global.allow, v)
    THEN UNCHANGED <<user, sb, adds>>
    ELSE /\ adds < MaxAllow /\ adds' = adds + 1
         /\ user' = SaveDefault([LoadUserOnly(user) EXCEPT !.allow = Append(@, v)])
         /\ sb' = IF sb.on
                  THEN [sb EXCEPT !.allow = @ \cup RulesFor(v),
                                  !.strings.allow = @ \cup {v}]
                  ELSE sb

Allow(v) == Add(v) /\ UNCHANGED <<project, logs, blocked, edits>>

\* The log file that xb --allow --from-log and xb --logs read.
ReadPath == Expand[Global.logFile]
Shown    == logs[ReadPath]

Denied(log) == {i \in DOMAIN log : log[i].action = "deny"}

\* Mutant of LastBlocked: the first denial is taken.
LastBlocked_First(log) ==
    IF Denied(log) = {} THEN NoDest ELSE log[Min(Denied(log))].dest

\* lastBlockedFromLog: the destination of the last denial, none when it has none.
LastBlocked(log) ==
    IF Denied(log) = {} THEN NoDest ELSE log[Max(Denied(log))].dest

\* xb --allow --from-log, answered with yes.
AllowFromLog ==
    LET d == LastBlocked(Shown) IN
    /\ d # NoDest
    /\ Add(Offered(d))
    /\ UNCHANGED <<project, logs, blocked, edits>>

Strings(cfg) == [allow |-> ToSet(cfg.allow), deny |-> ToSet(cfg.deny)]

\* xb <command>: rules, view and environment of the configuration of this moment.
\* The guardian writes to the log file under its literal path.
Start ==
    /\ ~sb.on
    /\ \E order \in AgentOrders(Effective) :
         sb' = [on      |-> TRUE,
                allow   |-> RulesOf(Effective.allow),
                deny    |-> RulesOf(Effective.deny),
                strings |-> Strings(Effective),
                cfg     |-> Effective,
                files   |-> <<user, project>>,
                file    |-> project.kind # "absent",
                view    |-> View(PrepareMounts(Effective, project.kind # "absent", order)),
                env     |-> [linux  |-> LinuxEnv(Effective),
                            darwin |-> DarwinEnv(Effective)],
                log     |-> Effective.logFile]
    /\ blocked' = NoDest
    /\ UNCHANGED <<user, project, logs, edits, adds>>

Changed(file, known) == file # known /\ file # Absent

\* Mutant of Reload: the lists are not emptied before they are filled.
Reload_Adds ==
    /\ sb.on
    /\ Changed(user, sb.files[1]) \/ Changed(project, sb.files[2])
    /\ sb' = [sb EXCEPT !.allow = @ \cup RulesOf(Effective.allow),
                        !.deny = @ \cup RulesOf(Effective.deny),
                        !.strings = Strings(Effective),
                        !.files = <<user, project>>]
    /\ UNCHANGED <<user, project, logs, blocked, edits, adds>>

\* The watcher finds a file that exists and has changed: it replaces the rules;
\* view, environment and log stay as they were.
Reload ==
    /\ sb.on
    /\ Changed(user, sb.files[1]) \/ Changed(project, sb.files[2])
    /\ sb' = [sb EXCEPT !.allow = RulesOf(Effective.allow),
                        !.deny = RulesOf(Effective.deny),
                        !.strings = Strings(Effective),
                        !.files = <<user, project>>]
    /\ UNCHANGED <<user, project, logs, blocked, edits, adds>>

Stop ==
    /\ sb.on
    /\ sb' = NoSandbox
    /\ blocked' = NoDest
    /\ UNCHANGED <<user, project, logs, edits, adds>>

Verdict(d) == Decision!Decide(sb.allow, sb.deny, d)

Entries == {pi \in LogPaths \X (1..MaxLog) : pi[2] \in DOMAIN logs[pi[1]]}

\* A guardian appends to the log file that it was started with.
Record(path, entry) ==
    /\ Cardinality(Entries) < MaxLog
    /\ logs' = [logs EXCEPT ![path] = Append(@, entry)]

\* A connection of the command that names a destination ...
Request(d) ==
    /\ sb.on
    /\ LET action == IF Verdict(d) = "whitelist" THEN "allow" ELSE "deny" IN
       /\ Record(sb.log, [sandbox |-> "this", dest |-> d, action |-> action])
       /\ blocked' = IF action = "deny" THEN d ELSE blocked
    /\ UNCHANGED <<user, project, sb, edits, adds>>

\* ... or none: it is denied, and logged with an empty destination.
Nameless ==
    /\ sb.on
    /\ Record(sb.log, [sandbox |-> "this", dest |-> NoDest, action |-> "deny"])
    /\ UNCHANGED <<user, project, sb, blocked, edits, adds>>

\* The sandbox of another directory denies something: unless a project file says
\* otherwise, all sandboxes write to one log.
OtherDenies(path, d) ==
    /\ Record(path, [sandbox |-> "other", dest |-> d, action |-> "deny"])
    /\ UNCHANGED <<user, project, sb, blocked, edits, adds>>

Next ==
    \/ EditUser \/ EditProject \/ InitCommand \/ AllowFromLog
    \/ \E v \in AddValue : Allow(v)
    \/ Start \/ Reload \/ Stop \/ Nameless
    \/ \E d \in Dest : Request(d)
    \/ \E path \in LogNames, d \in OtherDest : OtherDenies(path, d)

Spec == Init /\ [][Next]_vars

-------------------------------------------------------------------------------
Files == UserFile \cup ProjectFiles
Entry == [sandbox : {"this", "other"}, dest : Dest \cup {NoDest}, action : {"allow", "deny"}]

\* Every variable has its type; the rules are those of strings that occur.
TypeOK ==
    /\ user.kind \in {"absent", "yaml", "malformed", "mistyped"} /\ project \in ProjectFiles
    /\ user.kind = "yaml" => ToSet(user.doc.allow) \subseteq Value
    /\ \A p \in LogPaths : \A i \in DOMAIN logs[p] : logs[p][i] \in Entry
    /\ sb.on => /\ sb.allow \cup sb.deny \subseteq RuleSet
                /\ sb.log \in LogPaths /\ FromHost(sb.env.linux) \subseteq HostEnv
    /\ blocked \in Dest \cup {NoDest}
    /\ edits \in 0..MaxEdits /\ adds \in 0..MaxAllow

\* The running sandbox has the rules of strings that occur, at least those of the
\* files that it has read; its view and its environment are those of a configuration.
SandboxOK(s) ==
    /\ DOMAIN s = {"on", "allow", "deny", "strings", "cfg", "files", "file", "view", "env", "log"}
    /\ s.strings = [allow |-> s.strings.allow, deny |-> s.strings.deny]
    /\ s.strings.allow \cup s.strings.deny \subseteq Value
    /\ s.allow = UNION {RulesFor(v) : v \in s.strings.allow}
    /\ s.deny = UNION {RulesFor(v) : v \in s.strings.deny}
    /\ ToSet(Load(Default, s.files[1], s.files[2]).allow) \subseteq s.strings.allow
    /\ s.log \in LogNames
    /\ IsConfig(s.cfg) /\ s.cfg.envAllow # <<>>
    /\ \E order \in AgentOrders(s.cfg) : s.view = View(PrepareMounts(s.cfg, s.file, order))
    /\ s.env = [linux |-> LinuxEnv(s.cfg), darwin |-> DarwinEnv(s.cfg)]

\* The denials of this sandbox that name a destination.
Own(log) == {i \in Denied(log) : log[i].sandbox = "this" /\ log[i].dest # NoDest}

\* The last of them in the log of the sandbox is that of the command.
DenialOK ==
    LET log == logs[sb.log] IN
    blocked # NoDest => Own(log) # {} /\ log[Max(Own(log))].dest = blocked

\* The inductive invariant.
IInv ==
    /\ IsFile(user) /\ project \in ProjectFiles
    /\ logs \in [LogPaths -> Seq(Entry)]
    /\ sb.on \in BOOLEAN
    /\ sb.on => SandboxOK(sb) /\ DenialOK
    /\ blocked \in Dest \cup {NoDest}
    /\ edits \in 0..MaxEdits /\ adds \in 0..MaxAllow

\* The destinations that each string denotes.
Meaning == [v \in Value \ {Blank} |-> {d \in Dest : d.host # Blank /\ Denotes(v, d)}]

\* docs/NETWORKING.md "Allow/deny rules": a destination is allowed exactly when an
\* entry of an allow list that is in force denotes it and none of a deny list
\* does, wherever the entries come from and however they came into force.  The
\* exception are hosts that an entry cannot name (Misread).
DocumentedVerdict ==
    sb.on => \A d \in Dest : ~Misread(d.host) =>
        (Verdict(d) = "whitelist" <=>
            /\ d.host # Blank
            /\ \E v \in sb.strings.allow \ {Blank} : d \in Meaning[v]
            /\ ~\E v \in sb.strings.deny \ {Blank} : d \in Meaning[v])

\* The log of the sandbox is not the one that xb --allow and xb --logs read: the
\* project file named another, or the user file does by now, or it begins with "~",
\* which only the readers replace.
LogElsewhere == sb.log # Global.logFile \/ Expand[sb.log] # sb.log

\* xb --allow --from-log offers what this sandbox was denied last, as NETWORKING.md
\* "Audit log" says, but when it reads another log, and when after it a connection
\* without a destination was denied, for which it offers nothing, or one of another
\* sandbox that writes to the same log, which it offers instead.
FromLogOffers ==
    sb.on /\ blocked # NoDest /\ ~LogElsewhere =>
        \/ LastBlocked(Shown) = blocked
        \/ \E i \in Denied(Shown) \ Own(Shown) : \A j \in Own(Shown) : i > j

\* ... and once it is added, the destination is allowed in the running sandbox,
\* without waiting for the watcher: but for one on a deny list, and one whose
\* host is not read back as it was logged.
FromLogUnblocks == [][
    sb.on /\ sb.files = <<user, project>> /\ AllowFromLog /\ LastBlocked(Shown) = blocked =>
        \/ Verdict(blocked)' \in {"whitelist", "blocklist", "empty-host"}
        \/ Misread(blocked.host)]_vars

\* xb --init writes down what is in force anyway: no setting changes by it, though
\* the defaults are merged with themselves from then on.
InitNeutral == [][InitCommand => Effective' = Effective]_vars

\* What can be decoded of the user file, as a file; with it, what would be in force.
Decoded(file) ==
    CASE file.kind = "mistyped"  -> Yaml(file.doc)
      [] file.kind = "malformed" -> Absent
      [] OTHER                   -> file

Readable == Load(Default, Decoded(user), project)

\* xb --allow adds its entry and keeps every other setting of every scope, and what
\* the user has written in the file, but for env.filter, which it may turn off. A
\* file with a slip in its syntax it replaces; of one with values of a wrong type,
\* which was passed over as a whole, the rest comes into force with the entry.
AllowKeepsRest == [][
    \A v \in AddValue : user' # user /\ Allow(v) =>
        /\ ToSet(Effective'.allow) = ToSet(Readable.allow) \cup {v}
        /\ [Effective' EXCEPT !.allow = <<>>, !.filter = FALSE] =
             [Readable EXCEPT !.allow = <<>>, !.filter = FALSE]
        /\ Effective'.filter => Readable.filter
        /\ Decoded(user).kind = "yaml" =>
             ToSet(user.doc.allow) \subseteq ToSet(user'.doc.allow)]_vars

\* The view of the command: the project file read-only over its directory; each
\* agent whose directory is found under the path as it is written, which none that
\* begins with "~" is, finds it at home, in whatever order the map is walked, and
\* any other agent nothing; each share is there unless a later one has the same last
\* part.  On both systems the proxy is xb's, whatever the host has set, and with the
\* filter on no variable of the host is left that no scope lists; those that are left
\* are the same, but for what sandboxEnv sets itself.
SandboxAsConfigured ==
    sb.on =>
        /\ sb.view[Workspace] =
             [source |-> "cwd", mode |-> IF sb.cfg.cwd = "ro" THEN "ro" ELSE "rw"]
        /\ sb.file => /\ ProjectFile \in DOMAIN sb.view
                      /\ sb.view[ProjectFile].mode = "ro"
        /\ \A a \in DOMAIN sb.cfg.persist \cap DOMAIN HomeOf :
             LET dir == sb.cfg.persist[a] IN
             IF dir \in HostDir
             THEN sb.view[HomeOf[a]] = [source |-> dir, mode |-> "rw"]
             ELSE HomeOf[a] \notin DOMAIN sb.view
        /\ \A i \in DOMAIN sb.cfg.shares :
             LET share == sb.cfg.shares[i] IN
             (\A j \in DOMAIN sb.cfg.shares :
                 j > i => ShareDest[sb.cfg.shares[j].path] # ShareDest[share.path]) =>
             sb.view[ShareDest[share.path]] =
                 [source |-> Expand[share.path],
                  mode |-> IF share.mode = "ro" THEN "ro" ELSE "rw"]
        /\ \A env \in {sb.env.linux, sb.env.darwin} :
             /\ \A v \in ProxyVars : v \in DOMAIN env /\ env[v] = "xb"
             /\ sb.cfg.filter => FromHost(env) \subseteq ToSet(sb.cfg.envAllow)
        /\ FromHost(sb.env.darwin) =
             FromHost(sb.env.linux) \ (Telemetry \cup CAVars(sb.cfg))

\* The comment on LoadUserOnly: xb --allow uses it "to persist only user additions",
\* so of what is in force, only the allow list changes.
AllowOnlyAdds == [][
    \A v \in AddValue : Allow(v) =>
        [Effective' EXCEPT !.allow = <<>>] = [Effective EXCEPT !.allow = <<>>]]_vars
===============================================================================
