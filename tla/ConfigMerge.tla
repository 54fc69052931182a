------------------------------ MODULE ConfigMerge ------------------------------
(***************************************************************************)
(* pkg/config/config.go as operators: what a file contributes, how the     *)
(* built-in defaults, the user file and the project file are merged, and   *)
(* what is written back.                                                   *)
(*                                                                         *)
(* A configuration is a record.  Of the scalars three are kept, which      *)
(* other parts read: cwd, logFile and caBundle, "" when not set; the       *)
(* others (policy, upstream proxy, resources) are merged alike.  allow,    *)
(* deny, envAllow and caVars stand for all lists of unique entries.  A     *)
(* file that can be parsed holds a document, which is a configuration but  *)
(* for filter: <<>> when env.filter is not set.                            *)
(***************************************************************************)
EXTENDS SequencesExt

\* The zero value of Config.
Zero == [allow |-> <<>>, deny |-> <<>>, envAllow |-> <<>>, filter |-> FALSE,
         logFile |-> "", cwd |-> "", caBundle |-> "", caVars |-> <<>>,
         shares |-> <<>>, persist |-> <<>>]

EmptyDocument == [Zero EXCEPT !.filter = <<>>]

\* yaml.Unmarshal into a zero Config, and yaml.Marshal, which writes env.filter
\* whatever it is.
Unmarshal(doc) == [doc EXCEPT !.filter = (@ = <<TRUE>>)]
Marshal(cfg)   == [cfg EXCEPT !.filter = <<@>>]

\* The states of a file.  Of one with a slip in its syntax nothing is decoded; of
\* one with values of a wrong type the rest, doc, is, and there is an error too.
Absent        == [kind |-> "absent"]
Yaml(doc)     == [kind |-> "yaml", doc |-> doc]
Malformed     == [kind |-> "malformed"]
Mistyped(doc) == [kind |-> "mistyped", doc |-> doc]

\* Mutant of AppendUnique: a plain append.
AppendUnique_Plain(base, extras) == base \o extras

\* appendUnique: the entries of extras in turn, each unless it is there already.
AppendUnique(base, extras) ==
    LET upTo[n \in 0..Len(extras)] ==
          IF n = 0 THEN base
          ELSE LET list == upTo[n - 1]
               IN  IF Contains(list, extras[n]) THEN list ELSE Append(list, extras[n])
    IN  upTo[Len(extras)]

\* A scalar of the overlay wins when it is set.
Scalar(base, overlay) == IF overlay = "" THEN base ELSE overlay

\* A map of the overlay is written over that of the base, key by key.
Override(base, overlay) ==
    [k \in DOMAIN base \cup DOMAIN overlay |->
        IF k \in DOMAIN overlay THEN overlay[k] ELSE base[k]]

\* env.filter is a scalar that only an overlay with TRUE leaves alone; shares are
\* not looked at for duplicates.
Merge(base, overlay) ==
    [base EXCEPT
       !.allow    = AppendUnique(@, overlay.allow),
       !.deny     = AppendUnique(@, overlay.deny),
       !.envAllow = AppendUnique(@, overlay.envAllow),
       !.filter   = @ /\ overlay.filter,
       !.logFile  = Scalar(@, overlay.logFile),
       !.cwd      = Scalar(@, overlay.cwd),
       !.caBundle = Scalar(@, overlay.caBundle),
       !.caVars   = AppendUnique(@, overlay.caVars),
       !.shares   = @ \o overlay.shares,
       !.persist  = Override(@, overlay.persist)]

\* A file that cannot be read, or not without an error, contributes nothing.
LoadAndMerge(base, file) ==
    IF file.kind = "yaml" THEN Merge(base, Unmarshal(file.doc)) ELSE base

Load(default, user, project) == LoadAndMerge(LoadAndMerge(default, user), project)

\* Mutant of LoadUserOnly: the old content is not read.
LoadUserOnly_Fresh(user) == Zero

\* The user file alone: whatever was decoded, the error is ignored.
LoadUserOnly(user) ==
    IF user.kind \in {"yaml", "mistyped"} THEN Unmarshal(user.doc) ELSE Zero

SaveDefault(cfg) == Yaml(Marshal(cfg))
===============================================================================
