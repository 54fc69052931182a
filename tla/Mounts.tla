-------------------------------- MODULE Mounts ---------------------------------
(***************************************************************************)
(* What a sandbox sees of the host: on Linux the mounts of PrepareMounts   *)
(* as bwrap makes them, one over the other (pkg/fs/mounts.go), and on both *)
(* systems the environment: what is left of xb's own and what xb sets      *)
(* (BuildBwrapArgs there and the scripts of sandbox_linux.go, sandboxEnv   *)
(* in pkg/sandbox/sandbox.go).                                             *)
(***************************************************************************)
EXTENDS SequencesExt, FiniteSets

CONSTANTS
    HomeOf,     \* agentHomePath: where a known agent finds its directory
    ShareDest,  \* where a shared path is mounted: /mnt/shared and its last part
    HostDir,    \* the directories of the host that exist
    Expand,     \* expandPath and expandTilde: "~" becomes the home directory
    HostEnv     \* the variables of xb's own environment that are not empty

Mount(source, dest, mode) == [source |-> source, dest |-> dest, mode |-> mode]

Workspace   == "/workspace"
ProjectFile == "/workspace/.xb.yaml"
System      == <<"/usr", "/bin", "/sbin", "/etc", "/lib", "/lib64">>

ASSUME MountsAssumption ==
    LET homes  == {HomeOf[a] : a \in DOMAIN HomeOf}
        shares == {ShareDest[p] : p \in DOMAIN ShareDest}
        fixed  == {Workspace, ProjectFile} \cup ToSet(System)
    IN  /\ IsFiniteSet(DOMAIN HomeOf)
        /\ \A a, b \in DOMAIN HomeOf : HomeOf[a] = HomeOf[b] => a = b
        /\ homes \cap shares = {} /\ (homes \cup shares) \cap fixed = {}

\* A directory that os.Stat does not find is left out; its path is taken as it
\* is written, unlike that of a share.
Mounted(cfg) ==
    {a \in DOMAIN cfg.persist \cap DOMAIN HomeOf : cfg.persist[a] \in HostDir}

\* Those agents in some order: a range over a Go map starts anywhere.
AgentOrders(cfg) ==
    {order \in [1..Cardinality(Mounted(cfg)) -> Mounted(cfg)] : ToSet(order) = Mounted(cfg)}

AgentMounts(cfg, order) ==
    [i \in DOMAIN order |-> Mount(cfg.persist[order[i]], HomeOf[order[i]], "rw")]

ShareMounts(cfg) ==
    [i \in DOMAIN cfg.shares |->
        LET s == cfg.shares[i] IN Mount(Expand[s.path], ShareDest[s.path], s.mode)]

SystemMounts == [i \in DOMAIN System |-> Mount(System[i], System[i], "ro")]

\* Mutant of PrepareMounts: the project file is mounted before its directory.
PrepareMounts_FileFirst(cfg, hasProjectFile, order) ==
    (IF hasProjectFile THEN <<Mount("cwd/.xb.yaml", ProjectFile, "ro")>> ELSE <<>>)
    \o <<Mount("cwd", Workspace, cfg.cwd)>>
    \o AgentMounts(cfg, order) \o ShareMounts(cfg) \o SystemMounts

PrepareMounts(cfg, hasProjectFile, order) ==
    <<Mount("cwd", Workspace, cfg.cwd)>>
    \o (IF hasProjectFile THEN <<Mount("cwd/.xb.yaml", ProjectFile, "ro")>> ELSE <<>>)
    \o AgentMounts(cfg, order) \o ShareMounts(cfg) \o SystemMounts

\* A mount hides what was mounted at its place, or under it, before.
Hides(m, dest) == \/ dest = m.dest
                  \/ m.dest = Workspace /\ dest = ProjectFile

\* --bind for every mode but "ro".
Mode(m) == IF m.mode = "ro" THEN "ro" ELSE "rw"

\* The view after all mounts, from the places inside to [source, mode]: the mounts
\* that no later one hides.
View(mounts) ==
    LET seen == {i \in DOMAIN mounts :
                   \A j \in DOMAIN mounts : j > i => ~Hides(mounts[j], mounts[i].dest)}
    IN  [p \in {mounts[i].dest : i \in seen} |->
           LET m == mounts[CHOOSE i \in seen : mounts[i].dest = p]
           IN  [source |-> m.source, mode |-> Mode(m)]]

\* The variables of an environment and whose values they have: what xb sets comes
\* last and wins.
Environment(kept, set) == [v \in kept \cup set |-> IF v \in set THEN "xb" ELSE "host"]
FromHost(env) == {v \in DOMAIN env : env[v] = "host"}

ProxyVars == {"HTTP_PROXY", "HTTPS_PROXY", "NO_PROXY"}
Telemetry == {"DISABLE_TELEMETRY", "DISABLE_ERROR_REPORTING",
              "CLAUDE_CODE_DISABLE_NONESSENTIAL_TRAFFIC"}
CAVars(cfg) == IF cfg.caBundle = "" THEN {} ELSE ToSet(cfg.caVars)

\* On Linux: --clearenv is given only with a list that is not empty; the setup
\* script sets the proxy.
LinuxEnv(cfg) ==
    LET whitelist == IF cfg.filter THEN cfg.envAllow ELSE <<>>
    IN  Environment(IF whitelist = <<>> THEN HostEnv ELSE HostEnv \cap ToSet(whitelist),
                    ProxyVars)

\* On macOS: sandboxEnv, whose filteredEnv goes by the list whatever it holds.
DarwinEnv(cfg) ==
    Environment(IF cfg.filter THEN HostEnv \cap ToSet(cfg.envAllow) ELSE HostEnv,
                ProxyVars \cup Telemetry \cup CAVars(cfg))
===============================================================================
