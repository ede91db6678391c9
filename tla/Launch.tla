------------------------------- MODULE Launch -------------------------------
(***************************************************************************)
(* From a command line to what a command reads: main.rs resolves the       *)
(* profile, the command its window, and "query --reuse" looks for an entry *)
(* that an earlier command left for the same brokers and window.  Between  *)
(* commands the user edits the configuration and time passes.  An entry is *)
(* one value here: that it is whole is what ParquetCache is about.         *)
(***************************************************************************)
EXTENDS WindowFlags, Profiles

CONSTANTS
    Settings,      \* what the configuration files and the environment may hold
    Lines,         \* command lines
    Quota,         \* -n of sample, --schema-sample of schema
    TopicParts,    \* how many partitions the topic has
    Ttl,           \* DEFAULT_CACHE_TTL of query.rs
    MaxTime,       \* bound: the clock stops here
    MaxRecords,    \* bound: records in a window
    MaxEntries     \* bound: entries that are kept

FlagNames == {"last", "since", "from", "to", "offset", "limit"}

(* Cli and the arguments of its subcommands, as far as they matter here:   *)
(* Unset and Absent stand for what is not given.                           *)
ASSUME LaunchAssumption ==
    /\ \A l \in Lines :
         /\ l.command \in {"query", "repl", "schema", "sample", "topics", "none"}
         /\ {l.config, l.reuse, l.no_reuse} \subseteq BOOLEAN
         /\ DOMAIN l.flags = FlagNames
         /\ \A b \in FlagNames :
              /\ l.flags[b].value \in Int
              /\ l.flags[b].kind = "duration" => l.flags[b].value \in Nat
    /\ \A s \in Settings :
         /\ s = [explicit |-> s.explicit, default |-> s.default, env |-> s.env]
         /\ IsConfig(s.explicit) /\ IsConfig(s.default)
         /\ s.env["config"] \in BOOLEAN
    /\ Quota \in Nat /\ TopicParts \in Nat \ {0} /\ Ttl \in Nat /\ MaxTime \in Nat
    /\ MaxRecords \in Nat /\ MaxEntries \in Nat

VARIABLES
    clock,
    explicit,      \* what the file holds that --config or KQR_CONFIG names
    default,       \* what ~/.config/kqr/config.toml holds
    env,           \* the environment of the next command, or of this one
    cache,         \* cache[k]: who asked what, and when it was written
    line,          \* the command line
    stage,         \* where the command is
    profile,       \* what it connects with
    window,        \* what it reads
    taken          \* how many records it has consumed

user == <<explicit, default, env>>
vars == <<clock, user, cache, line, stage, profile, window, taken>>

(* The flags that may also be given as KQR_PROFILE, KQR_BROKERS and        *)
(* KQR_CONFIG, which says whether it is set and names the same file.       *)
Setting(f) == IF line[f] # Unset THEN line[f] ELSE env[f]

Named == line.config \/ env["config"]

NoLine ==
    [command |-> "none", config |-> FALSE, profile |-> Unset, brokers |-> Unset,
     reuse |-> FALSE, no_reuse |-> FALSE,
     flags |-> [b \in FlagNames |-> Absent]]

NoWindow == Rejected("none")

Over == {"usage", "version", "listed", "failed", "hit", "done"}

Init ==
    /\ clock = 0
    /\ \E s \in Settings : explicit = s.explicit /\ default = s.default /\ env = s.env
    /\ cache = [k \in {} |-> 0]
    /\ line = NoLine
    /\ stage = "idle"
    /\ profile = DefaultProfile
    /\ window = NoWindow
    /\ taken = 0

Tick ==
    /\ clock < MaxTime
    /\ clock' = clock + 1
    /\ UNCHANGED <<user, cache, line, stage, profile, window, taken>>

(* A command reads its files in one step, and its environment is its own,  *)
(* so that it is enough to change them between commands.                   *)
Edit ==
    /\ stage = "idle"
    /\ \E s \in Settings :
         explicit' = s.explicit /\ default' = s.default /\ env' = s.env
    /\ UNCHANGED <<clock, cache, line, stage, profile, window, taken>>

-----------------------------------------------------------------------------
(* main *)

(* clap: the groups of exclusive flags; topics has no flags of its own. *)
Accepted(l) ==
    \/ l.command \in {"none", "topics"}
    \/ /\ GroupAccepts(l.flags)
       /\ l.command = "query" => ~(l.reuse /\ l.no_reuse)

Invoke ==
    /\ stage = "idle"
    /\ line' \in Lines
    /\ stage' = IF Accepted(line') THEN "parsed" ELSE "usage"
    /\ UNCHANGED <<clock, user, cache, profile, window, taken>>

Configuration == Loaded(Named, explicit, default)

(* resolve_profile, which comes before the subcommand is looked at. *)
ProfileFails ==
    IF LoadFails(Named, explicit) THEN TRUE
    ELSE /\ Setting("brokers") = Unset /\ Configuration # NoConfig
         /\ ~Selectable(Configuration, Setting("profile"), env)

HasProfile == Setting("brokers") # Unset \/ Configuration # NoConfig

ResolveProfile ==
    IF Setting("brokers") # Unset
    THEN Override(Configuration, Setting("profile"), Setting("brokers"), env)
    ELSE SelectProfile(Configuration, Setting("profile"), env)

(* ... and then the match on the subcommand, with require_profile. *)
Dispatch ==
    /\ stage = "parsed"
    /\ stage' = IF ProfileFails THEN "failed"
                ELSE IF line.command = "none" THEN "version"
                ELSE IF ~HasProfile THEN "failed"
                ELSE IF line.command = "topics" THEN "connect"
                ELSE "flags"
    /\ profile' = IF stage' \in {"connect", "flags"} THEN ResolveProfile ELSE profile
    /\ UNCHANGED <<clock, user, cache, line, window, taken>>

-----------------------------------------------------------------------------
(* The subcommands *)

Caching == line.command = "query" /\ line.reuse /\ ~line.no_reuse

ParseFlags ==
    /\ stage = "flags"
    /\ window' = ResolveWindow(line.flags, clock)
    /\ stage' = IF window'.kind = "rejected" THEN "failed"
                ELSE IF Caching THEN "lookup" ELSE "connect"
    /\ UNCHANGED <<clock, user, cache, line, profile, taken>>

(* A mutant: the key leaves the brokers out. *)
KeyOfWindow(brokers, w) == <<CacheToken(w)>>

(* key_path, for one topic.  Its hashes are taken to be injective. *)
Key(brokers, w) == <<brokers, CacheToken(w)>>

(* ParquetCache::read *)
Hits(k) == k \in DOMAIN cache /\ clock - cache[k].written <= Ttl

Lookup ==
    /\ stage = "lookup"
    /\ stage' = IF Hits(Key(profile["brokers"], window)) THEN "hit" ELSE "connect"
    /\ UNCHANGED <<clock, user, cache, line, profile, window, taken>>

(* A mutant: blank brokers are left for librdkafka to find. *)
ConnectUnchecked ==
    /\ stage = "connect"
    /\ stage' = "read"
    /\ UNCHANGED <<clock, user, cache, line, profile, window, taken>>

(* RdkafkaSource::new *)
Connect ==
    /\ stage = "connect"
    /\ stage' = IF IsBlank(profile["brokers"]) THEN "failed" ELSE "read"
    /\ UNCHANGED <<clock, user, cache, line, profile, window, taken>>

(* The limit that the command passes to consume. *)
ConsumeLimit == IF line.command \in {"sample", "schema"} THEN Quota ELSE MaxRecords

(* An offset window holds no more than a share of the limit, and at least  *)
(* one record, of each partition.  (Resolve looks at limits that wrap.)    *)
WindowHolds ==
    LET share == window.limit \div TopicParts
    IN  IF window.kind # "offset" THEN MaxRecords
        ELSE TopicParts * (IF share >= 1 THEN share ELSE 1)

(* A mutant: the entry is stamped with the time at which it expires. *)
EntryExpiring == [brokers |-> profile["brokers"], window |-> window, written |-> clock + Ttl]

Entry == [brokers |-> profile["brokers"], window |-> window, written |-> clock]

(* Anything that talks to Kafka may also fail, and all but sample and      *)
(* topics do when the window is empty.                                     *)
ReadFails ==
    /\ stage = "read"
    /\ stage' = "failed"
    /\ UNCHANGED <<clock, user, cache, line, profile, window, taken>>

List ==
    /\ stage = "read" /\ line.command = "topics"
    /\ stage' = "listed"
    /\ UNCHANGED <<clock, user, cache, line, profile, window, taken>>

Read ==
    /\ stage = "read" /\ line.command # "topics"
    /\ \E n \in 0 .. MaxRecords :
         /\ n = 0 => line.command = "sample"
         /\ n <= ConsumeLimit /\ n <= WindowHolds
         /\ taken' = n
    /\ stage' = IF Caching THEN "write" ELSE "done"
    /\ UNCHANGED <<clock, user, cache, line, profile, window>>

(* ParquetCache::write, which may fail and then changes nothing. *)
Write ==
    /\ stage = "write"
    /\ LET k == Key(profile["brokers"], window)
           kept == [j \in DOMAIN cache \cup {k} |-> IF j = k THEN Entry ELSE cache[j]]
       IN  \/ Cardinality(DOMAIN kept) <= MaxEntries /\ cache' = kept
           \/ UNCHANGED cache
    /\ stage' = "done"
    /\ UNCHANGED <<clock, user, line, profile, window, taken>>

(* The process ends; what stays are files. *)
Exit ==
    /\ stage \in Over
    /\ stage' = "idle"
    /\ line' = NoLine
    /\ profile' = DefaultProfile
    /\ window' = NoWindow
    /\ taken' = 0
    /\ UNCHANGED <<clock, user, cache>>

Next ==
    \/ Tick \/ Edit
    \/ Invoke \/ Dispatch \/ ParseFlags \/ Lookup \/ Connect
    \/ ReadFails \/ List \/ Read \/ Write \/ Exit

Spec == Init /\ [][Next]_vars

-----------------------------------------------------------------------------
(* Properties. *)

Bound == {"lookup", "connect", "read", "write", "hit", "done"}

(* The type of every variable but the values of configuration and flags.   *)
TypeOK ==
    /\ clock \in 0 .. MaxTime
    /\ [explicit |-> explicit, default |-> default, env |-> env] \in Settings
    /\ line \in Lines \cup {NoLine}
    /\ stage \in Over \cup Bound \cup {"idle", "parsed", "flags"}
    /\ DOMAIN profile = Fields
    /\ taken \in 0 .. MaxRecords
    /\ Cardinality(DOMAIN cache) <= MaxEntries
    /\ \A k \in DOMAIN cache : cache[k].written <= clock

(* An entry that is served was written by a command that read the same     *)
(* brokers for the same window but for less than a second, whatever was    *)
(* edited since, and whether the brokers came from a flag, the environment *)
(* or a profile.                                                           *)
HitAnswersTheQuestion ==
    stage = "hit" =>
        LET e == cache[Key(profile["brokers"], window)]
        IN  e.brokers = profile["brokers"] /\ SameQuestion(e.window, window)

(* Records come from brokers that were given, also when they come from the *)
(* cache, where nothing checks the brokers again.                          *)
AnswersHaveBrokers ==
    stage \in {"hit", "done", "listed"} => ~IsBlank(profile["brokers"])

(* A field of the configuration that is left out or expands in the         *)
(* environment at, and what a command has when it was taken over.          *)
Sound(raw, at) ==
    raw # Unset => \A i \in DOMAIN raw :
        raw[i].kind = "text" \/ (raw[i].kind = "reference" /\ at[raw[i].of] # Unset)

TakenOver(value, raw, at) ==
    IF raw = Unset THEN value = Unset
    ELSE /\ DOMAIN value = DOMAIN raw
         /\ \A i \in DOMAIN raw :
              value[i] = IF raw[i].kind = "text" THEN raw[i] ELSE Text(at[raw[i].of])

(* With --brokers or KQR_BROKERS a command connects to these brokers, and  *)
(* with the other fields of one sound profile, the one that was named or   *)
(* the default one, or with none: never with a user without its password,  *)
(* with what another profile says, or without credentials it could have.   *)
OneProfileOrNone ==
    (stage \in Bound \cup {"flags"} /\ Setting("brokers") # Unset) =>
        LET others == Fields \ {"brokers"}
            name == IF Setting("profile") # Unset THEN Setting("profile")
                    ELSE Configuration.default_profile
            known == Configuration # NoConfig /\ name \in DOMAIN Configuration.profiles
            raw == Configuration.profiles[name]
        IN  /\ profile["brokers"] = Setting("brokers")
            /\ IF known /\ \A f \in Fields : Sound(raw[f], env)
               THEN \A f \in others : TakenOver(profile[f], raw[f], env)
               ELSE \A f \in others : profile[f] = Unset

(* Without --brokers a command runs with the profile that was named, or    *)
(* the default one, all of it, or not at all.                              *)
NamedProfileOrNone ==
    (stage \in Bound \cup {"flags"} /\ Setting("brokers") = Unset) =>
        LET name == IF Setting("profile") # Unset THEN Setting("profile")
                    ELSE Configuration.default_profile
        IN  /\ name \in DOMAIN Configuration.profiles
            /\ \A f \in Fields :
                 LET raw == Configuration.profiles[name][f]
                 IN  IF raw = Unset THEN profile[f] = Unset
                     ELSE /\ DOMAIN profile[f] = DOMAIN raw
                          /\ \A i \in DOMAIN raw :
                               raw[i].kind = "text" => profile[f][i] = raw[i]

(* No reference to the environment gets as far as a connection, unless the *)
(* user wrote it after --brokers.                                          *)
NothingUnexpanded ==
    \A f \in Fields :
        (profile[f] # Unset /\ (f = "brokers" => Setting("brokers") = Unset)) =>
            \A i \in DOMAIN profile[f] : profile[f][i].kind = "text"

(* A duration that reaches beyond what chrono can represent.               *)
Far(f) ==
    f.since.kind = "duration" /\ (f.since.value > MaxDelta \/ f.since.value > Reach)

(* The instants that the lower bound may have meant, up to now.            *)
LowerInstants(f) ==
    CASE f.from.kind = "instant"   -> {f.from.value}
      [] f.since.kind = "instant"  -> {f.since.value}
      [] f.since.kind = "duration" -> {now - f.since.value : now \in 0 .. clock}
      [] OTHER -> {}

WellFormed(f) ==
    /\ Present(f) \in Groups
    /\ f.last.kind \in {"absent", "duration"}
    /\ f.since.kind \in {"absent", "duration", "instant"}
    /\ f.from.kind \in {"absent", "instant"}
    /\ f.to.kind \in {"absent", "instant"}

IsDecision(f, w) ==
    /\ w.kind # "rejected" =>
         /\ WellFormed(f)
         /\ w.kind = "range" =>
              /\ w.from \in LowerInstants(f)
              /\ w.to = (IF Given(f.to) THEN f.to ELSE Open)
              /\ Given(f.to) => w.from < f.to.value
    /\ (w.kind = "rejected" /\ w # NoWindow) =>
         ~WellFormed(f) \/ (Given(f.to) /\ \E t \in LowerInstants(f) : f.to.value <= t)

(* Flags that resolve does not look at: --to next to --offset, and --limit *)
(* without it.                                                             *)
PassesOver(f) ==
    \/ Given(f.offset) /\ Given(f.to)
    \/ Given(f.limit) /\ ~Given(f.offset)

(* resolve accepts what DESIGN.md D allows, with values that parse and an  *)
(* end after the beginning, and nothing else, and the window it returns is *)
(* the one described there.  Two kinds of command lines are left aside, on *)
(* which it does not do so (SettingsBind): flags that it passes over, and  *)
(* durations that chrono cannot represent.                                 *)
FlagsDecide ==
    Far(line.flags) \/ PassesOver(line.flags) \/ IsDecision(line.flags, window)

-----------------------------------------------------------------------------
(* What the documentation says of single settings. *)

(* "--limit: Hard cap on messages consumed", cli.rs.                       *)
LimitCaps == Given(line.flags.limit) => taken <= line.flags.limit.value

(* "--to: Absolute upper bound", and an error next to --offset, DESIGN.md. *)
ToEnds ==
    (Given(line.flags.to) /\ window.kind # "rejected") =>
        window.kind = "range" /\ window.to = line.flags.to

(* "--since DURATION: the same as --last", README.md, which subtracts any  *)
(* duration.                                                               *)
SinceIsLast ==
    (line.flags.since.kind = "duration" /\ ~Given(line.flags.to)) =>
        /\ window # Rejected("panic")
        /\ window.kind = "range" => window.from \in LowerInstants(line.flags)

(* "Adjust the TTL with [cache] ttl", README.md.                           *)
TtlHolds ==
    (stage = "hit" /\ Configuration # NoConfig) =>
        clock - cache[Key(profile["brokers"], window)].written <= Configuration.ttl

(* A setting that the user gives is refused, or it does what is documented.*)
SettingsBind == LimitCaps /\ ToEnds /\ SinceIsLast /\ TtlHolds
=============================================================================
