------------------------------ MODULE Profiles ------------------------------
(***************************************************************************)
(* The configuration file and the profile a command runs with (config.rs   *)
(* and resolve_profile of main.rs).  A string of the file is a sequence of *)
(* parts: plain text, a reference to a variable of the environment, or a   *)
(* reference that is empty or not closed.                                  *)
(***************************************************************************)
EXTENDS Naturals, Sequences

CONSTANTS
    Unset,          \* a variable, a flag or a field that has no value
    Blank,          \* a text of white space
    Fields,         \* fields of a profile, "brokers" among them
    DefaultName     \* the name that default_profile has when it is left out

ASSUME ProfileAssumption == "brokers" \in Fields

Text(x) == [kind |-> "text", of |-> x]
Reference(v) == [kind |-> "reference", of |-> v]
Broken == [kind |-> "broken", of |-> Blank]

IsString(s) == \A i \in DOMAIN s : s[i].kind \in {"text", "reference", "broken"}

(* A mutant: an unset variable is left as it is written. *)
ExpandsLeniently(s, env) == \A i \in DOMAIN s : s[i].kind # "broken"

(* expand_env: it fails, or puts the value of every variable in its place, *)
(* which is not looked at again.                                           *)
Expands(s, env) ==
    \A i \in DOMAIN s :
        /\ s[i].kind # "broken"
        /\ s[i].kind = "reference" => env[s[i].of] # Unset

Expanded(s, env) ==
    [i \in DOMAIN s |->
        IF s[i].kind = "reference" /\ env[s[i].of] # Unset THEN Text(env[s[i].of]) ELSE s[i]]

(* Nothing but white space is left of it after trim. *)
IsBlank(s) == \A i \in DOMAIN s : s[i] = Text(Blank)

-----------------------------------------------------------------------------
(* Config: what the file at a path holds, if it can be read and parsed.    *)

NoConfig == [kind |-> "none"]
Malformed == [kind |-> "malformed"]
Config(name, profiles, ttl) ==
    [kind |-> "config", default_profile |-> name, profiles |-> profiles, ttl |-> ttl]

IsConfig(c) ==
    \/ c \in {NoConfig, Malformed}
    \/ /\ c = Config(c.default_profile, c.profiles, c.ttl)
       /\ c.ttl \in Nat
       /\ \A n \in DOMAIN c.profiles :
            /\ c.profiles[n]["brokers"] # Unset
            /\ \A f \in Fields : c.profiles[n][f] # Unset => IsString(c.profiles[n][f])

(* A file without the line default_profile. *)
Unnamed(profiles, ttl) == Config(DefaultName, profiles, ttl)

(* Profile::default() *)
DefaultProfile == [f \in Fields |-> IF f = "brokers" THEN <<>> ELSE Unset]

(* A mutant: an unknown name means the default profile. *)
ChosenNameLenient(cfg, name) ==
    IF name \in DOMAIN cfg.profiles THEN name ELSE cfg.default_profile

(* select_profile: the profile of that name, or the default one, with all  *)
(* its fields expanded.                                                    *)
ChosenName(cfg, name) == IF name # Unset THEN name ELSE cfg.default_profile

Selectable(cfg, name, env) ==
    /\ ChosenName(cfg, name) \in DOMAIN cfg.profiles
    /\ LET p == cfg.profiles[ChosenName(cfg, name)]
       IN  \A f \in Fields : p[f] # Unset => Expands(p[f], env)

SelectProfile(cfg, name, env) ==
    LET p == cfg.profiles[ChosenName(cfg, name)]
    IN  [f \in Fields |-> IF p[f] = Unset THEN Unset ELSE Expanded(p[f], env)]

-----------------------------------------------------------------------------
(* resolve_profile *)

(* The configuration in force.  A file that was named must load; whatever  *)
(* is wrong with the default one only earns a warning, and one without     *)
(* profiles counts as none.                                                *)
LoadFails(named, explicit) == named /\ explicit.kind # "config"

Loaded(named, explicit, default) ==
    IF named THEN explicit
    ELSE IF default.kind = "config" /\ DOMAIN default.profiles # {} THEN default
    ELSE NoConfig

(* A mutant: fields are taken one by one, those left out that fail. *)
OverridePartly(cfg, name, brokers, env) ==
    IF cfg = NoConfig \/ ChosenName(cfg, name) \notin DOMAIN cfg.profiles
    THEN [DefaultProfile EXCEPT !["brokers"] = brokers]
    ELSE LET p == cfg.profiles[ChosenName(cfg, name)]
         IN  [f \in Fields |->
                IF f = "brokers" THEN brokers
                ELSE IF p[f] # Unset /\ Expands(p[f], env) THEN Expanded(p[f], env) ELSE Unset]

(* --brokers: the profile gives the other fields, if there is one and all  *)
(* of it, its own brokers included, expands.                               *)
Override(cfg, name, brokers, env) ==
    [ (IF cfg # NoConfig /\ Selectable(cfg, name, env)
       THEN SelectProfile(cfg, name, env) ELSE DefaultProfile)
      EXCEPT !["brokers"] = brokers ]
=============================================================================
