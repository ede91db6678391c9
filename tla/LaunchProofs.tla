---------------------------- MODULE LaunchProofs ----------------------------
(***************************************************************************)
(* What a command reads is what was asked for, for every configuration,    *)
(* environment and sequence of command lines.                              *)
(***************************************************************************)
EXTENDS Launch, FiniteSetTheorems, TLAPS

-----------------------------------------------------------------------------
(* The inductive invariant. *)

IsWindow(w) ==
    \/ w = LastWindow(w.span) /\ w.span \in Nat
    \/ w = RangeWindow(w.from, w.to)
    \/ w = OffsetWindow(w.start, w.limit)

(* A command has no profile until it has resolved one. *)
ProfileInv == stage \in {"idle", "parsed", "usage"} => profile = DefaultProfile

(* A window that is looked for or read is one. *)
WindowInv ==
    /\ stage \in {"lookup", "write", "hit"} => line.command = "query"
    /\ (stage \in Bound /\ line.command # "topics") => IsWindow(window)

(* Brokers that were connected to are not blank. *)
BrokersInv == stage \in {"read", "write", "done", "listed"} => ~IsBlank(profile["brokers"])

(* An entry is filed under what it answers. *)
EntriesInv ==
    /\ \A k \in DOMAIN cache :
         /\ k = Key(cache[k].brokers, cache[k].window)
         /\ IsWindow(cache[k].window)
         /\ ~IsBlank(cache[k].brokers)
         /\ cache[k].written \in 0 .. clock
    /\ stage = "hit" => Key(profile["brokers"], window) \in DOMAIN cache

LaunchInv ==
    /\ TypeOK /\ ProfileInv /\ WindowInv /\ BrokersInv /\ EntriesInv
    /\ OneProfileOrNone /\ NamedProfileOrNone /\ NothingUnexpanded

-----------------------------------------------------------------------------
(* Windows and their keys *)

(* At most one lower bound is given, or the flags conflict.                *)
LEMMA OneLowerBound ==
    ASSUME NEW f
    PROVE  \/ Cardinality(LowerBounds(f)) > 1
           \/ /\ ~(Cardinality(LowerBounds(f)) > 1)
              /\ LowerBounds(f) \in {{}, {"last"}, {"since"}, {"from"}, {"offset"}}
<1>1. LowerBounds(f) \in SUBSET {"last", "since", "from", "offset"}
  BY DEF LowerBounds
<1>2. IsFiniteSet({"last", "since", "from", "offset"})
  <2>1. IsFiniteSet({"last"})
    BY FS_Singleton
  <2>2. IsFiniteSet({"last"} \cup {"since"})
    BY <2>1, FS_AddElement
  <2>3. IsFiniteSet(({"last"} \cup {"since"}) \cup {"from"})
    BY <2>2, FS_AddElement
  <2>4. IsFiniteSet((({"last"} \cup {"since"}) \cup {"from"}) \cup {"offset"})
    BY <2>3, FS_AddElement
  <2>5. (({"last"} \cup {"since"}) \cup {"from"}) \cup {"offset"} = {"last", "since", "from", "offset"}
    OBVIOUS
  <2>. QED  BY <2>4, <2>5
<1>3. IsFiniteSet(LowerBounds(f))
  BY <1>1, <1>2, FS_Subset
<1>4. Cardinality(LowerBounds(f)) \in Nat
  BY <1>3, FS_CardinalityType
<1>5. CASE Cardinality(LowerBounds(f)) = 0
  <2>1. LowerBounds(f) = {}
    BY <1>3, <1>5, FS_EmptySet
  <2>. QED  BY <1>5, <2>1
<1>6. CASE Cardinality(LowerBounds(f)) = 1
  <2>1. PICK b : LowerBounds(f) = {b}
    BY <1>3, <1>6, FS_Singleton
  <2>2. b \in {"last", "since", "from", "offset"}
    BY <1>1, <2>1
  <2>. QED  BY <1>6, <2>1, <2>2
<1>7. CASE Cardinality(LowerBounds(f)) > 1
  BY <1>7
<1>. QED  BY <1>4, <1>5, <1>6, <1>7

(* What resolve returns is a window, or an error.                          *)
LEMMA ResolvedIsWindow ==
    ASSUME NEW f, NEW now \in Int,
           \A b \in FlagNames :
              /\ f[b].value \in Int
              /\ f[b].kind = "duration" => f[b].value \in Nat,
           ResolveWindow(f, now).kind # "rejected"
    PROVE  IsWindow(ResolveWindow(f, now))
<1>. DEFINE w == ResolveWindow(f, now)
<1>1. \A e : Rejected(e).kind = "rejected"
  BY DEF Rejected
<1>2. \A d \in Nat : IsWindow(LastWindow(d))
  BY DEF IsWindow, LastWindow
<1>3. \A t, to : IsWindow(RangeWindow(t, to))
  BY DEF IsWindow, RangeWindow
<1>4. \A s, n : IsWindow(OffsetWindow(s, n))
  BY DEF IsWindow, OffsetWindow
<1>5. \A t, to : ResolveRange(t, to).kind # "rejected" => IsWindow(ResolveRange(t, to))
  BY <1>1, <1>3 DEF ResolveRange
<1>6. \A b, to : ResolveFrom(b, to).kind # "rejected" => IsWindow(ResolveFrom(b, to))
  BY <1>1, <1>5 DEF ResolveFrom
<1>7. CASE Cardinality(LowerBounds(f)) > 1
  <2>1. LowerBounds(f) \notin {{}, {"last"}, {"since"}, {"from"}, {"offset"}}
    <3>1. Cardinality({}) = 0 /\ \A x : Cardinality({x}) = 1
      BY FS_EmptySet, FS_Singleton
    <3>2. ~(0 > 1) /\ ~(1 > 1)
      OBVIOUS
    <3>. QED  BY <1>7, <3>1, <3>2
  <2>2. w = Rejected("WindowConflict")
    BY <1>7, <2>1 DEF ResolveWindow
  <2>. QED  BY <1>1, <2>2
<1>8. CASE ~(Cardinality(LowerBounds(f)) > 1)
  <2>1. CASE LowerBounds(f) = {"last"}
    <3>1. w = ResolveLast(f)
      BY <1>8, <2>1 DEF ResolveWindow
    <3>2. f["last"].kind = "duration" => f["last"].value \in Nat
      BY DEF FlagNames
    <3>. QED  BY <1>1, <1>2, <3>1, <3>2 DEF ResolveLast
  <2>2. CASE LowerBounds(f) = {"since"}
    <3>1. w = ResolveSince(f, now)
      BY <1>8, <2>2 DEF ResolveWindow
    <3>. QED  BY <1>1, <1>5, <1>6, <3>1 DEF ResolveSince
  <2>3. CASE LowerBounds(f) = {"from"}
    <3>1. w = ResolveFrom(f.from, f.to)
      BY <1>8, <2>3 DEF ResolveWindow
    <3>. QED  BY <1>6, <3>1
  <2>4. CASE LowerBounds(f) = {"offset"}
    <3>1. w = ResolveOffset(f)
      BY <1>8, <2>4 DEF ResolveWindow
    <3>. QED  BY <1>1, <1>4, <3>1 DEF ResolveOffset
  <2>5. CASE LowerBounds(f) = {}
    <3>1. w = ResolveDefault(f)
      BY <1>8, <2>5 DEF ResolveWindow
    <3>. QED  BY <1>1, <1>2, <3>1, WindowAssumption DEF ResolveDefault
  <2>. QED  BY <1>8, <2>1, <2>2, <2>3, <2>4, <2>5, OneLowerBound
<1>. QED  BY <1>7, <1>8

(* Durations with the same number of whole seconds differ by less than one.*)
LEMMA WholeSeconds ==
    ASSUME NEW a \in Nat, NEW b \in Nat, NEW p \in Nat \ {0}, a \div p = b \div p
    PROVE  a - b < p /\ b - a < p
OBVIOUS

(* Windows with one token ask the same question.                           *)
LEMMA TokensTell ==
    ASSUME NEW v, NEW w, IsWindow(v), IsWindow(w), CacheToken(v) = CacheToken(w)
    PROVE  SameQuestion(v, w)
<1>1. ASSUME NEW x, IsWindow(x)
      PROVE  \/ /\ x.kind = "last" /\ x.span \in Nat
                /\ CacheToken(x) = <<"last", x.span \div PerSecond>>
             \/ /\ x.kind = "range" /\ x = RangeWindow(x.from, x.to)
                /\ CacheToken(x) = <<"range", x.from, x.to>>
             \/ /\ x.kind = "offset" /\ x = OffsetWindow(x.start, x.limit)
                /\ CacheToken(x) = <<"offset", x.start, x.limit>>
  <2>1. CASE x = LastWindow(x.span) /\ x.span \in Nat
    BY <2>1 DEF LastWindow, CacheToken
  <2>2. CASE x = RangeWindow(x.from, x.to)
    BY <2>2 DEF RangeWindow, CacheToken
  <2>3. CASE x = OffsetWindow(x.start, x.limit)
    BY <2>3 DEF OffsetWindow, CacheToken
  <2>. QED  BY <1>1, <2>1, <2>2, <2>3 DEF IsWindow
<1>2. v.kind = CacheToken(v)[1] /\ w.kind = CacheToken(w)[1]
  BY <1>1
<1>3. v.kind = w.kind
  BY <1>2
<1>4. CASE v.kind = "last"
  <2>1. v.span \div PerSecond = w.span \div PerSecond /\ v.span \in Nat /\ w.span \in Nat
    BY <1>1, <1>3, <1>4
  <2>2. v.span - w.span < PerSecond /\ w.span - v.span < PerSecond
    BY <2>1, WholeSeconds, WindowAssumption
  <2>. QED  BY <1>3, <1>4, <2>2 DEF SameQuestion
<1>5. CASE v.kind = "range"
  <2>1. v.from = w.from /\ v.to = w.to
    BY <1>1, <1>3, <1>5
  <2>2. v = RangeWindow(v.from, v.to) /\ w = RangeWindow(w.from, w.to)
    BY <1>1, <1>3, <1>5
  <2>. QED  BY <1>3, <1>5, <2>1, <2>2 DEF SameQuestion
<1>6. CASE v.kind = "offset"
  <2>1. v.start = w.start /\ v.limit = w.limit
    BY <1>1, <1>3, <1>6
  <2>2. v = OffsetWindow(v.start, v.limit) /\ w = OffsetWindow(w.start, w.limit)
    BY <1>1, <1>3, <1>6
  <2>. QED  BY <1>3, <1>6, <2>1, <2>2 DEF SameQuestion
<1>. QED  BY <1>1, <1>4, <1>5, <1>6

-----------------------------------------------------------------------------
(* Profiles *)

(* The default profile satisfies everything that is said of a profile.     *)
LEMMA DefaultIsBare ==
    /\ DOMAIN DefaultProfile = Fields
    /\ DefaultProfile["brokers"] = <<>>
    /\ \A f \in Fields : DefaultProfile[f] \in {Unset, <<>>}
BY ProfileAssumption DEF DefaultProfile

(* A profile that was selected has its fields, and no reference left.      *)
LEMMA SelectedIsExpanded ==
    ASSUME NEW cfg, NEW name, NEW environment, IsConfig(cfg), cfg # NoConfig, cfg.kind = "config",
           Selectable(cfg, name, environment)
    PROVE  LET s == SelectProfile(cfg, name, environment)
               p == cfg.profiles[ChosenName(cfg, name)]
           IN  /\ DOMAIN s = Fields
               /\ ChosenName(cfg, name) \in DOMAIN cfg.profiles
               /\ \A f \in Fields :
                    IF p[f] = Unset THEN s[f] = Unset
                    ELSE /\ DOMAIN s[f] = DOMAIN p[f]
                         /\ \A i \in DOMAIN p[f] :
                              /\ s[f][i].kind = "text"
                              /\ p[f][i].kind = "text" => s[f][i] = p[f][i]
<1>. DEFINE s == SelectProfile(cfg, name, environment)
            p == cfg.profiles[ChosenName(cfg, name)]
<1>1. ChosenName(cfg, name) \in DOMAIN cfg.profiles
  BY DEF Selectable
<1>2. s = [f \in Fields |-> IF p[f] = Unset THEN Unset ELSE Expanded(p[f], environment)]
  BY DEF SelectProfile
<1>3. ASSUME NEW f \in Fields, p[f] # Unset
      PROVE  /\ DOMAIN s[f] = DOMAIN p[f]
             /\ \A i \in DOMAIN p[f] :
                  /\ s[f][i].kind = "text"
                  /\ p[f][i].kind = "text" => s[f][i] = p[f][i]
  <2>1. s[f] = Expanded(p[f], environment)
    BY <1>2, <1>3
  <2>2. IsString(p[f])
    <3>1. cfg \notin {NoConfig, Malformed}
      BY DEF NoConfig, Malformed
    <3>. QED  BY <1>1, <1>3, <3>1 DEF IsConfig
  <2>3. Expands(p[f], environment)
    BY <1>3 DEF Selectable
  <2>4. ASSUME NEW i \in DOMAIN p[f]
        PROVE  /\ s[f][i].kind = "text"
               /\ p[f][i].kind = "text" => s[f][i] = p[f][i]
    <3>1. s[f][i] = IF p[f][i].kind = "reference" /\ environment[p[f][i].of] # Unset
                    THEN Text(environment[p[f][i].of]) ELSE p[f][i]
      BY <2>1 DEF Expanded
    <3>2. p[f][i].kind \in {"text", "reference"}
      BY <2>2, <2>3 DEF IsString, Expands
    <3>3. p[f][i].kind = "reference" => environment[p[f][i].of] # Unset
      BY <2>3 DEF Expands
    <3>4. \A x : Text(x).kind = "text"
      BY DEF Text
    <3>. QED  BY <3>1, <3>2, <3>3, <3>4
  <2>. QED  BY <2>1, <2>4 DEF Expanded
<1>. QED  BY <1>1, <1>2, <1>3

(* A profile is selected where all its fields are sound.                   *)
LEMMA SoundIsSelectable ==
    ASSUME NEW cfg, NEW name, IsConfig(cfg), cfg # NoConfig, cfg.kind = "config",
           ChosenName(cfg, name) \in DOMAIN cfg.profiles
    PROVE  Selectable(cfg, name, env)
             <=> \A f \in Fields : Sound(cfg.profiles[ChosenName(cfg, name)][f], env)
<1>. DEFINE p == cfg.profiles[ChosenName(cfg, name)]
<1>1. ASSUME NEW f \in Fields, p[f] # Unset PROVE Sound(p[f], env) <=> Expands(p[f], env)
  <2>1. IsString(p[f])
    <3>1. cfg \notin {NoConfig, Malformed}
      BY DEF NoConfig, Malformed
    <3>. QED  BY <1>1, <3>1 DEF IsConfig
  <2>. QED  BY <1>1, <2>1 DEF IsString, Sound, Expands
<1>2. \A f \in Fields : p[f] = Unset => Sound(p[f], env)
  BY DEF Sound
<1>. QED  BY <1>1, <1>2 DEF Selectable

(* What was selected was taken over from the profile as it stands.         *)
LEMMA SelectedIsTakenOver ==
    ASSUME NEW cfg, NEW name, IsConfig(cfg), cfg # NoConfig, cfg.kind = "config",
           Selectable(cfg, name, env)
    PROVE  LET s == SelectProfile(cfg, name, env)
               p == cfg.profiles[ChosenName(cfg, name)]
           IN  /\ ChosenName(cfg, name) \in DOMAIN cfg.profiles
               /\ \A f \in Fields : Sound(p[f], env) /\ TakenOver(s[f], p[f], env)
<1>. DEFINE s == SelectProfile(cfg, name, env)
            p == cfg.profiles[ChosenName(cfg, name)]
<1>1. ChosenName(cfg, name) \in DOMAIN cfg.profiles
  BY DEF Selectable
<1>2. \A f \in Fields : Sound(p[f], env)
  BY <1>1, SoundIsSelectable
<1>3. ASSUME NEW f \in Fields PROVE TakenOver(s[f], p[f], env)
  <2>1. s[f] = IF p[f] = Unset THEN Unset ELSE Expanded(p[f], env)
    BY DEF SelectProfile
  <2>2. CASE p[f] = Unset
    BY <2>1, <2>2 DEF TakenOver
  <2>3. CASE p[f] # Unset
    <3>1. s[f] = Expanded(p[f], env) /\ DOMAIN s[f] = DOMAIN p[f]
      BY <2>1, <2>3 DEF Expanded
    <3>2. ASSUME NEW i \in DOMAIN p[f]
          PROVE  s[f][i] = IF p[f][i].kind = "text" THEN p[f][i] ELSE Text(env[p[f][i].of])
      <4>1. p[f][i].kind = "text" \/ (p[f][i].kind = "reference" /\ env[p[f][i].of] # Unset)
        BY <1>2, <2>3 DEF Sound
      <4>2. s[f][i] = IF p[f][i].kind = "reference" /\ env[p[f][i].of] # Unset
                      THEN Text(env[p[f][i].of]) ELSE p[f][i]
        BY <3>1 DEF Expanded
      <4>. QED  BY <4>1, <4>2
    <3>. QED  BY <2>3, <3>1, <3>2 DEF TakenOver
  <2>. QED  BY <2>2, <2>3
<1>. QED  BY <1>1, <1>2, <1>3

-----------------------------------------------------------------------------
(* The steps *)

(* The files of any setting are configurations.                            *)
LEMMA SettingsHaveConfigs ==
    ASSUME TypeOK
    PROVE  /\ IsConfig(explicit) /\ IsConfig(default)
           /\ IsConfig(Configuration)
           /\ (Configuration # NoConfig /\ ~LoadFails(Named, explicit)) =>
                Configuration.kind = "config"
<1>1. IsConfig(explicit) /\ IsConfig(default)
  <2>1. PICK s \in Settings : s = [explicit |-> explicit, default |-> default, env |-> env]
    BY DEF TypeOK
  <2>. QED  BY <2>1, LaunchAssumption
<1>2. IsConfig(NoConfig)
  BY DEF IsConfig
<1>. QED  BY <1>1, <1>2 DEF Configuration, Loaded, LoadFails

(* Flags are well typed, also those of no command line.                    *)
LEMMA FlagsAreTyped ==
    ASSUME line \in Lines \cup {NoLine}
    PROVE  \A b \in FlagNames :
              /\ line.flags[b].value \in Int
              /\ line.flags[b].kind = "duration" => line.flags[b].value \in Nat
<1>1. CASE line \in Lines
  BY <1>1, LaunchAssumption
<1>2. CASE line = NoLine
  BY <1>2 DEF NoLine, Absent
<1>. QED  BY <1>1, <1>2

(* A step that leaves files, command line and profile alone.               *)
LEMMA ProfileStays ==
    ASSUME OneProfileOrNone, NamedProfileOrNone, NothingUnexpanded,
           UNCHANGED <<user, line, profile>>,
           stage' \in Bound \cup {"flags"} => stage \in Bound \cup {"flags"}
    PROVE  OneProfileOrNone' /\ NamedProfileOrNone' /\ NothingUnexpanded'
<1>1. explicit' = explicit /\ default' = default /\ env' = env /\ line' = line /\ profile' = profile
  BY DEF user
<1>2. Configuration' = Configuration
  BY <1>1 DEF Configuration, Named
<1>3. Setting("brokers")' = Setting("brokers") /\ Setting("profile")' = Setting("profile")
  BY <1>1 DEF Setting
<1>4. OneProfileOrNone'
  BY <1>1, <1>2, <1>3 DEF OneProfileOrNone
<1>5. NamedProfileOrNone'
  BY <1>1, <1>2, <1>3 DEF NamedProfileOrNone
<1>6. NothingUnexpanded'
  BY <1>1, <1>3 DEF NothingUnexpanded
<1>. QED  BY <1>4, <1>5, <1>6

(* A step after which there is no profile.                                 *)
LEMMA NoProfileNext ==
    ASSUME profile' = DefaultProfile, stage' \notin Bound \cup {"flags"}
    PROVE  OneProfileOrNone' /\ NamedProfileOrNone' /\ NothingUnexpanded'
<1>1. OneProfileOrNone' /\ NamedProfileOrNone'
  BY DEF OneProfileOrNone, NamedProfileOrNone
<1>2. NothingUnexpanded'
  BY DefaultIsBare DEF NothingUnexpanded
<1>. QED  BY <1>1, <1>2

LEMMA LaunchInit == Init => LaunchInv
<1>. SUFFICES ASSUME Init PROVE LaunchInv
  OBVIOUS
<1>. USE DEF Init
<1>1. TypeOK
  <2>1. [explicit |-> explicit, default |-> default, env |-> env] \in Settings
    BY LaunchAssumption
  <2>2. DOMAIN cache = {} /\ Cardinality({}) = 0
    BY FS_EmptySet
  <2>. QED  BY <2>1, <2>2, LaunchAssumption, DefaultIsBare DEF TypeOK
<1>2. ProfileInv /\ WindowInv /\ BrokersInv /\ EntriesInv
  BY DEF ProfileInv, WindowInv, BrokersInv, EntriesInv, Bound
<1>3. OneProfileOrNone /\ NamedProfileOrNone /\ NothingUnexpanded
  BY DefaultIsBare DEF OneProfileOrNone, NamedProfileOrNone, NothingUnexpanded, Bound
<1>. QED  BY <1>1, <1>2, <1>3 DEF LaunchInv

LEMMA TickKeeps == LaunchInv /\ Tick => LaunchInv'
<1>. SUFFICES ASSUME LaunchInv, Tick PROVE LaunchInv'
  OBVIOUS
<1>. USE DEF LaunchInv, Tick
<1>1. TypeOK'
  BY LaunchAssumption DEF TypeOK, EntriesInv, user
<1>2. ProfileInv' /\ WindowInv' /\ BrokersInv' /\ EntriesInv'
  BY LaunchAssumption DEF TypeOK, ProfileInv, WindowInv, BrokersInv, EntriesInv, user
<1>3. OneProfileOrNone' /\ NamedProfileOrNone' /\ NothingUnexpanded'
  BY ProfileStays
<1>. QED  BY <1>1, <1>2, <1>3

LEMMA EditKeeps == LaunchInv /\ Edit => LaunchInv'
<1>. SUFFICES ASSUME LaunchInv, Edit PROVE LaunchInv'
  OBVIOUS
<1>. USE DEF LaunchInv, Edit
<1>1. TypeOK'
  <2>1. [explicit |-> explicit', default |-> default', env |-> env'] \in Settings
    BY LaunchAssumption
  <2>. QED  BY <2>1 DEF TypeOK
<1>2. ProfileInv' /\ WindowInv' /\ BrokersInv' /\ EntriesInv'
  BY DEF ProfileInv, WindowInv, BrokersInv, EntriesInv, Bound
<1>3. profile' = DefaultProfile /\ stage' \notin Bound \cup {"flags"}
  BY DEF ProfileInv, Bound
<1>4. OneProfileOrNone' /\ NamedProfileOrNone' /\ NothingUnexpanded'
  BY <1>3, NoProfileNext
<1>. QED  BY <1>1, <1>2, <1>4

LEMMA InvokeKeeps == LaunchInv /\ Invoke => LaunchInv'
<1>. SUFFICES ASSUME LaunchInv, Invoke PROVE LaunchInv'
  OBVIOUS
<1>. USE DEF LaunchInv, Invoke
<1>0. stage' \in {"parsed", "usage"}
  OBVIOUS
<1>1. TypeOK'
  BY <1>0 DEF TypeOK, Over, user
<1>2. ProfileInv' /\ WindowInv' /\ BrokersInv' /\ EntriesInv'
  BY <1>0 DEF ProfileInv, WindowInv, BrokersInv, EntriesInv, Bound
<1>3. profile' = DefaultProfile /\ stage' \notin Bound \cup {"flags"}
  BY <1>0 DEF ProfileInv, Bound
<1>4. OneProfileOrNone' /\ NamedProfileOrNone' /\ NothingUnexpanded'
  BY <1>3, NoProfileNext
<1>. QED  BY <1>1, <1>2, <1>4

LEMMA DispatchKeeps == LaunchInv /\ Dispatch => LaunchInv'
<1>. SUFFICES ASSUME LaunchInv, Dispatch PROVE LaunchInv'
  OBVIOUS
<1>. USE DEF LaunchInv
<1>1. UNCHANGED <<clock, user, cache, line, window, taken>>
  BY DEF Dispatch
<1>2. profile = DefaultProfile /\ stage \notin Bound \cup {"flags"}
  BY DEF Dispatch, ProfileInv, Bound
<1>3. CASE stage' \notin {"connect", "flags"}
  <2>1. stage' \in {"failed", "version"} /\ profile' = DefaultProfile
    BY <1>2, <1>3 DEF Dispatch
  <2>2. TypeOK'
    BY <1>1, <1>2, <2>1 DEF TypeOK, Over, user
  <2>3. ProfileInv' /\ WindowInv' /\ BrokersInv' /\ EntriesInv'
    BY <1>1, <2>1 DEF ProfileInv, WindowInv, BrokersInv, EntriesInv, Bound
  <2>4. OneProfileOrNone' /\ NamedProfileOrNone' /\ NothingUnexpanded'
    BY <2>1, NoProfileNext DEF Bound
  <2>. QED  BY <2>2, <2>3, <2>4
<1>4. CASE stage' \in {"connect", "flags"}
  <2>. DEFINE name == Setting("profile")
              brokers == Setting("brokers")
              cfg == Configuration
  <2>1. ~ProfileFails /\ HasProfile /\ profile' = ResolveProfile
    BY <1>4 DEF Dispatch
  <2>2. stage' = "connect" => line.command = "topics"
    BY <1>4 DEF Dispatch
  <2>3. /\ explicit' = explicit /\ default' = default /\ env' = env /\ line' = line
        /\ Configuration' = cfg /\ Setting("profile")' = name /\ Setting("brokers")' = brokers
    BY <1>1 DEF user, Configuration, Named, Setting
  <2>4. IsConfig(cfg) /\ (cfg # NoConfig => cfg.kind = "config")
    BY <2>1, SettingsHaveConfigs DEF ProfileFails
  <2>5. ASSUME brokers = Unset
       PROVE  DOMAIN profile' = Fields /\ OneProfileOrNone' /\ NamedProfileOrNone' /\ NothingUnexpanded'
    <3>1. cfg # NoConfig /\ Selectable(cfg, name, env)
      BY <2>1, <2>5 DEF ProfileFails, HasProfile
    <3>2. profile' = SelectProfile(cfg, name, env)
      BY <2>1, <2>5 DEF ResolveProfile
    <3>3. DOMAIN profile' = Fields
      BY <2>4, <3>1, <3>2, SelectedIsExpanded
    <3>4. OneProfileOrNone'
      BY <2>3, <2>5 DEF OneProfileOrNone
    <3>5. NamedProfileOrNone'
      BY <2>3, <2>4, <3>1, <3>2, SelectedIsExpanded DEF NamedProfileOrNone, ChosenName
    <3>6. NothingUnexpanded'
      <4>1. ASSUME NEW f \in Fields, profile'[f] # Unset
            PROVE  \A i \in DOMAIN profile'[f] : profile'[f][i].kind = "text"
        BY <2>4, <3>1, <3>2, <4>1, SelectedIsExpanded
      <4>. QED  BY <4>1 DEF NothingUnexpanded
    <3>. QED  BY <3>3, <3>4, <3>5, <3>6
  <2>6. ASSUME brokers # Unset
       PROVE  DOMAIN profile' = Fields /\ OneProfileOrNone' /\ NamedProfileOrNone' /\ NothingUnexpanded'
    <3>. DEFINE base == IF cfg # NoConfig /\ Selectable(cfg, name, env)
                        THEN SelectProfile(cfg, name, env) ELSE DefaultProfile
    <3>1. profile' = [base EXCEPT !["brokers"] = brokers]
      BY <2>1, <2>6 DEF ResolveProfile, Override
    <3>2. DOMAIN base = Fields
      BY <2>4, SelectedIsExpanded, DefaultIsBare
    <3>3. \A f \in Fields : base[f] # Unset => \A i \in DOMAIN base[f] : base[f][i].kind = "text"
      <4>1. CASE cfg # NoConfig /\ Selectable(cfg, name, env)
        BY <2>4, <4>1, SelectedIsExpanded
      <4>2. CASE ~(cfg # NoConfig /\ Selectable(cfg, name, env))
        BY <4>2, DefaultIsBare
      <4>. QED  BY <4>1, <4>2
    <3>. HIDE DEF base
    <3>4. DOMAIN profile' = Fields /\ profile'["brokers"] = brokers
          /\ \A f \in Fields \ {"brokers"} : profile'[f] = base[f]
      BY <3>1, <3>2, ProfileAssumption
    <3>5. OneProfileOrNone'
      <4>1. CASE cfg # NoConfig /\ Selectable(cfg, name, env)
        <5>1. profile' = [SelectProfile(cfg, name, env) EXCEPT !["brokers"] = brokers]
          BY <3>1, <4>1 DEF base
        <5>. QED  BY <2>3, <2>4, <3>4, <4>1, <5>1, SelectedIsTakenOver
                  DEF OneProfileOrNone, ChosenName
      <4>2. CASE ~(cfg # NoConfig /\ Selectable(cfg, name, env))
        <5>1. \A f \in Fields \ {"brokers"} : profile'[f] = Unset
          BY <3>4, <4>2, ProfileAssumption DEF base, DefaultProfile
        <5>. QED  BY <2>3, <2>4, <3>4, <4>2, <5>1, SoundIsSelectable
                  DEF OneProfileOrNone, ChosenName
      <4>. QED  BY <4>1, <4>2
    <3>6. NamedProfileOrNone'
      BY <2>3, <2>6 DEF NamedProfileOrNone
    <3>7. NothingUnexpanded'
      <4>1. ASSUME NEW f \in Fields, profile'[f] # Unset, f # "brokers"
            PROVE  \A i \in DOMAIN profile'[f] : profile'[f][i].kind = "text"
        BY <3>3, <3>4, <4>1
      <4>. QED  BY <2>3, <2>6, <4>1 DEF NothingUnexpanded
    <3>. QED  BY <3>4, <3>5, <3>6, <3>7
  <2>7. TypeOK'
    BY <1>1, <1>4, <2>5, <2>6 DEF TypeOK, Bound, user
  <2>8. ProfileInv' /\ BrokersInv' /\ EntriesInv'
    BY <1>1, <1>4 DEF ProfileInv, BrokersInv, EntriesInv
  <2>9. WindowInv'
    BY <1>4, <2>2, <2>3 DEF WindowInv, Bound
  <2>. QED  BY <2>5, <2>6, <2>7, <2>8, <2>9
<1>. QED  BY <1>3, <1>4

LEMMA ParseFlagsKeeps == LaunchInv /\ ParseFlags => LaunchInv'
<1>. SUFFICES ASSUME LaunchInv, ParseFlags PROVE LaunchInv'
  OBVIOUS
<1>. USE DEF LaunchInv, ParseFlags
<1>0. stage' \in {"failed", "lookup", "connect"} /\ stage = "flags"
  OBVIOUS
<1>1. TypeOK'
  BY <1>0 DEF TypeOK, Over, Bound, user
<1>2. ProfileInv' /\ BrokersInv' /\ EntriesInv'
  BY <1>0 DEF ProfileInv, BrokersInv, EntriesInv
<1>3. WindowInv'
  <2>1. line \in Lines \cup {NoLine} /\ clock \in Int
    BY LaunchAssumption DEF TypeOK
  <2>2. window'.kind # "rejected" => IsWindow(window')
    BY <2>1, FlagsAreTyped, ResolvedIsWindow
  <2>3. stage' = "lookup" => line.command = "query"
    BY DEF Caching
  <2>. QED  BY <1>0, <2>2, <2>3 DEF WindowInv, Bound
<1>4. OneProfileOrNone' /\ NamedProfileOrNone' /\ NothingUnexpanded'
  BY <1>0, ProfileStays
<1>. QED  BY <1>1, <1>2, <1>3, <1>4

LEMMA LookupKeeps == LaunchInv /\ Lookup => LaunchInv'
<1>. SUFFICES ASSUME LaunchInv, Lookup PROVE LaunchInv'
  OBVIOUS
<1>. USE DEF LaunchInv, Lookup
<1>0. stage' \in {"hit", "connect"} /\ stage = "lookup"
  OBVIOUS
<1>1. TypeOK'
  BY <1>0 DEF TypeOK, Over, Bound, user
<1>2. ProfileInv' /\ BrokersInv' /\ WindowInv'
  BY <1>0 DEF ProfileInv, BrokersInv, WindowInv, Bound
<1>3. EntriesInv'
  BY <1>0 DEF EntriesInv, Hits, Key
<1>4. OneProfileOrNone' /\ NamedProfileOrNone' /\ NothingUnexpanded'
  BY <1>0, ProfileStays DEF Bound
<1>. QED  BY <1>1, <1>2, <1>3, <1>4

LEMMA ConnectKeeps == LaunchInv /\ Connect => LaunchInv'
<1>. SUFFICES ASSUME LaunchInv, Connect PROVE LaunchInv'
  OBVIOUS
<1>. USE DEF LaunchInv, Connect
<1>0. stage' \in {"failed", "read"} /\ stage = "connect"
  OBVIOUS
<1>1. TypeOK'
  BY <1>0 DEF TypeOK, Over, Bound, user
<1>2. ProfileInv' /\ BrokersInv' /\ WindowInv' /\ EntriesInv'
  BY <1>0 DEF ProfileInv, BrokersInv, WindowInv, EntriesInv, Bound
<1>3. OneProfileOrNone' /\ NamedProfileOrNone' /\ NothingUnexpanded'
  BY <1>0, ProfileStays DEF Bound
<1>. QED  BY <1>1, <1>2, <1>3

LEMMA ReadKeeps == LaunchInv /\ (ReadFails \/ List \/ Read) => LaunchInv'
<1>. SUFFICES ASSUME LaunchInv, ReadFails \/ List \/ Read PROVE LaunchInv'
  OBVIOUS
<1>. USE DEF LaunchInv, ReadFails, List, Read
<1>0. /\ stage = "read" /\ stage' \in {"failed", "listed", "write", "done"}
      /\ stage' = "write" => Caching
      /\ UNCHANGED <<clock, user, cache, line, profile, window>>
      /\ taken' = taken \/ taken' \in 0 .. MaxRecords
  OBVIOUS
<1>1. TypeOK'
  BY <1>0 DEF TypeOK, Over, Bound, user
<1>2. ProfileInv' /\ BrokersInv' /\ EntriesInv'
  BY <1>0 DEF ProfileInv, BrokersInv, EntriesInv
<1>3. WindowInv'
  BY <1>0 DEF WindowInv, Bound, Caching
<1>4. OneProfileOrNone' /\ NamedProfileOrNone' /\ NothingUnexpanded'
  BY <1>0, ProfileStays DEF Bound
<1>. QED  BY <1>1, <1>2, <1>3, <1>4

LEMMA WriteKeeps == LaunchInv /\ Write => LaunchInv'
<1>. SUFFICES ASSUME LaunchInv, Write PROVE LaunchInv'
  OBVIOUS
<1>. USE DEF LaunchInv
<1>. DEFINE k == Key(profile["brokers"], window)
            kept == [j \in DOMAIN cache \cup {k} |-> IF j = k THEN Entry ELSE cache[j]]
<1>0. /\ stage = "write" /\ stage' = "done"
      /\ UNCHANGED <<clock, user, line, profile, window, taken>>
      /\ cache' = cache \/ (cache' = kept /\ Cardinality(DOMAIN cache') <= MaxEntries)
  BY DEF Write
<1>1. IsWindow(window) /\ ~IsBlank(profile["brokers"]) /\ line.command = "query"
  BY <1>0 DEF WindowInv, BrokersInv, Bound
<1>2. /\ Entry.brokers = profile["brokers"] /\ Entry.window = window /\ Entry.written = clock
      /\ clock \in 0 .. MaxTime
  BY DEF Entry, TypeOK
<1>3. ASSUME NEW j \in DOMAIN cache'
      PROVE  /\ j = Key(cache'[j].brokers, cache'[j].window)
             /\ IsWindow(cache'[j].window) /\ ~IsBlank(cache'[j].brokers)
             /\ cache'[j].written \in 0 .. clock
  <2>1. CASE cache' = cache
    BY <2>1, <1>3 DEF EntriesInv
  <2>2. CASE cache' = kept /\ j = k
    BY <1>1, <1>2, <2>2, LaunchAssumption
  <2>3. CASE cache' = kept /\ j # k
    <3>1. j \in DOMAIN cache /\ cache'[j] = cache[j]
      BY <1>3, <2>3
    <3>. QED  BY <3>1 DEF EntriesInv
  <2>. QED  BY <1>0, <2>1, <2>2, <2>3
<1>. HIDE DEF kept, k
<1>4. EntriesInv'
  BY <1>0, <1>3 DEF EntriesInv
<1>5. TypeOK'
  BY <1>0, <1>3, LaunchAssumption DEF TypeOK, Over, Bound, user
<1>6. ProfileInv' /\ BrokersInv' /\ WindowInv'
  BY <1>0, <1>1 DEF ProfileInv, BrokersInv, WindowInv
<1>7. OneProfileOrNone' /\ NamedProfileOrNone' /\ NothingUnexpanded'
  BY <1>0, ProfileStays DEF Bound
<1>. QED  BY <1>4, <1>5, <1>6, <1>7

LEMMA ExitKeeps == LaunchInv /\ Exit => LaunchInv'
<1>. SUFFICES ASSUME LaunchInv, Exit PROVE LaunchInv'
  OBVIOUS
<1>. USE DEF LaunchInv, Exit
<1>1. TypeOK'
  BY DefaultIsBare, LaunchAssumption DEF TypeOK, user
<1>2. ProfileInv' /\ BrokersInv' /\ WindowInv' /\ EntriesInv'
  BY DEF ProfileInv, BrokersInv, WindowInv, EntriesInv, Bound
<1>3. OneProfileOrNone' /\ NamedProfileOrNone' /\ NothingUnexpanded'
  BY NoProfileNext DEF Bound
<1>. QED  BY <1>1, <1>2, <1>3

-----------------------------------------------------------------------------
(* The theorems *)

(* Whatever is edited between commands, profile, window, brokers and cache *)
(* stay consistent with the command line: the invariant of Launch.         *)
THEOREM LaunchInvariance == Spec => []LaunchInv
<1>1. Init => LaunchInv
  BY LaunchInit
<1>2. LaunchInv /\ [Next]_vars => LaunchInv'
  <2>. SUFFICES ASSUME LaunchInv, [Next]_vars PROVE LaunchInv'
    OBVIOUS
  <2>1. CASE Tick \/ Edit \/ Invoke \/ Dispatch
    BY <2>1, TickKeeps, EditKeeps, InvokeKeeps, DispatchKeeps
  <2>2. CASE ParseFlags \/ Lookup \/ Connect
    BY <2>2, ParseFlagsKeeps, LookupKeeps, ConnectKeeps
  <2>3. CASE ReadFails \/ List \/ Read \/ Write \/ Exit
    BY <2>3, ReadKeeps, WriteKeeps, ExitKeeps
  <2>4. CASE UNCHANGED vars
    <3>0. UNCHANGED <<clock, user, cache, line, stage, profile, window, taken>>
      BY <2>4 DEF vars
    <3>1. TypeOK'
      BY <3>0 DEF LaunchInv, TypeOK, user
    <3>2. ProfileInv' /\ BrokersInv' /\ WindowInv' /\ EntriesInv'
      BY <3>0 DEF LaunchInv, ProfileInv, BrokersInv, WindowInv, EntriesInv
    <3>3. OneProfileOrNone' /\ NamedProfileOrNone' /\ NothingUnexpanded'
      BY <3>0, ProfileStays DEF LaunchInv
    <3>. QED  BY <3>1, <3>2, <3>3 DEF LaunchInv
  <2>. QED  BY <2>1, <2>2, <2>3, <2>4 DEF Next
<1>. QED  BY <1>1, <1>2, PTL DEF Spec

(* Every variable of Launch keeps its type, and no entry is from the       *)
(* future.                                                                 *)
THEOREM LaunchTyping == Spec => []TypeOK
<1>1. LaunchInv => TypeOK
  BY DEF LaunchInv
<1>. QED  BY <1>1, LaunchInvariance, PTL

(* An entry that is served answers the question of the command line.       *)
THEOREM HitAnswers == Spec => []HitAnswersTheQuestion
<1>1. LaunchInv => HitAnswersTheQuestion
  <2>. SUFFICES ASSUME LaunchInv, stage = "hit"
                PROVE  LET e == cache[Key(profile["brokers"], window)]
                       IN  e.brokers = profile["brokers"] /\ SameQuestion(e.window, window)
    BY DEF HitAnswersTheQuestion
  <2>. DEFINE e == cache[Key(profile["brokers"], window)]
  <2>1. Key(profile["brokers"], window) = Key(e.brokers, e.window) /\ IsWindow(e.window)
    BY DEF LaunchInv, EntriesInv
  <2>2. IsWindow(window)
    BY DEF LaunchInv, WindowInv, Bound
  <2>. HIDE DEF e
  <2>3. e.brokers = profile["brokers"] /\ CacheToken(e.window) = CacheToken(window)
    BY <2>1 DEF Key
  <2>4. SameQuestion(e.window, window)
    BY <2>1, <2>2, <2>3, TokensTell
  <2>. QED  BY <2>3, <2>4 DEF e
<1>. QED  BY <1>1, LaunchInvariance, PTL

(* Records, from Kafka or from the cache, have brokers that are not blank. *)
THEOREM AnswersHaveTheirBrokers == Spec => []AnswersHaveBrokers
<1>1. LaunchInv => AnswersHaveBrokers
  <2>. SUFFICES ASSUME LaunchInv, stage \in {"hit", "done", "listed"}
                PROVE  ~IsBlank(profile["brokers"])
    BY DEF AnswersHaveBrokers
  <2>1. CASE stage = "hit"
    <3>. DEFINE k == Key(profile["brokers"], window)
    <3>1. k = Key(cache[k].brokers, cache[k].window) /\ ~IsBlank(cache[k].brokers)
      BY <2>1 DEF LaunchInv, EntriesInv
    <3>2. cache[k].brokers = profile["brokers"]
      BY <3>1 DEF Key
    <3>. QED  BY <3>1, <3>2
  <2>. QED  BY <2>1 DEF LaunchInv, BrokersInv
<1>. QED  BY <1>1, LaunchInvariance, PTL

(* With --brokers or KQR_BROKERS the rest of a connection comes from one   *)
(* profile that expands, or from none, whatever the files hold.            *)
THEOREM OneProfile == Spec => []OneProfileOrNone
<1>1. LaunchInv => OneProfileOrNone
  BY DEF LaunchInv
<1>. QED  BY <1>1, LaunchInvariance, PTL

(* Without them a command runs with the profile that was named, or fails.  *)
THEOREM NamedProfile == Spec => []NamedProfileOrNone
<1>1. LaunchInv => NamedProfileOrNone
  BY DEF LaunchInv
<1>. QED  BY <1>1, LaunchInvariance, PTL

(* No reference to the environment survives in a profile.                  *)
THEOREM Expansion == Spec => []NothingUnexpanded
<1>1. LaunchInv => NothingUnexpanded
  BY DEF LaunchInv
<1>. QED  BY <1>1, LaunchInvariance, PTL

-----------------------------------------------------------------------------
(* The decision of the flags *)

(* There is no window before the flags are looked at.                      *)
WindowLater ==
    stage \in {"idle", "parsed", "usage", "version", "flags"} => window = NoWindow

(* Time only adds to what a duration may have meant.                       *)
LEMMA DecisionStays ==
    ASSUME clock \in Nat, clock' \in Nat, clock <= clock', NEW f, NEW w, IsDecision(f, w)
    PROVE  IsDecision(f, w)'
<1>1. \A t \in LowerInstants(f) : t \in LowerInstants(f)'
  <2>1. CASE f.from.kind = "instant"
    BY <2>1 DEF LowerInstants
  <2>2. CASE f.from.kind # "instant" /\ f.since.kind = "instant"
    BY <2>2 DEF LowerInstants
  <2>3. CASE f.from.kind # "instant" /\ f.since.kind = "duration"
    <3>1. /\ LowerInstants(f) = {now - f.since.value : now \in 0 .. clock}
          /\ LowerInstants(f)' = {now - f.since.value : now \in 0 .. clock'}
      BY <2>3 DEF LowerInstants
    <3>2. 0 .. clock \subseteq 0 .. clock'
      OBVIOUS
    <3>. QED  BY <3>1, <3>2
  <2>4. CASE f.from.kind # "instant" /\ f.since.kind \notin {"instant", "duration"}
    BY <2>4 DEF LowerInstants
  <2>. QED  BY <2>1, <2>2, <2>3, <2>4
<1>. QED  BY <1>1 DEF IsDecision

(* What Present says when no more than one lower bound is given.           *)
LEMMA PresentFlags ==
    ASSUME NEW f
    PROVE  /\ LowerBounds(f) = Present(f) \cap {"last", "since", "from", "offset"}
           /\ \A b \in {"last", "since", "from", "offset", "to", "limit"} :
                 b \in Present(f) <=> Given(f[b])
           /\ Present(f) \subseteq FlagNames
BY DEF LowerBounds, Present, FlagNames

(* Every range that resolve makes begins at an instant that was given.     *)
LEMMA RangeIsDecision ==
    ASSUME NEW f, NEW t, t \in LowerInstants(f), ~Given(f.offset),
           f.to.kind \in {"absent", "instant"} => WellFormed(f),
           t \in Int, f.to.value \in Int
    PROVE  IsDecision(f, ResolveRange(t, f.to))
<1>1. CASE ~Given(f.to)
  <2>1. ResolveRange(t, f.to) = RangeWindow(t, Open) /\ WellFormed(f)
    BY <1>1 DEF ResolveRange, Given
  <2>. QED  BY <1>1, <2>1 DEF RangeWindow, IsDecision
<1>2. CASE Given(f.to) /\ f.to.kind # "instant"
  <2>1. ResolveRange(t, f.to) = Rejected("WindowTimestamp") /\ ~WellFormed(f)
    BY <1>2 DEF ResolveRange, Given, WellFormed
  <2>. QED  BY <2>1 DEF Rejected, IsDecision
<1>3. CASE f.to.kind = "instant" /\ f.to.value <= t
  <2>1. ResolveRange(t, f.to) = Rejected("WindowToBeforeFrom") /\ Given(f.to)
    BY <1>3 DEF ResolveRange, Given
  <2>. QED  BY <1>3, <2>1 DEF Rejected, IsDecision
<1>4. CASE f.to.kind = "instant" /\ ~(f.to.value <= t)
  <2>1. ResolveRange(t, f.to) = RangeWindow(t, f.to) /\ WellFormed(f) /\ Given(f.to)
    BY <1>4 DEF ResolveRange, Given
  <2>2. t < f.to.value
    BY <1>4
  <2>. QED  BY <2>1, <2>2 DEF RangeWindow, IsDecision
<1>. QED  BY <1>1, <1>2, <1>3, <1>4 DEF Given

(* What resolve makes of flags is what the documentation says, unless it   *)
(* passes over one of them or a duration is far.                           *)
LEMMA ResolveIsDecision ==
    ASSUME NEW f, ~Far(f), ~PassesOver(f), clock \in Nat,
           \A b \in FlagNames :
              /\ f[b].value \in Int
              /\ f[b].kind = "duration" => f[b].value \in Nat
    PROVE  IsDecision(f, ResolveWindow(f, clock))
<1>. DEFINE w == ResolveWindow(f, clock)
<1>1. \A e : Rejected(e).kind = "rejected"
  BY DEF Rejected
<1>2. \A e : ~WellFormed(f) => IsDecision(f, Rejected(e))
  BY <1>1 DEF IsDecision
<1>3. \A d : LastWindow(d).kind = "last"
  BY DEF LastWindow
<1>4. f.to.value \in Int /\ f.from.value \in Int /\ f.since.value \in Int
  BY DEF FlagNames
<1>5. CASE Cardinality(LowerBounds(f)) > 1
  <2>1. LowerBounds(f) \notin {{}, {"last"}, {"since"}, {"from"}, {"offset"}}
    <3>1. Cardinality({}) = 0 /\ \A x : Cardinality({x}) = 1
      BY FS_EmptySet, FS_Singleton
    <3>2. ~(0 > 1) /\ ~(1 > 1)
      OBVIOUS
    <3>. QED  BY <1>5, <3>1, <3>2
  <2>2. w = Rejected("WindowConflict")
    BY <1>5, <2>1 DEF ResolveWindow
  <2>3. ~WellFormed(f)
    <3>1. SUFFICES ASSUME WellFormed(f) PROVE FALSE
      OBVIOUS
    <3>2. Present(f) \in Groups
      BY <3>1 DEF WellFormed
    <3>3. Present(f) \cap {"last", "since", "from", "offset"} = LowerBounds(f)
      BY PresentFlags
    <3>4. \A g \in Groups : g \cap {"last", "since", "from", "offset"}
                             \in {{}, {"last"}, {"since"}, {"from"}, {"offset"}}
      BY DEF Groups
    <3>. QED  BY <2>1, <3>2, <3>3, <3>4
  <2>. QED  BY <1>2, <2>2, <2>3
<1>6. CASE ~(Cardinality(LowerBounds(f)) > 1)
  <2>1. CASE LowerBounds(f) = {"last"}
    <3>1. w = ResolveLast(f)
      BY <1>6, <2>1 DEF ResolveWindow
    <3>2. /\ Given(f.last) /\ ~Given(f.since) /\ ~Given(f.from) /\ ~Given(f.offset)
          /\ ~Given(f.limit)
      BY <2>1 DEF LowerBounds, PassesOver
    <3>3. CASE Given(f.to)
      <4>1. "last" \in Present(f) /\ "to" \in Present(f)
        BY <3>2, <3>3, PresentFlags
      <4>2. ~WellFormed(f)
        BY <3>2, <4>1 DEF WellFormed, Groups
      <4>. QED  BY <1>2, <3>1, <3>3, <4>2 DEF ResolveLast
    <3>4. CASE ~Given(f.to) /\ f.last.kind # "duration"
      <4>1. ~WellFormed(f)
        BY <3>2, <3>4 DEF WellFormed, Given
      <4>. QED  BY <1>2, <3>1, <3>4, <4>1 DEF ResolveLast
    <3>5. CASE ~Given(f.to) /\ f.last.kind = "duration"
      <4>1. Present(f) = {"last"}
        BY <3>2, <3>5 DEF Present
      <4>2. WellFormed(f)
        BY <3>2, <3>5, <4>1 DEF WellFormed, Groups, Given
      <4>3. w = LastWindow(f.last.value)
        BY <3>1, <3>5 DEF ResolveLast
      <4>. QED  BY <1>3, <4>2, <4>3 DEF IsDecision
    <3>. QED  BY <3>3, <3>4, <3>5
  <2>2. CASE LowerBounds(f) \in {{"since"}, {"from"}}
    <3>. DEFINE bound == IF LowerBounds(f) = {"since"} THEN f.since ELSE f.from
    <3>1. /\ ~Given(f.last) /\ ~Given(f.offset) /\ ~Given(f.limit) /\ Given(bound)
          /\ LowerBounds(f) = {"since"} <=> Given(f.since)
          /\ LowerBounds(f) = {"from"} <=> Given(f.from)
          /\ Given(f.since) <=> ~Given(f.from)
      BY <2>2 DEF LowerBounds, PassesOver
    <3>2. Present(f) = LowerBounds(f) \cup (IF Given(f.to) THEN {"to"} ELSE {})
      BY <2>2, <3>1 DEF Present
    <3>3. Present(f) \in Groups
      BY <2>2, <3>1, <3>2 DEF Groups
    <3>4. /\ f.last.kind = "absent"
          /\ f.since.kind = "absent" \/ f.from.kind = "absent"
      BY <3>1 DEF Given
    <3>5. CASE bound.kind = "instant"
      <4>1. bound.value \in LowerInstants(f)
        BY <3>1, <3>5 DEF LowerInstants, Given
      <4>2. f.to.kind \in {"absent", "instant"} => WellFormed(f)
        BY <3>1, <3>3, <3>4, <3>5 DEF WellFormed, Given
      <4>3. IsDecision(f, ResolveRange(bound.value, f.to))
        BY <1>4, <3>1, <4>1, <4>2, RangeIsDecision
      <4>4. w = ResolveRange(bound.value, f.to)
        BY <1>6, <2>2, <3>1, <3>5 DEF ResolveWindow, ResolveSince, ResolveFrom
      <4>. QED  BY <4>3, <4>4
    <3>6. CASE LowerBounds(f) = {"since"} /\ f.since.kind = "duration"
      <4>1. f.since.value \in Nat /\ f.since.value <= MaxDelta /\ f.since.value <= Reach
        BY <1>4, <3>6, WindowAssumption DEF Far, FlagNames
      <4>2. Ago(clock, f.since.value) = clock - f.since.value /\ ~(clock - f.since.value < -Reach)
        BY <4>1, WindowAssumption DEF Ago
      <4>3. clock - f.since.value \in LowerInstants(f)
        <5>1. LowerInstants(f) = {now - f.since.value : now \in 0 .. clock}
          BY <3>1, <3>6 DEF LowerInstants, Given
        <5>. QED  BY <5>1
      <4>4. f.to.kind \in {"absent", "instant"} => WellFormed(f)
        BY <3>1, <3>3, <3>4, <3>6 DEF WellFormed, Given
      <4>5. IsDecision(f, ResolveRange(clock - f.since.value, f.to))
        BY <1>4, <3>1, <4>3, <4>4, RangeIsDecision
      <4>6. w = ResolveSince(f, clock)
        BY <1>6, <3>6 DEF ResolveWindow
      <4>7. w = ResolveRange(clock - f.since.value, f.to)
        BY <3>6, <4>2, <4>6 DEF ResolveSince
      <4>. QED  BY <4>5, <4>7
    <3>7. CASE bound.kind # "instant" /\ ~(LowerBounds(f) = {"since"} /\ f.since.kind = "duration")
      <4>1. ~WellFormed(f)
        BY <2>2, <3>1, <3>7 DEF WellFormed, Given
      <4>2. w = Rejected("WindowTimestamp")
        BY <1>6, <2>2, <3>7 DEF ResolveWindow, ResolveSince, ResolveFrom
      <4>. QED  BY <1>2, <4>1, <4>2
    <3>. QED  BY <3>5, <3>6, <3>7
  <2>3. CASE LowerBounds(f) = {"offset"}
    <3>1. w = ResolveOffset(f)
      BY <1>6, <2>3 DEF ResolveWindow
    <3>2. /\ ~Given(f.last) /\ ~Given(f.since) /\ ~Given(f.from) /\ Given(f.offset)
          /\ ~Given(f.to)
      BY <2>3 DEF LowerBounds, PassesOver
    <3>3. Present(f) = {"offset"} \cup (IF Given(f.limit) THEN {"limit"} ELSE {})
      BY <3>2 DEF Present
    <3>4. CASE Given(f.limit)
      <4>1. Present(f) = {"offset", "limit"}
        BY <3>3, <3>4
      <4>2. WellFormed(f)
        BY <3>2, <4>1 DEF WellFormed, Groups, Given
      <4>3. w = OffsetWindow(f.offset.kind, f.limit.value)
        BY <3>1, <3>4 DEF ResolveOffset
      <4>. QED  BY <4>2, <4>3 DEF OffsetWindow, IsDecision
    <3>5. CASE ~Given(f.limit)
      <4>1. Present(f) = {"offset"}
        BY <3>3, <3>5
      <4>2. ~WellFormed(f)
        BY <3>2, <4>1 DEF WellFormed, Groups
      <4>. QED  BY <1>2, <3>1, <3>5, <4>2 DEF ResolveOffset
    <3>. QED  BY <3>4, <3>5
  <2>4. CASE LowerBounds(f) = {}
    <3>1. w = ResolveDefault(f)
      BY <1>6, <2>4 DEF ResolveWindow
    <3>2. /\ ~Given(f.last) /\ ~Given(f.since) /\ ~Given(f.from) /\ ~Given(f.offset)
          /\ ~Given(f.limit)
      BY <2>4 DEF LowerBounds, PassesOver
    <3>3. Present(f) = IF Given(f.to) THEN {"to"} ELSE {}
      BY <3>2 DEF Present
    <3>4. CASE Given(f.to)
      <4>1. ~WellFormed(f)
        BY <3>2, <3>3, <3>4 DEF WellFormed, Groups
      <4>. QED  BY <1>2, <3>1, <3>4, <4>1 DEF ResolveDefault
    <3>5. CASE ~Given(f.to)
      <4>1. WellFormed(f)
        BY <3>2, <3>3, <3>5 DEF WellFormed, Groups, Given
      <4>. QED  BY <1>3, <3>1, <3>5, <4>1 DEF ResolveDefault, IsDecision
    <3>. QED  BY <3>4, <3>5
  <2>. QED  BY <1>6, <2>1, <2>2, <2>3, <2>4, OneLowerBound
<1>. QED  BY <1>5, <1>6

(* For every command line without flags that resolve passes over and       *)
(* without far durations: the window that is read is the one that the      *)
(* documentation gives its flags, or there is none.                        *)
THEOREM FlagsAreDecisive == Spec => []FlagsDecide
<1>1. Init => WindowLater /\ FlagsDecide
  BY DEF Init, WindowLater, FlagsDecide, IsDecision, NoWindow, Rejected
<1>2. LaunchInv /\ WindowLater /\ FlagsDecide /\ [Next]_vars => WindowLater' /\ FlagsDecide'
  <2>. SUFFICES ASSUME LaunchInv, WindowLater, FlagsDecide, [Next]_vars
                PROVE  WindowLater' /\ FlagsDecide'
    OBVIOUS
  <2>1. clock \in Nat /\ line \in Lines \cup {NoLine}
    BY LaunchAssumption DEF LaunchInv, TypeOK
  <2>2. ASSUME window' = NoWindow PROVE FlagsDecide'
    BY <2>2 DEF FlagsDecide, IsDecision, NoWindow, Rejected
  <2>3. CASE ParseFlags
    <3>1. /\ line' = line /\ clock' = clock /\ window' = ResolveWindow(line.flags, clock)
          /\ stage' \in {"failed", "lookup", "connect"}
      BY <2>3 DEF ParseFlags
    <3>2. Far(line.flags) \/ PassesOver(line.flags) \/ IsDecision(line.flags, window')
      BY <2>1, <3>1, FlagsAreTyped, ResolveIsDecision
    <3>3. FlagsDecide'
      BY <3>1, <3>2 DEF FlagsDecide, IsDecision, LowerInstants, Far, PassesOver
    <3>. QED  BY <3>1, <3>3 DEF WindowLater
  <2>4. CASE Invoke \/ Exit
    <3>1. window' = NoWindow
      BY <2>4 DEF Invoke, Exit, WindowLater
    <3>. QED  BY <2>2, <3>1 DEF WindowLater
  <2>5. CASE Tick \/ Edit \/ Dispatch \/ Lookup \/ Connect \/ ReadFails \/ List \/ Read \/ Write
             \/ UNCHANGED vars
    <3>1. /\ UNCHANGED <<line, window>> /\ clock' \in Nat /\ clock <= clock'
          /\ stage' = stage \/ stage = "parsed" \/ stage' \notin {"idle", "parsed", "usage", "version", "flags"}
      BY <2>1, <2>5 DEF Tick, Edit, Dispatch, Lookup, Connect, ReadFails, List, Read, Write, vars
    <3>2. WindowLater'
      BY <3>1 DEF WindowLater
    <3>3. IsDecision(line.flags, window) => IsDecision(line.flags, window)'
      BY <2>1, <3>1, DecisionStays
    <3>4. (Far(line.flags)' <=> Far(line.flags)) /\ (PassesOver(line.flags)' <=> PassesOver(line.flags))
      BY <3>1 DEF Far, PassesOver
    <3>. QED  BY <3>2, <3>3, <3>4 DEF FlagsDecide
  <2>. QED  BY <2>3, <2>4, <2>5 DEF Next
<1>. QED  BY <1>1, <1>2, LaunchInvariance, PTL DEF Spec

=============================================================================
