------------------------------ MODULE MCLaunch ------------------------------
(* Small instances of Launch for TLC. *)
EXTENDS Launch

CONSTANTS b1, b2, secret, local, prod, typo, v

AllFields == {"brokers", "sasl_username", "sasl_password"}

Plain(b) == [f \in AllFields |-> IF f = "brokers" THEN <<Text(b)>> ELSE Unset]

WithSecret(s) ==
    [f \in AllFields |->
        CASE f = "brokers" -> <<Text(b2)>> [] f = "sasl_username" -> <<Text(secret)>> [] OTHER -> s]

None == [n \in {} |-> Plain(b1)]

Local == [n \in {local} |-> Plain(b1)]

LocalAndProd ==
    [n \in {local, prod} |->
        IF n = local THEN Plain(b1) ELSE WithSecret(<<Text(secret), Reference(v)>>)]

LocalByReference == [n \in {local} |-> [Plain(b1) EXCEPT !["brokers"] = <<Reference(v)>>]]

LocalBroken == [n \in {local} |-> WithSecret(<<Broken>>)]

Environment(p, b, c, x) ==
    [n \in {"profile", "brokers", "config", v} |->
        CASE n = "profile" -> p [] n = "brokers" -> b [] n = "config" -> c [] OTHER -> x]

Bare == Environment(Unset, Unset, FALSE, Unset)

Configured(name, profiles) == Config(name, profiles, Ttl)

Setup(e, d, x) == [explicit |-> e, default |-> d, env |-> x]

AllSettings ==
    { Setup(NoConfig, Configured(local, LocalAndProd), Bare),
      Setup(Unnamed(Local, Ttl), Configured(local, LocalAndProd), Environment(prod, Unset, FALSE, b2)),
      Setup(Configured(local, LocalAndProd), Malformed, Environment(prod, Unset, FALSE, b2)),
      Setup(Configured(prod, LocalAndProd), NoConfig, Environment(Unset, <<Text(b1)>>, TRUE, Blank)),
      Setup(Malformed, Configured(local, LocalByReference), Environment(Unset, Unset, FALSE, Blank)),
      Setup(Configured(local, LocalByReference), Configured(local, LocalByReference),
            Environment(Unset, Unset, TRUE, b2)),
      Setup(Configured(local, LocalBroken), Configured(local, LocalBroken), Bare),
      Setup(Configured(local, None), Configured(local, None), Bare) }

(* The configuration asks for a TTL shorter than the default. *)
ShortTtl == {Setup(NoConfig, Config(local, Local, 0), Bare)}

-----------------------------------------------------------------------------
NoFlags == [b \in FlagNames |-> Absent]

With(flags, b, x) == [flags EXCEPT ![b] = x]

Lowers ==
    { NoFlags, With(NoFlags, "last", Duration(2)), With(NoFlags, "last", Duration(3)),
      With(NoFlags, "since", Duration(1)), With(NoFlags, "since", Instant(1)),
      With(NoFlags, "since", Duration(7)), With(NoFlags, "since", Duration(9)),
      With(NoFlags, "from", Instant(1)), With(NoFlags, "from", Garbage),
      With(NoFlags, "offset", Earliest), With(NoFlags, "offset", Latest),
      With(With(NoFlags, "from", Instant(1)), "last", Duration(2)) }

AllFlags ==
    {With(f, "to", x) : f \in Lowers, x \in {Absent, Instant(1), Instant(2)}}
        \cup {With(f, "limit", Count(1)) : f \in Lowers}
        \cup { With(NoFlags, "last", Garbage),
               With(With(NoFlags, "since", Instant(1)), "to", Garbage),
               With(With(With(NoFlags, "offset", Earliest), "to", Instant(1)), "limit", Count(1)) }

Line(c, named, p, b, r, n, f) ==
    [command |-> c, config |-> named, profile |-> p, brokers |-> b,
     reuse |-> r, no_reuse |-> n, flags |-> f]

FlagLines == {Line("query", FALSE, Unset, Unset, TRUE, FALSE, f) : f \in AllFlags}

ConnectionLines ==
    {Line(c, named, p, b, c = "query", FALSE, NoFlags) :
        c \in {"query", "sample"}, named \in BOOLEAN,
        p \in {Unset, prod, typo}, b \in {Unset, <<Text(Blank)>>, <<Text(b1)>>}}

OtherLines ==
    {Line(c, FALSE, p, Unset, FALSE, TRUE, With(NoFlags, "last", Duration(2))) :
        c \in {"repl", "schema", "topics", "none"}, p \in {Unset, typo}}
        \cup {Line("query", FALSE, Unset, Unset, TRUE, TRUE, NoFlags)}

AllLines == FlagLines \cup ConnectionLines \cup OtherLines

SettingLines ==
    {Line("query", FALSE, Unset, Unset, TRUE, FALSE, f) :
        f \in { With(NoFlags, "limit", Count(1)),
                With(With(With(NoFlags, "offset", Earliest), "to", Instant(1)), "limit", Count(2)),
                With(NoFlags, "since", Duration(7)), With(NoFlags, "since", Duration(9)),
                With(NoFlags, "last", Duration(2)) }}
=============================================================================
