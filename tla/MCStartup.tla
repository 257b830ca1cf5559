------------------------------- MODULE MCStartup -------------------------------
(* Command lines of up to MaxArgs arguments. *)
EXTENDS Startup

CONSTANTS Args, MaxArgs

Opt(letter, tail, num) == [letter |-> letter, tail |-> tail, num |-> num]
Bare(num) == Opt("", "", num)

\* A name and the numbers 0, 80 and one that is too large for a port.
MCArgs ==
    {Opt(c, "", 0) : c \in {"h", "l", "p", "r", "t", "v", "x"}}
    \cup {Opt("v", "digits", 5), Opt("v", "v", 0), Opt("v", "other", 0)}
    \cup {Bare(0), Bare(80), Bare(65616)}

\* Only -v, and -v said twice.
VerboseArgs == {Opt("v", "", 0), Opt("v", "v", 0)}

MCExisting == {Bare(80)}
MCArgLists == UNION {[1 .. n -> Args] : n \in 0 .. MaxArgs}

MCNames == {"cf_client.log", "CF_CLIENT.LOG", "temphttp.txt", "tempraw.txt", "none", "a.log"}
MCUpper == [f \in MCNames |-> IF f = "cf_client.log" THEN "CF_CLIENT.LOG" ELSE f]
MCLogNames ==
    [a \in Args |-> IF a = Bare(80) THEN "none" ELSE IF a = Bare(0) THEN "cf_client.log" ELSE "a.log"]
=============================================================================
