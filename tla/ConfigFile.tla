----------------------------- MODULE ConfigFile -----------------------------
(***************************************************************************)
(* The configuration files of the servers and the agent (config_file.cpp). *)
(* A line is what Load takes it for once it is trimmed: the head of a      *)
(* section, a key with its value, or anything else (a comment, an empty    *)
(* key, no "=").  A value is the number its text begins with, as a         *)
(* sequence of one, or NaN.  A file that is not there is an empty one:     *)
(* nobody looks at what setPath returns.                                   *)
(***************************************************************************)
EXTENDS Integers, Sequences

NoSection == "no section"
NaN == <<>>
SectionLine(s) == [kind |-> "section", section |-> s]
PairLine(k, v) == [kind |-> "pair", key |-> k, value |-> v]
OtherLine == [kind |-> "other"]
Empty == [k \in {} |-> NaN]
Put(f, k, v) == [x \in DOMAIN f \cup {k} |-> IF x = k THEN v ELSE f[x]]

\* Mutant: a section that is met again starts empty.
OpenSection_Anew(c, s) == [c EXCEPT !.m = s, !.map = Put(@, s, Empty)]

\* A section that is met again goes on.
OpenSection(c, s) ==
    [c EXCEPT !.m = s, !.map = IF s \in DOMAIN @ THEN @ ELSE Put(@, s, Empty)]

\* m is a null pointer until the first section: a pair before it is
\* undefined.  A key that is met again is overwritten.
SetKey(c, k, v) ==
    IF c.m = NoSection THEN [c EXCEPT !.ub = TRUE]
    ELSE [c EXCEPT !.map[c.m] = Put(@, k, v)]

LoadLine(c, line) ==
    CASE c.ub -> c
      [] ~c.ub /\ line.kind = "section" -> OpenSection(c, line.section)
      [] ~c.ub /\ line.kind = "pair" -> SetKey(c, line.key, line.value)
      [] OTHER -> c

\* The loop over the lines of the file.
NewConfig == [map |-> [s \in {} |-> Empty], m |-> NoSection, ub |-> FALSE]
Load(lines) ==
    LET after[i \in 0 .. Len(lines)] ==
            IF i = 0 THEN NewConfig ELSE LoadLine(after[i - 1], lines[i])
    IN  after[Len(lines)]

\* operator>> leaves v at 0 for a text that is not a number.
parseNumber(v) == IF v = NaN THEN 0 ELSE v[1]

GetNumber(map, s, k, default_value) ==
    IF s \in DOMAIN map /\ k \in DOMAIN map[s] THEN parseNumber(map[s][k]) ELSE default_value

\* A short of the configuration, given on as an unsigned short.
Port(n) == n % 2^16

-----------------------------------------------------------------------------
(* What a file says, without the maps: the reference for the above.        *)

SectionOf(lines, i) ==
    LET heads == {j \in 1 .. i : lines[j].kind = "section"}
    IN  IF heads = {} THEN NoSection
        ELSE lines[CHOOSE j \in heads : \A h \in heads : h <= j].section

Saying(lines, s, k) ==
    {i \in 1 .. Len(lines) :
        lines[i].kind = "pair" /\ lines[i].key = k /\ SectionOf(lines, i) = s}

\* The last line about a key in its section counts.
Says(lines, s, k, default_value) ==
    LET is == Saying(lines, s, k)
    IN  IF is = {} THEN default_value
        ELSE parseNumber(lines[CHOOSE i \in is : \A j \in is : j <= i].value)
=============================================================================
