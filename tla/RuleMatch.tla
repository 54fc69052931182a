------------------------------- MODULE RuleMatch -------------------------------
(***************************************************************************)
(* What a pattern means: the two operators that RuleDecision leaves open,  *)
(* the parsing of addRule and Rules.matches (pkg/guardian/rules.go).       *)
(*                                                                         *)
(* A string is taken apart at its dots and at its last colon: a text has   *)
(* labels and a tail, <<>> without a colon and else <<n>>, n what follows  *)
(* it as a number, or a negative number that stands for what is none.      *)
(* "::1" is a text with tail <<1>>.  A star is a label of its own, and the *)
(* only wildcard.                                                          *)
(***************************************************************************)
EXTENDS Integers, SequencesExt

CONSTANTS
    Label,   \* what stands between two dots
    Lower,   \* strings.ToLower on labels
    Star,    \* the label "*"
    Empty,   \* the label "", before a leading dot
    InNet    \* the pairs <<cidr, text>>: the text is an IP address of the CIDR

Text(labels, tail) == [kind |-> "text", labels |-> labels, tail |-> tail]
Cidr(net) == [kind |-> "cidr", net |-> net]   \* what net.ParseCIDR accepts
Blank     == [kind |-> "blank"]               \* nothing but spaces

ASSUME MatchAssumption ==
    /\ {Star, Empty} \subseteq Label /\ Star # Empty
    /\ Lower \in [Label -> Label]
    /\ Lower[Star] = Star /\ Lower[Empty] = Empty
    /\ \A l \in Label : Lower[l] \in {Star, Empty} => Lower[l] = l

\* What a text is.  The text of one empty label would be a blank string.
IsText(t) ==
    /\ t = Text(t.labels, t.tail)
    /\ t.labels \in Seq(Label) \ {<<>>}
    /\ t.tail \in Seq(Int) /\ Len(t.tail) <= 1
    /\ t # Text(<<Empty>>, <<>>)

LowerText(t) == [t EXCEPT !.labels = [i \in DOMAIN @ |-> Lower[@[i]]]]

-------------------------------------------------------------------------------
(* addRule.                                                                   *)

DomainRule(t, port) == [type |-> "domain", name |-> LowerText(t), port |-> port]

IsPort(n) == 0 < n /\ n <= 65535

\* The last colon is not the first character and a port number follows it.
HasPort(t) == t.tail # <<>> /\ IsPort(t.tail[1]) /\ t.labels # <<Empty>>

\* The rule of a string that is not blank; port 0 stands for any.
RuleOf(v) ==
    IF v.kind = "cidr" THEN [type |-> "cidr", net |-> v.net]
    ELSE IF HasPort(v) THEN DomainRule(Text(v.labels, <<>>), v.tail[1])
    ELSE DomainRule(v, 0)

-------------------------------------------------------------------------------
(* Rules.matches, for a rule and a destination [host, port].                  *)

\* "*.rest" and ".rest": the pattern begins with the label and a dot.
Begins(t, l) == Len(t.labels) > 1 /\ t.labels[1] = l
Rest(t) == [t EXCEPT !.labels = Tail(@)]

\* Mutant of Under: strings.HasSuffix without the dot before the suffix lets the
\* name itself pass.
Under_OrEqual(h, t) == h.tail = t.tail /\ IsSuffix(t.labels, h.labels)

\* strings.HasSuffix(h, "." + t)
Under(h, t) == h.tail = t.tail /\ IsStrictSuffix(t.labels, h.labels)

\* path.Match: a star stands for one label or more.  reached[j] has how many labels
\* of the pattern can match the first j of the host.
LabelsMatch(p, h) ==
    LET reached[j \in 0..Len(h)] ==
          IF j = 0 THEN {0}
          ELSE {i \in 1..Len(p) : \/ p[i] \in {h[j], Star} /\ i - 1 \in reached[j - 1]
                                  \/ p[i] = Star /\ i \in reached[j - 1]}
    IN  Len(p) \in reached[Len(h)]

\* A star at the end also takes a tail of the host.
PathMatch(t, h) ==
    /\ LabelsMatch(t.labels, h.labels)
    /\ \/ h.tail = t.tail
       \/ t.tail = <<>> /\ Last(t.labels) = Star

NameMatches(t, h) ==
    \/ Begins(t, Star) /\ (h = Rest(t) \/ Under(h, Rest(t)))
    \/ ~Begins(t, Star) /\ h = t
    \/ Begins(t, Empty) /\ Under(h, Rest(t))
    \/ PathMatch(t, h)

RuleMatches(r, d) ==
    LET h == LowerText(d.host) IN
    \/ r.type = "cidr" /\ <<r.net, h>> \in InNet
    \/ r.type = "domain" /\ r.port \in {0, d.port} /\ NameMatches(r.name, h)

-------------------------------------------------------------------------------
(* The reference, from docs/NETWORKING.md "Allow/deny rules" and the comments *)
(* and tests of rules.go: exact domains, globs and CIDRs, in any case, for    *)
(* one port when a port is given and else for every port; an address or any   *)
(* other text that is no pattern for itself.                                  *)

\* Each star stands for one label or more: the labels of the host are dealt out
\* in order to those of the pattern, which all get one, and only a star several.
Denoted(p, h) ==
    \E owner \in [DOMAIN h -> DOMAIN p] :
        /\ \A i \in DOMAIN p : \E j \in DOMAIN h : owner[j] = i
        /\ \A j, k \in DOMAIN h : j < k =>
             \/ owner[j] < owner[k]
             \/ owner[j] = owner[k] /\ p[owner[j]] = Star
        /\ \A j \in DOMAIN h : p[owner[j]] \in {h[j], Star}

NameDenotes(t, h) ==
    \/ Denoted(t.labels, h.labels) /\ h.tail = t.tail
    \/ Denoted(t.labels, h.labels) /\ t.tail = <<>> /\ Last(t.labels) = Star
    \/ Begins(t, Star) /\ h = Rest(t)
    \/ /\ Begins(t, Empty)
       /\ h.tail = t.tail /\ IsStrictSuffix(Tail(t.labels), h.labels)

Denotes(v, d) ==
    LET h == LowerText(d.host)
        t == IF HasPort(v) THEN Text(v.labels, <<>>) ELSE v
    IN  \/ v.kind = "cidr" /\ <<v.net, h>> \in InNet
        \/ v.kind = "text" /\ h = LowerText(v)
        \/ /\ v.kind = "text" /\ (HasPort(v) => v.tail[1] = d.port)
           /\ NameDenotes(LowerText(t), h)

\* Where the code does not follow the reference.  A text whose last colon is not
\* in front of a port is split there all the same when a port number follows: a
\* host "::1", or a Host header "h:8080", that is added as it stands becomes the
\* rule of another host.
Misread(t) == t.kind = "text" /\ HasPort(t)
===============================================================================
