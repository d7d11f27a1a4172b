------------------------------- MODULE Names -------------------------------
(***************************************************************************)
(* Host names and the rules a policy puts on them (internal/policy).  A    *)
(* name is a sequence of characters, because what has to be right about    *)
(* it - normal form, label boundaries, wildcards - is about characters.    *)
(***************************************************************************)
EXTENDS Integers, Sequences, FiniteSets

CONSTANTS
  MaxFQDNLength,     \* maxFQDNLength, 253 in the code
  MaxLabelLength     \* maxLabelLength, 63 in the code

ASSUME NameLengths == MaxFQDNLength \in Nat /\ MaxLabelLength \in Nat

Upper == {"A", "B"}
Letters == {"a", "b", "n", "x"}
Digits == {"0"}
Dot == "."
Wildcard == "*"
Hyphen == "-"
Space == " "
NonASCII == {"u8"}
Characters == Upper \cup Letters \cup Digits \cup NonASCII \cup {Dot, Wildcard, Hyphen, Space}

\* What NormalizeFQDN returns for an input it refuses.
Refused == <<>>

---------------------------------------------------------------------------
(* Normal form. *)

ToLower(c) == CASE c = "A" -> "a" [] c = "B" -> "b" [] OTHER -> c

TrimSpace(s) ==
  LET solid == {i \in DOMAIN s : s[i] # Space}
  IN IF solid = {} THEN <<>>
     ELSE SubSeq(s, CHOOSE i \in solid : \A j \in solid : i <= j,
                    CHOOSE i \in solid : \A j \in solid : i >= j)

\* The first and last position of every label: what lies between two dots.
LabelBounds(s) ==
  LET cuts == {0, Len(s) + 1} \cup {k \in DOMAIN s : s[k] = Dot}
  IN {<<c[1] + 1, c[2] - 1>> :
        c \in {d \in cuts \X cuts : d[1] < d[2] /\ \A k \in cuts : k <= d[1] \/ k >= d[2]}}

ValidLabel(l) ==
  /\ l # <<>> /\ Len(l) <= MaxLabelLength
  /\ Len(l) >= 4 => SubSeq(l, 1, 4) # <<"x", "n", Hyphen, Hyphen>>
  /\ l[1] # Hyphen /\ l[Len(l)] # Hyphen
  /\ \A k \in DOMAIN l : l[k] \in Letters \cup Digits \cup {Hyphen}

AllDigits(l) == l # <<>> /\ \A k \in DOMAIN l : l[k] \in Digits

\* The conditions NormalizeFQDN puts on a trimmed, lower-cased name without
\* its final dot.
WellFormed(s) ==
  LET bounds == LabelBounds(s)
  IN /\ s # <<>> /\ Len(s) <= MaxFQDNLength
     /\ Cardinality(bounds) >= 2
     /\ \A b \in bounds :
          LET l == SubSeq(s, b[1], b[2])
          IN \/ l = <<Wildcard>> /\ b[1] = 1 /\ Cardinality(bounds) >= 3
             \/ ValidLabel(l)
     /\ \A b \in bounds : b[2] = Len(s) => ~AllDigits(SubSeq(s, b[1], b[2]))

NormalizeFQDN(input) ==
  LET trimmed == TrimSpace(input)
      lower == [i \in DOMAIN trimmed |-> ToLower(trimmed[i])]
      n == Len(lower)
      s == IF n > 0 /\ lower[n] = Dot THEN SubSeq(lower, 1, n - 1) ELSE lower
  IN IF (\A i \in DOMAIN trimmed : trimmed[i] \notin NonASCII) /\ WellFormed(s)
       THEN s ELSE Refused

---------------------------------------------------------------------------
(* Policies. *)

IsWildcard(name) == Len(name) >= 2 /\ SubSeq(name, 1, 2) = <<Wildcard, Dot>>

NormalizeSuffix(input) ==
  LET s == NormalizeFQDN(input) IN IF IsWildcard(s) THEN Refused ELSE s

\* The name a suffix is compared with: a wildcard stands for what it covers.
Base(name) == IF IsWildcard(name) THEN SubSeq(name, 3, Len(name)) ELSE name

\* Faulty variant of MatchesSuffix: compares characters, not labels.
MatchesEnding(name, suffix) ==
  LET base == Base(name)
      from == Len(base) - Len(suffix)
  IN from >= 0 /\ SubSeq(base, from + 1, Len(base)) = suffix

\* A suffix matches itself and what ends in it after a dot.
MatchesSuffix(name, suffix) ==
  LET base == Base(name)
      from == Len(base) - Len(suffix)
  IN /\ name # <<>> /\ suffix # <<>>
     /\ \/ base = suffix
        \/ /\ from > 0
           /\ SubSeq(base, from, Len(base)) = <<Dot>> \o suffix

\* A name is allowed by a set of suffixes; an empty or malformed set allows none.
Evaluate(name, suffixes, allowWildcard) ==
  LET n == NormalizeFQDN(name)
  IN /\ n # Refused
     /\ suffixes # {}
     /\ \A s \in suffixes : NormalizeSuffix(s) # Refused
     /\ IsWildcard(n) => allowWildcard
     /\ \E s \in suffixes : MatchesSuffix(n, NormalizeSuffix(s))

\* The names of one certificate, the FQDN first.
AllNames(fqdn, additional) == <<fqdn>> \o additional

CheckDistinct(names) == \A i, j \in DOMAIN names : names[i] = names[j] => i = j

CheckCount(n, max) == n <= (IF max < 1 THEN 1 ELSE max)

NamesAllowed(names, suffixes, allowWildcard, max) ==
  /\ \A i \in DOMAIN names : Evaluate(names[i], suffixes, allowWildcard)
  /\ CheckDistinct(names)
  /\ CheckCount(Len(names), max)

\* Faulty variant of Authorize: the FQDN is left to the job's own policy.
AuthorizeAdditional(names, bindings, trusted) ==
  /\ CheckCount(Len(names), trusted.maxNames)
  /\ \A i \in DOMAIN names \ {1} :
       /\ NormalizeFQDN(names[i]) = names[i]
       /\ Evaluate(names[i], trusted.suffixes, trusted.allowWildcard)
  /\ CheckDistinct(names)
  /\ \A kind \in DOMAIN bindings : bindings[kind] \in trusted.allowed[kind]

\* What a Runner's own configuration lets any job make it do.
Authorize(names, bindings, trusted) ==
  /\ CheckCount(Len(names), trusted.maxNames)
  /\ \A i \in DOMAIN names :
       /\ NormalizeFQDN(names[i]) = names[i]
       /\ Evaluate(names[i], trusted.suffixes, trusted.allowWildcard)
  /\ CheckDistinct(names)
  /\ \A kind \in DOMAIN bindings : bindings[kind] \in trusted.allowed[kind]

---------------------------------------------------------------------------
(* Reference definitions, label by label. *)

\* The labels of a name, left to right.
LabelsOf(s) ==
  LET bounds == LabelBounds(s)
      Nth(k) == CHOOSE b \in bounds : Cardinality({c \in bounds : c[1] < b[1]}) = k - 1
  IN [k \in 1..Cardinality(bounds) |-> SubSeq(s, Nth(k)[1], Nth(k)[2])]

\* s lies at or under suffix in the DNS tree.
UnderSuffix(s, suffix) ==
  LET name == LabelsOf(s)
      tail == LabelsOf(suffix)
      skip == Len(name) - Len(tail)
  IN /\ skip >= 0
     /\ SubSeq(name, skip + 1, Len(name)) = tail
=============================================================================
