-------------------------------- MODULE Text --------------------------------
(***************************************************************************)
(* The string functions of types.c that the importer and the parsers are   *)
(* built from.  A text is a sequence of characters, and a charset a set of *)
(* them; a list of strings is a sequence of texts, NULL the empty one.     *)
(***************************************************************************)
EXTENDS Integers, Sequences, FiniteSets

Smallest(S) == CHOOSE a \in S : \A b \in S : a <= b

-----------------------------------------------------------------------------
(***************************************************************************)
(* Variants of the code with a plausible mistake; no action uses them.     *)
(***************************************************************************)
\* A token begins where the last delimiter was, not behind it.
SplitKeepsStart(s, delimiters, before, i) ==
  LET isDelim == s[i] \in delimiters
      length  == IF isDelim THEN before.length ELSE before.length + 1
  IN  IF (isDelim /\ before.length > 0) \/ i = Len(s)
      THEN [tokens |-> Append(before.tokens, SubSeq(s, before.start, before.start + length - 1)),
            start |-> i + 1, length |-> 0]
      ELSE [before EXCEPT !.length = length]

-----------------------------------------------------------------------------
\* nvipfix_string_split, one turn of its loop.  The last character always ends
\* a token, an empty one if that character and the one before it, or that
\* character alone, are delimiters.
SplitStep(s, delimiters, before, i) ==
  LET isDelim == s[i] \in delimiters
      length  == IF isDelim THEN before.length ELSE before.length + 1
      start   == IF isDelim /\ before.length = 0 THEN i + 1 ELSE before.start
  IN  IF (isDelim /\ before.length > 0) \/ i = Len(s)
      THEN [tokens |-> Append(before.tokens, SubSeq(s, start, start + length - 1)),
            start |-> i + 1, length |-> 0]
      ELSE [tokens |-> before.tokens, start |-> start, length |-> length]

\* The whole loop, turn by turn (`before' is bound in a set so that TLC
\* evaluates it once), and what it has found when it ends.
Scan(s, delimiters) ==
  LET scan[i \in 0 .. Len(s)] ==
        IF i = 0 THEN [tokens |-> <<>>, start |-> 1, length |-> 0]
        ELSE CHOOSE after \in {SplitStep(s, delimiters, before, i) : before \in {scan[i - 1]}} : TRUE
  IN  scan

Split(s, delimiters) == Scan(s, delimiters)[Len(s)].tokens

\* nvipfix_string_trim: the end is cut off first, then the rest moved down.
Trim(s, charset) ==
  LET kept == {i \in DOMAIN s : s[i] \notin charset}
      last == CHOOSE i \in kept : \A j \in kept : j <= i
  IN  IF kept = {} THEN <<>> ELSE SubSeq(s, Smallest(kept), last)

-----------------------------------------------------------------------------
(***************************************************************************)
(* What a split is meant to yield, said without a scan.                    *)
(***************************************************************************)
\* The longest stretches of s without a delimiter, by first and last index.
Runs(s, delimiters) ==
  {r \in (1 .. Len(s)) \X (1 .. Len(s)) :
     /\ r[1] <= r[2] /\ \A i \in r[1] .. r[2] : s[i] \notin delimiters
     /\ r[1] > 1 => s[r[1] - 1] \in delimiters
     /\ r[2] < Len(s) => s[r[2] + 1] \in delimiters}

EndsEmpty(s, delimiters) ==
  s # <<>> /\ \A i \in {Len(s) - 1, Len(s)} \cap DOMAIN s : s[i] \in delimiters

\* Every run is a token, in order; a text that ends in two delimiters, or is
\* one delimiter, has an empty token behind them.
IsSplit(tokens, s, delimiters) ==
  LET runs == Runs(s, delimiters)
  IN  /\ Len(tokens) = Cardinality(runs) + (IF EndsEmpty(s, delimiters) THEN 1 ELSE 0)
      /\ EndsEmpty(s, delimiters) => tokens[Len(tokens)] = <<>>
      /\ \A r \in runs :
           tokens[Cardinality({q \in runs : q[1] <= r[1]})] = SubSeq(s, r[1], r[2])

=============================================================================
