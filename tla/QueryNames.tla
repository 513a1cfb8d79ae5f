----------------------------- MODULE QueryNames ----------------------------
(***************************************************************************)
(* Query names, as internal/handler/parse.go reads them.  A name under the *)
(* zone is the sequence of its labels, leftmost first; the zone's apex is  *)
(* the empty sequence.  A label is a kind (its text, or the prefix before  *)
(* its value) and the value, Bad if the value does not parse.  The value   *)
(* of an option that carries bytes is the number of bytes it puts on the   *)
(* wire.                                                                   *)
(***************************************************************************)
EXTENDS Integers, Sequences, SequencesExt

\* SelectSeq, as a fold: it has a definition to reason from.
Only(seq, Test(_)) ==
    FoldLeft(LAMBDA kept, e : IF Test(e) THEN Append(kept, e) ELSE kept, <<>>, seq)

Bad == -1
Plain(kind) == [kind |-> kind, arg |-> 0]
With(kind, n) == [kind |-> kind, arg |-> n]
NoLabel == Plain("")

SetKinds ==
    {"set-noedns", "set-nocompress", "setednspad", "set-cookie", "set-ede",
     "set-flags", "set-rcode", "set-id", "set-nsid", "set-ttl", "set-delay",
     "set-answer", "set-answer-txt"}

isSetOption(l) == l.kind \in SetKinds
isNotOption(l) == ~isSetOption(l)

minSizeN == 128
maxSizeN == 4096
maxTTL == 86400
maxDelayMs == 300000
MaxLabel == 63

\* The values each parser accepts; Bad is never one of them.  Lengths are those of
\* labels without escapes: the code measures the presentation form, in which an
\* escaped byte counts as up to four characters.
ValidArgs(kind) ==
    CASE kind \in {"setednspad", "size"}               -> minSizeN..maxSizeN
      [] kind \in {"set-ttl", "ttl", "timestamp"}      -> 0..maxTTL
      [] kind \in {"set-delay", "delay"}               -> 0..maxDelayMs
      [] kind \in {"set-cookie", "set-nsid"}           -> 1..MaxLabel
      [] kind = "set-ede"                              -> 2..MaxLabel
      [] kind \in {"set-flags", "set-id"}              -> 0..65535
      [] kind = "set-answer-txt"                       -> 0..MaxLabel
      [] OTHER                                         -> Nat

isValidSetOption(l) == l.arg \in ValidArgs(l.kind)

parseTopLevel(labels) ==
    LET rest == Only(labels, isNotOption)
    IN  [setOptions |-> Only(labels, isSetOption),
         gadget     |-> IF rest = <<>> THEN NoLabel ELSE Last(rest)]

IsUnder(labels, kind) == Len(labels) > 1 /\ Last(labels) = Plain(kind)

\* <options and gadget>.<token>.diag: the token is a label of its own, whatever
\* it looks like.
parseDiag(labels) == parseTopLevel(SubSeq(labels, 1, Len(labels) - 2))

Parsed(labels) == IF IsUnder(labels, "diag") THEN parseDiag(labels) ELSE parseTopLevel(labels)

\* Set-options of a kind that parse, in order.
ValidOptions(options, kind) ==
    Only(options, LAMBDA o : o.kind = kind /\ isValidSetOption(o))
HasOption(options, kind) == \E i \in DOMAIN options : options[i].kind = kind
=============================================================================
