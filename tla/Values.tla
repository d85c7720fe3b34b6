-------------------------------- MODULE Values --------------------------------
(***************************************************************************)
(* The arithmetic of services/extraction: the check digits of CPF and CNPJ *)
(* numbers with the cleaning before them (normalize.go), and the backoff   *)
(* between attempts (extraction.go), which is an int64 of nanoseconds.     *)
(*                                                                         *)
(* A text is a sequence of characters: 0..9 for the digits, 10..35 for the *)
(* letters, 36 for a letter in lower case, 37 for the rest.                 *)
(***************************************************************************)
EXTENDS Integers, Sequences, FiniteSets

Digits == 0 .. 9
Cased  == 36
Mark   == 37

allDigits(doc) == \A i \in DOMAIN doc : doc[i] \in Digits
allSame(doc)   == \A i \in DOMAIN doc : doc[i] = doc[1]

\* The weights are those of the first n characters of the number.
WeightedSum(doc, n, weight) ==
    LET sum[k \in 0 .. n] == IF k = 0 THEN 0 ELSE sum[k - 1] + doc[k] * weight[k]
    IN  sum[n]

CPFDigitUnreduced(doc, n) == (WeightedSum(doc, n, [i \in 1 .. n |-> n + 2 - i]) * 10) % 11

CPFDigit(doc, n) == ((WeightedSum(doc, n, [i \in 1 .. n |-> n + 2 - i]) * 10) % 11) % 10

validCPF(doc) ==
    /\ ~allSame(doc) /\ allDigits(doc)
    /\ \A n \in {9, 10} : CPFDigit(doc, n) = doc[n + 1]

CNPJWeights == <<6, 5, 4, 3, 2, 9, 8, 7, 6, 5, 4, 3, 2>>

CNPJDigit(doc, n) ==
    LET dv == 11 - (WeightedSum(doc, n, [i \in 1 .. n |-> CNPJWeights[13 - n + i]]) % 11)
    IN  IF dv >= 10 THEN 0 ELSE dv

CNPJWeightsShifted(doc, n) ==
    LET dv == 11 - (WeightedSum(doc, n, CNPJWeights) % 11)
    IN  IF dv >= 10 THEN 0 ELSE dv

validCNPJUnshifted(doc) ==
    /\ ~allSame(doc) /\ allDigits(doc)
    /\ \A n \in {12, 13} : CNPJWeightsShifted(doc, n) = doc[n + 1]

validCNPJ(doc) ==
    /\ ~allSame(doc) /\ allDigits(doc)
    /\ \A n \in {12, 13} : CNPJDigit(doc, n) = doc[n + 1]

\* ToUpper, and only digits and letters stay: a CNPJ may have letters from 2026
\* on (normalize.go:78).  Three other comments call the result digit-only
\* (normalize.go:13, store/matriculas.go:36, migration 00004:52).
Cleaned(s) ==
    LET kept[i \in 0 .. Len(s)] ==
          IF i = 0 THEN <<>>
          ELSE IF s[i] = Mark THEN kept[i - 1]
          ELSE Append(kept[i - 1], IF s[i] = Cased THEN 10 ELSE s[i])
    IN  kept[Len(s)]

\* doc is kept whatever valid says; "null" when there is no document at all.
normalizeDocDropping(s) ==
    LET doc == Cleaned(s) IN
    IF (Len(doc) = 11 /\ validCPF(doc)) \/ (Len(doc) = 14 /\ validCNPJ(doc))
    THEN [doc |-> doc, valid |-> "true"] ELSE [doc |-> <<>>, valid |-> "null"]

normalizeDoc(s) ==
    LET doc == Cleaned(s) IN
    [doc   |-> doc,
     valid |-> CASE Len(doc) = 0                             -> "null"
                 [] Len(doc) = 11 /\ validCPF(doc)           -> "true"
                 [] Len(doc) = 14 /\ validCNPJ(doc)          -> "true"
                 [] OTHER                                    -> "false"]

(***************************************************************************)
(* retryBackoff.  30 s << n wraps at 2^64.  As 30 s = 2^10 * 29296875 ns,  *)
(* a duration is kept as a number of 2^10 ns modulo 2^54, in two limbs of  *)
(* 27 bits; the sign is the top bit of the upper limb.                     *)
(***************************************************************************)
Limb == 134217728    \* 2^27

Doubled(q) ==
    [hi |-> (2 * q.hi + (2 * q.lo) \div Limb) % Limb, lo |-> (2 * q.lo) % Limb]

ThirtySeconds == [hi |-> 0, lo |-> 29296875]

\* 30 s << n, which is nothing but zeros from n = 54 on
Shifted(n) ==
    LET d[k \in 0 .. n] == IF k = 0 THEN ThirtySeconds ELSE Doubled(d[k - 1])
    IN  d[n]

Negative(q) == q.hi >= Limb \div 2
Exceeds(a, b) == ~Negative(a) /\ (a.hi > b.hi \/ (a.hi = b.hi /\ a.lo > b.lo))

TenMinutes == [hi |-> 4, lo |-> 49066588]

retryBackoffUncapped(used) == Shifted((IF used < 1 THEN 1 ELSE used) - 1)

retryBackoff(used) ==
    LET d == Shifted((IF used < 1 THEN 1 ELSE used) - 1)
    IN  IF Exceeds(d, TenMinutes) THEN TenMinutes ELSE d

(***************************************************************************)
(* What is to hold for every input; the invariants are in Answer.          *)
(***************************************************************************)

\* The rule of the Receita Federal: with its check digit a number has a
\* weighted sum divisible by 11, and 0 stands in for the digit 10.
Balanced(sum, digit) == (sum + digit) % 11 = 0 \/ (digit = 0 /\ sum % 11 = 1)

\* Stems of numbers: 33...3 with an 8 in one or two places after the first.
Stems(n) ==
    {[k \in 1 .. n |-> IF k \in {i, j} THEN 8 ELSE 3] : i \in 2 .. n, j \in 2 .. n}

\* Of the hundred endings of a prefix, validCPF takes exactly one, the one that
\* balances both sums (the code computes the digit, the rule checks it).
CPFsBalance ==
    \A p \in Stems(9) :
        \E e \in Digits \X Digits :
            /\ {f \in Digits \X Digits : validCPF(p \o f)} = {e}
            /\ LET cpf == p \o e IN
               \A n \in {9, 10} : Balanced(WeightedSum(cpf, n, [i \in 1 .. n |-> n + 2 - i]), cpf[n + 1])

\* The same for validCNPJ, whose weights run 2..9 from the right, again and again.
CNPJsBalance ==
    \A p \in Stems(12) :
        \E e \in Digits \X Digits :
            /\ {f \in Digits \X Digits : validCNPJ(p \o f)} = {e}
            /\ LET cnpj == p \o e IN
               \A n \in {12, 13} :
                   Balanced(WeightedSum(cnpj, n, [i \in 1 .. n |-> 2 + ((n - i) % 8)]), cnpj[n + 1])

\* Texts: short ones, and a good and a bad number of each kind with and without
\* its punctuation.
Texts ==
    (UNION {[1 .. n -> {3, 8, 10, Cased, Mark}] : n \in 0 .. 4})
      \cup {<<5, 2, 9, 9, 8, 2, 2, 4, 7, 2, 5>>, <<5, 2, 9, 9, 8, 2, 2, 4, 7, 2, 6>>,
            <<5, 2, 9, Mark, 9, 8, 2, Mark, 2, 4, 7, Mark, 2, 5>>,
            <<1, 1, 1, 1, 1, 1, 1, 1, 1, 1, 1>>,
            <<1, 1, Mark, 2, 2, 2, Mark, 3, 3, 3, Mark, 0, 0, 0, 1, Mark, 8, 1>>,
            <<1, 1, 2, 2, 2, 3, 3, 3, 0, 0, 0, 1, 8, 2>>,
            <<1, 2, Cased, 2, 2, 3, 3, 3, 0, 0, 0, 1, 8, 1>>}

DigitPlaces(t) == {i \in DOMAIN t : t[i] \in Digits}

\* Flag, never reject: no digit of a document number is lost, one that has any
\* gets a verdict, one without letters comes out digit-only, and cleaning what
\* is clean changes nothing (a saved number sent again is the same number).
\* Whether letters belong there is left open, as the comments disagree.
DocsSurvive ==
    \A s \in Texts :
        LET once == normalizeDoc(s) IN
        /\ normalizeDoc(once.doc) = once
        /\ Cardinality(DigitPlaces(once.doc)) = Cardinality(DigitPlaces(s))
        /\ DigitPlaces(s) # {} => once.valid # "null"
        /\ (\A i \in DOMAIN s : s[i] \in Digits \cup {Mark}) =>
               Len(once.doc) = Cardinality(DigitPlaces(s))

\* For every attempt below the thirtieth the backoff is positive, does not get
\* shorter, and stays within ten minutes: a returned document waits, which is
\* what keeps one tick from claiming it again and again.
BackoffsGrow ==
    \A n \in 1 .. 29 :
        /\ ~Negative(retryBackoff(n)) /\ retryBackoff(n) # [hi |-> 0, lo |-> 0]
        /\ ~Exceeds(retryBackoff(n), TenMinutes)
        /\ n < 29 => ~Exceeds(retryBackoff(n), retryBackoff(n + 1))
==============================================================================
