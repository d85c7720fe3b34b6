----------------------------- MODULE AnswerProofs -----------------------------
(***************************************************************************)
(* The invariants of Answer, for every MAX_EXTRACTION_ATTEMPTS.  None but  *)
(* ActiveIsNotCancelled is inductive: what an attempt has cost depends on  *)
(* where it stands, and what may be stored on how the answer got that far. *)
(* Then the arithmetic of Values, for every document number and text.  Its *)
(* functions are recursive: that they exist, and what they give, is shown  *)
(* by induction on the length (Counting).                                  *)
(***************************************************************************)
EXTENDS Answer, FiniteSetTheorems, SequenceTheorems, WellFoundedInduction, TLAPS

\* An attempt is under way exactly while the document is "extracting".
AttemptInv ==
    /\ pc # "idle" => status = "extracting" /\ attempts > 0
    /\ pc = "idle" => status # "extracting"

\* Every attempt before this one has cost two calls at most.
CostInv ==
    /\ pc = "idle" => call = 0 /\ asked <= 2 * attempts
    /\ pc # "idle" => asked <= 2 * (attempts - 1) + call
    /\ pc = "ask" => call <= 1
    /\ pc = "parse" => call > 0

\* An answer in "save" has passed the decode.
DecodedInv == pc = "save" => parseExtraction(answer)

AnswerInv == AnswerTypeOK /\ AttemptInv /\ CostInv /\ DecodedInv

\* The onus that is stored, and that a cancelling act makes it cancelled.
LEMMA OnusRowType ==
    ASSUME NEW a \in Answers, Storable(Normalize(a))
    PROVE  /\ OnusRow(Normalize(a)) \in [status: {"ativo", "cancelado"}, cancelledBy: {"ato", "null"}]
           /\ OnusRow(Normalize(a)).cancelledBy = "ato" => OnusRow(Normalize(a)).status = "cancelado"
<1>1. Normalize(a).cancel = a.cancel
  BY DEF Normalize, LoweredEnums, Answers
<1>2. a.cancel # "none" => Normalize(a).onus = "cancelado"
  BY DEF Normalize, LoweredEnums, Answers
<1> QED
  BY <1>1, <1>2 DEF Storable, EnumChecks, OnusRow

\* The placeholder is an answer.
LEMMA NoAnswerType == NoAnswer \in Answers
  BY DEF NoAnswer, Answers, Spelling, Loose

\* A claimed document that was never asked about satisfies it.
LEMMA AnswerStarts == AnswerInit => AnswerInv /\ ActiveIsNotCancelled
<1> SUFFICES ASSUME AnswerInit PROVE AnswerInv /\ ActiveIsNotCancelled
  OBVIOUS
<1>1. AnswerTypeOK
  <2>1. aggregate \subseteq [status: {"ativo", "cancelado"}, cancelledBy: {"ato", "null"}]
    BY DEF AnswerInit
  <2> QED
    BY <2>1, NoAnswerType, AnswerAssumption DEF AnswerInit, AnswerTypeOK
<1>2. AttemptInv /\ CostInv /\ DecodedInv /\ ActiveIsNotCancelled
  BY DEF AnswerInit, AttemptInv, CostInv, DecodedInv, ActiveIsNotCancelled
<1> QED
  BY <1>1, <1>2 DEF AnswerInv

\* Every step of an extraction keeps it.
LEMMA AnswerStep ==
    ASSUME AnswerInv, [AnswerNext \/ Rest]_answerVars
    PROVE  AnswerInv'
<1> USE AnswerAssumption DEF AnswerInv, AttemptInv, CostInv, DecodedInv
<1>1. CASE Claim
  BY <1>1 DEF Claim, AnswerTypeOK
<1>2. CASE Answered
  BY <1>2 DEF Answered, Asked, AnswerTypeOK
<1>3. CASE Unanswered
  BY <1>3 DEF Unanswered, Asked, AnswerTypeOK
<1>4. CASE Refused
  BY <1>4 DEF Refused, Asked, AnswerTypeOK
<1>5. CASE Accept
  BY <1>5 DEF Accept, AnswerTypeOK
<1>6. CASE Reject
  BY NoAnswerType, <1>6 DEF Reject, AnswerTypeOK
<1>7. CASE Persist
  <2>1. aggregate' \in SUBSET [status: {"ativo", "cancelado"}, cancelledBy: {"ato", "null"}]
    BY <1>7, OnusRowType DEF Persist, AnswerTypeOK
  <2> QED
    BY NoAnswerType, <1>7, <2>1 DEF Persist, AnswerTypeOK
<1>8. CASE MoveToExtracted
  BY <1>8 DEF MoveToExtracted, AnswerTypeOK
<1>9. CASE Requeue
  BY <1>9 DEF Requeue, AnswerTypeOK
<1>10. CASE Fail
  BY <1>10 DEF Fail, AnswerTypeOK
<1>11. CASE FailExhausted
  BY <1>11 DEF FailExhausted, AnswerTypeOK
<1>12. CASE Rest \/ UNCHANGED answerVars
  BY <1>12 DEF Rest, answerVars, AnswerTypeOK
<1> QED
  BY <1>1, <1>2, <1>3, <1>4, <1>5, <1>6, <1>7, <1>8, <1>9, <1>10, <1>11, <1>12 DEF AnswerNext

\* The inductive invariant of the attempts and their calls.
LEMMA AnswerInvariant == AnswerSpec => []AnswerInv
<1>1. AnswerInit => AnswerInv
  BY AnswerStarts
<1>2. AnswerInv /\ [AnswerNext \/ Rest]_answerVars => AnswerInv'
  BY AnswerStep
<1> QED
  BY <1>1, <1>2, PTL DEF AnswerSpec

\* However many attempts are configured, the model is asked at most twice in
\* each of them (ExtractMatricula's loop, and the cap in ClaimForExtraction).
THEOREM CostIsAlwaysBounded == AnswerSpec => []CostIsBounded
<1>1. AnswerInv => CostIsBounded
  BY DEF AnswerInv, AnswerTypeOK, CostInv, CostIsBounded
<1> QED
  BY <1>1, AnswerInvariant, PTL

\* What the decode accepts as JSON alone, the tables take, but for the spelling
\* of an onus status (validateEnums, Normalize, the CHECK constraints).
THEOREM AcceptedIsStorable == AnswerSpec => []AcceptedCanBeStored
<1>1. AnswerInv => AcceptedCanBeStored
  <2> SUFFICES ASSUME AnswerInv, pc = "save", answer.form = "bare",
                      answer.onus \in {"ativo", "cancelado", "empty"} \/ answer.cancel # "none"
               PROVE  Storable(Normalize(answer))
    BY DEF AcceptedCanBeStored
  <2>1. answer \in Answers /\ validateEnums(answer)
    BY DEF AnswerInv, AnswerTypeOK, DecodedInv, parseExtraction
  <2>2. \A f \in Spelling : /\ enumOK(f, FALSE) => Lowered(f) = "word"
                            /\ enumOK(f, TRUE) => Lowered(f) \in {"word", "empty"}
    BY DEF Spelling, Loose, enumOK, Lowered
  <2>3. /\ Normalize(answer).kind = Lowered(answer.kind) /\ Normalize(answer).papel = Lowered(answer.papel)
        /\ Normalize(answer).parte = Lowered(answer.parte) /\ Normalize(answer).dono = Lowered(answer.dono)
        /\ Normalize(answer).form = "bare" /\ Normalize(answer).onus \in {"ativo", "cancelado"}
    BY <2>1 DEF Normalize, LoweredEnums, Answers
  <2>4. {answer.kind, answer.papel, answer.parte, answer.dono} \subseteq Spelling
    BY <2>1 DEF Answers
  <2> QED
    BY <2>1, <2>2, <2>3, <2>4 DEF validateEnums, Storable, EnumChecks
<1> QED
  BY <1>1, AnswerInvariant, PTL

\* An onus with its cancelling act on record is never served as active (the
\* loop over Onus in Normalize).
THEOREM ActiveHasNoCancelling == AnswerSpec => []ActiveIsNotCancelled
<1>1. AnswerInit => ActiveIsNotCancelled
  BY AnswerStarts
<1>2. AnswerInv /\ ActiveIsNotCancelled /\ [AnswerNext \/ Rest]_answerVars => ActiveIsNotCancelled'
  <2> SUFFICES ASSUME AnswerInv, ActiveIsNotCancelled, [AnswerNext \/ Rest]_answerVars
               PROVE  ActiveIsNotCancelled'
    OBVIOUS
  <2>1. CASE UNCHANGED aggregate
    BY <2>1 DEF ActiveIsNotCancelled
  <2>2. CASE Persist
    BY <2>1, <2>2, OnusRowType DEF Persist, ActiveIsNotCancelled, AnswerInv, AnswerTypeOK
  <2>3. UNCHANGED aggregate \/ Persist
    BY DEF AnswerNext, Claim, Answered, Unanswered, Refused, Accept, Reject, MoveToExtracted, Requeue, Fail,
       FailExhausted, Rest, answerVars
  <2> QED
    BY <2>1, <2>2, <2>3
<1> QED
  BY <1>1, <1>2, AnswerInvariant, PTL DEF AnswerSpec

\* The record of a document, its attempts and its answer keep their types: in
\* particular no document is claimed more than MAX_EXTRACTION_ATTEMPTS times.
THEOREM AnswerTypes == AnswerSpec => []AnswerTypeOK
<1>1. AnswerInv => AnswerTypeOK
  BY DEF AnswerInv
<1> QED
  BY <1>1, AnswerInvariant, PTL

(***************************************************************************)
(* Check digits: sums are defined for every length, by induction on it.    *)
(***************************************************************************)

\* Induction, for a set in the place of a predicate.
LEMMA Counting ==
    ASSUME NEW S, 0 \in S, \A n \in Nat : n \in S => n + 1 \in S
    PROVE  Nat \subseteq S
<1> SUFFICES ASSUME Nat \ S # {} PROVE FALSE
  OBVIOUS
<1>1. PICK m \in Nat \ S : \A k \in Nat \ S : <<k, m>> \notin OpToRel(<, Nat)
  BY NatLessThanWellFounded, WFMin, Zenon
<1>2. m \in Nat /\ m # 0 /\ m \notin S
  OBVIOUS
<1>3. PICK p \in Nat : m = p + 1
  BY <1>2
<1>4. <<p, m>> \in OpToRel(<, Nat)
  <2>1. <<p, m>> \in Nat \X Nat /\ <<p, m>>[1] < <<p, m>>[2]
    BY <1>2, <1>3
  <2> QED
    BY <2>1, Zenon DEF OpToRel
<1>5. p \in S
  BY <1>1, <1>4, Zenon
<1> QED
  BY <1>2, <1>3, <1>5

\* A sum that is defined up to n - 1 is defined up to n, so for every length.
SumOf(n, doc, weight, f) ==
    f = [k \in 0 .. n |-> IF k = 0 THEN 0 ELSE f[k - 1] + doc[k] * weight[k]]

\* Such a sum exists for every length.
LEMMA SumsExist ==
    ASSUME NEW doc, NEW weight, NEW n \in Nat
    PROVE  \E f : SumOf(n, doc, weight, f)
<1> DEFINE S == {m \in Nat : \E f : SumOf(m, doc, weight, f)}
<1>1. 0 \in S
  <2>1. SumOf(0, doc, weight, [k \in 0 .. 0 |-> 0])
    BY DEF SumOf
  <2> QED
    BY <2>1
<1>2. ASSUME NEW m \in Nat, m \in S PROVE m + 1 \in S
  <2>1. PICK f : SumOf(m, doc, weight, f)
    BY <1>2
  <2> DEFINE g == [k \in 0 .. m + 1 |-> IF k = 0 THEN 0 ELSE f[k - 1] + doc[k] * weight[k]]
  <2>2. ASSUME NEW k \in 0 .. m PROVE f[k] = g[k]
    BY <2>1, <2>2 DEF SumOf
  <2>3. ASSUME NEW k \in 1 .. m + 1 PROVE k - 1 \in 0 .. m
    OBVIOUS
  <2>4. ASSUME NEW k \in 0 .. m + 1
        PROVE  g[k] = IF k = 0 THEN 0 ELSE g[k - 1] + doc[k] * weight[k]
    BY <2>2, <2>3
  <2> HIDE DEF g
  <2>5. g = [k \in 0 .. m + 1 |-> g[k]]
    BY DEF g
  <2>6. SumOf(m + 1, doc, weight, g)
    BY <2>4, <2>5 DEF SumOf
  <2> QED
    BY <2>6
<1> QED
  BY <1>1, <1>2, Counting

\* WeightedSum starts at 0 and adds one term after the other.
LEMMA SumUnfolds ==
    ASSUME NEW doc, NEW weight, NEW n \in Nat
    PROVE  \E f : /\ WeightedSum(doc, n, weight) = f[n]
                  /\ f[0] = 0
                  /\ \A k \in 1 .. n : f[k] = f[k - 1] + doc[k] * weight[k]
<1> DEFINE sum == CHOOSE f : SumOf(n, doc, weight, f)
<1>1. SumOf(n, doc, weight, sum)
  BY SumsExist
<1>2. WeightedSum(doc, n, weight) = sum[n]
  BY DEF WeightedSum, SumOf
<1> HIDE DEF sum
<1>3. sum[0] = 0 /\ \A k \in 1 .. n : sum[k] = sum[k - 1] + doc[k] * weight[k]
  BY <1>1 DEF SumOf
<1> QED
  BY <1>2, <1>3
\* A weighted sum is an integer, and depends on nothing but its terms.
LEMMA SumIsInteger ==
    ASSUME NEW doc, NEW weight, NEW n \in Nat, \A k \in 1 .. n : doc[k] * weight[k] \in Int
    PROVE  WeightedSum(doc, n, weight) \in Int
<1>1. PICK f : /\ WeightedSum(doc, n, weight) = f[n]
               /\ f[0] = 0
               /\ \A k \in 1 .. n : f[k] = f[k - 1] + doc[k] * weight[k]
  BY SumUnfolds
<1> DEFINE S == {k \in Nat : k <= n => f[k] \in Int}
<1>2. ASSUME NEW k \in Nat, k \in S PROVE k + 1 \in S
  <2>1. CASE k + 1 <= n
    <3>1. f[k] \in Int /\ k + 1 \in 1 .. n /\ k + 1 - 1 = k
      BY <1>2, <2>1
    <3>2. f[k + 1] = f[k] + doc[k + 1] * weight[k + 1]
      BY <1>1, <3>1
    <3>3. doc[k + 1] * weight[k + 1] \in Int
      BY <3>1
    <3> QED
      BY <3>1, <3>2, <3>3
  <2> QED
    BY <2>1
<1>3. 0 \in S
  BY <1>1
<1> HIDE DEF S
<1>4. n \in S
  BY <1>2, <1>3, Counting
<1> QED
  BY <1>1, <1>4 DEF S

\* Two numbers that agree in their first n characters have the same sum there.
LEMMA SumDepends ==
    ASSUME NEW n \in Nat, NEW doc, NEW weight, NEW doc2, NEW weight2,
           \A k \in 1 .. n : doc[k] = doc2[k] /\ weight[k] = weight2[k]
    PROVE  WeightedSum(doc, n, weight) = WeightedSum(doc2, n, weight2)
<1>1. PICK f : /\ WeightedSum(doc, n, weight) = f[n]
               /\ f[0] = 0
               /\ \A k \in 1 .. n : f[k] = f[k - 1] + doc[k] * weight[k]
  BY SumUnfolds
<1>2. PICK g : /\ WeightedSum(doc2, n, weight2) = g[n]
               /\ g[0] = 0
               /\ \A k \in 1 .. n : g[k] = g[k - 1] + doc2[k] * weight2[k]
  BY SumUnfolds
<1> DEFINE S == {k \in Nat : k <= n => f[k] = g[k]}
<1>3. ASSUME NEW k \in Nat, k \in S PROVE k + 1 \in S
  <2>1. CASE k + 1 <= n
    <3>1. f[k] = g[k] /\ k + 1 \in 1 .. n /\ k + 1 - 1 = k
      BY <1>3, <2>1
    <3>2. f[k + 1] = f[k] + doc[k + 1] * weight[k + 1] /\ g[k + 1] = g[k] + doc2[k + 1] * weight2[k + 1]
      BY <1>1, <1>2, <3>1
    <3> QED
      BY <3>1, <3>2
  <2> QED
    BY <2>1
<1>4. 0 \in S
  BY <1>1, <1>2
<1> HIDE DEF S
<1>5. n \in S
  BY <1>3, <1>4, Counting
<1> QED
  BY <1>1, <1>2, <1>5 DEF S

\* One digit balances a sum: the one that the code computes.
LEMMA CPFRule ==
    ASSUME NEW s \in Int, NEW d \in Digits
    PROVE  Balanced(s, d) <=> d = ((s * 10) % 11) % 10
  BY DEF Balanced, Digits

\* The same for CNPJ, where a result of 10 or 11 becomes 0.
LEMMA CNPJRule ==
    ASSUME NEW s \in Int, NEW d \in Digits
    PROVE  Balanced(s, d) <=> d = IF 11 - (s % 11) >= 10 THEN 0 ELSE 11 - (s % 11)
  BY DEF Balanced, Digits

\* q is the prefix p of m characters with the digits a and b after it.
Ended(q, p, a, b, m, l) ==
    /\ q \in [1 .. l -> Digits]
    /\ \A k \in 1 .. m : q[k] = p[k]
    /\ q[l - 1] = a
    /\ q[l] = b

\* What a number is whose prefix and whose check digits are known.
LEMMA Ending ==
    ASSUME NEW m \in Nat, NEW l \in Nat, l = m + 2,
           NEW p \in [1 .. m -> Digits], NEW a \in Digits, NEW b \in Digits
    PROVE  Ended(p \o <<a, b>>, p, a, b, m, l)
<1> DEFINE t == <<a, b>>
<1>1. p \in Seq(Digits) /\ Len(p) = m
  OBVIOUS
<1>2. t \in Seq(Digits) /\ Len(t) = 2 /\ t[1] = a /\ t[2] = b
  OBVIOUS
<1> HIDE DEF t
<1>3. PICK q : q = p \o t
  OBVIOUS
<1>4. /\ q \in Seq(Digits)
      /\ Len(q) = Len(p) + Len(t)
      /\ \A k \in 1 .. Len(p) + Len(t) : q[k] = IF k <= Len(p) THEN p[k] ELSE t[k - Len(p)]
  BY <1>1, <1>2, <1>3, ConcatProperties, Zenon
<1>5. \A k \in 1 .. l : q[k] = IF k <= m THEN p[k] ELSE t[k - m]
  BY <1>1, <1>2, <1>4
<1>6. q \in [1 .. l -> Digits]
  BY <1>1, <1>2, <1>4
<1>7. q[l - 1] = a /\ q[l] = b
  <2>1. l - 1 - m = 1 /\ l - m = 2 /\ l - 1 \in 1 .. l /\ l \in 1 .. l
    OBVIOUS
  <2> QED
    BY <1>2, <1>5, <2>1
<1>8. \A k \in 1 .. m : q[k] = p[k]
  BY <1>5
<1>9. Ended(q, p, a, b, m, l)
  BY <1>6, <1>7, <1>8 DEF Ended
<1> QED
  BY <1>3, <1>9, Zenon DEF t

\* The weights of the first n digits, in a CPF and in a CNPJ.
CPFWeights(n) == [i \in 1 .. n |-> n + 2 - i]
RFWeights(n) == [i \in 1 .. n |-> 2 + ((n - i) % 8)]

\* A prefix with two different digits stays one, whatever is appended.
LEMMA StillDiffers ==
    ASSUME NEW p, NEW q, ~allSame(p), 1 \in DOMAIN p, DOMAIN p \subseteq DOMAIN q,
           \A k \in DOMAIN p : q[k] = p[k]
    PROVE  ~allSame(q)
  BY DEF allSame

\* validCPF is the rule of the Receita Federal, for every eleven digits there are:
\* not all the same, and both weighted sums balanced by their check digit.
THEOREM CPFIsChecked ==
    ASSUME NEW doc \in [1 .. 11 -> Digits]
    PROVE  validCPF(doc) <=>
             /\ ~allSame(doc)
             /\ \A n \in {9, 10} : Balanced(WeightedSum(doc, n, CPFWeights(n)), doc[n + 1])
<1>1. ASSUME NEW n \in {9, 10}
      PROVE  Balanced(WeightedSum(doc, n, CPFWeights(n)), doc[n + 1]) <=> CPFDigit(doc, n) = doc[n + 1]
  <2>1. \A k \in 1 .. n : doc[k] * CPFWeights(n)[k] \in Int
    BY DEF CPFWeights, Digits
  <2>2. WeightedSum(doc, n, CPFWeights(n)) \in Int /\ doc[n + 1] \in Digits
    BY <2>1, SumIsInteger
  <2>3. CPFDigit(doc, n) = ((WeightedSum(doc, n, CPFWeights(n)) * 10) % 11) % 10
    BY DEF CPFDigit, CPFWeights
  <2> QED
    BY <2>2, <2>3, CPFRule
<1>2. allDigits(doc)
  BY DEF allDigits
<1> QED
  BY <1>1, <1>2 DEF validCPF

\* The digit that the code computes is one.
LEMMA CPFDigitType ==
    ASSUME NEW n \in Nat, NEW q, \A k \in 1 .. n : q[k] \in Digits
    PROVE  CPFDigit(q, n) \in Digits
<1>1. \A k \in 1 .. n : q[k] * CPFWeights(n)[k] \in Int
  BY DEF CPFWeights, Digits
<1>2. PICK s \in Int : s = WeightedSum(q, n, CPFWeights(n))
  BY <1>1, SumIsInteger
<1>3. CPFDigit(q, n) = ((s * 10) % 11) % 10
  BY <1>2 DEF CPFDigit, CPFWeights
<1> QED
  BY <1>3 DEF Digits

\* It depends on the characters before it alone.
LEMMA CPFDigitDepends ==
    ASSUME NEW n \in Nat, NEW q, NEW r, \A k \in 1 .. n : q[k] = r[k]
    PROVE  CPFDigit(q, n) = CPFDigit(r, n)
<1>1. WeightedSum(q, n, CPFWeights(n)) = WeightedSum(r, n, CPFWeights(n))
  BY SumDepends
<1> QED
  BY <1>1 DEF CPFDigit, CPFWeights

\* Pairs of digits.
LEMMA OnePair ==
    ASSUME NEW V, NEW p, NEW a \in Digits, NEW b \in Digits,
           \A c \in Digits, d \in Digits : p \o <<c, d>> \in V <=> c = a /\ d = b
    PROVE  {f \in Digits \X Digits : p \o f \in V} = {<<a, b>>}
<1>1. \A f \in Digits \X Digits : \E c \in Digits, d \in Digits : f = <<c, d>>
  OBVIOUS
<1>2. <<a, b>> \in Digits \X Digits
  OBVIOUS
<1>3. ASSUME NEW f \in Digits \X Digits
      PROVE  p \o f \in V <=> f = <<a, b>>
  <2>1. PICK c \in Digits, d \in Digits : f = <<c, d>>
    BY <1>1
  <2>2. p \o <<c, d>> \in V <=> <<c, d>> = <<a, b>>
    OBVIOUS
  <2> QED
    BY <2>1, <2>2, Zenon
<1> QED
  BY <1>2, <1>3, Zenon

\* A prefix of a CPF has exactly one ending that validCPF accepts: the first check
\* digit follows from the prefix, the second from both.
THEOREM CPFHasOneEnding ==
    ASSUME NEW p \in [1 .. 9 -> Digits], ~allSame(p)
    PROVE  \E e \in Digits \X Digits :
             /\ {f \in Digits \X Digits : validCPF(p \o f)} = {e}
             /\ \A n \in {9, 10} : Balanced(WeightedSum(p \o e, n, CPFWeights(n)), (p \o e)[n + 1])
<1>0. 9 \in Nat /\ 11 \in Nat /\ 11 = 9 + 2
  OBVIOUS
<1>1. 0 \in Digits
  BY DEF Digits
<1>2. PICK a \in Digits : a = CPFDigit(p, 9)
  BY CPFDigitType
<1>3. PICK r : r = p \o <<a, 0>>
  OBVIOUS
<1>3a. r \in [1 .. 11 -> Digits] /\ (\A k \in 1 .. 9 : r[k] = p[k]) /\ r[10] = a
  <2>1. Ended(r, p, a, 0, 9, 11)
    BY <1>0, <1>1, <1>3, Ending, Zenon
  <2> QED
    BY <2>1 DEF Ended
<1>4. PICK b \in Digits : b = CPFDigit(r, 10)
  BY <1>3a, CPFDigitType
<1>5. ASSUME NEW c \in Digits, NEW d \in Digits
      PROVE  /\ validCPF(p \o <<c, d>>) <=> c = a /\ d = b
             /\ p \o <<c, d>> \in [1 .. 11 -> Digits]
  <2>0. PICK q : q = p \o <<c, d>>
    OBVIOUS
  <2>1. q \in [1 .. 11 -> Digits] /\ (\A k \in 1 .. 9 : q[k] = p[k]) /\ q[10] = c /\ q[11] = d
    <3>1. Ended(q, p, c, d, 9, 11)
      BY <1>0, <2>0, Ending, Zenon
    <3> QED
      BY <3>1 DEF Ended
  <2>2. CPFDigit(q, 9) = a
    BY <1>2, <2>1, CPFDigitDepends
  <2>3. ASSUME c = a PROVE CPFDigit(q, 10) = b
    <3>1. \A k \in 1 .. 10 : q[k] = r[k]
      BY <1>3a, <2>1, <2>3
    <3> QED
      BY <1>4, <3>1, CPFDigitDepends
  <2>4. ~allSame(q) /\ allDigits(q)
    <3>0. DOMAIN p = 1 .. 9 /\ DOMAIN q = 1 .. 11
      BY <2>1
    <3>1. 1 \in DOMAIN p /\ DOMAIN p \subseteq DOMAIN q /\ \A k \in DOMAIN p : q[k] = p[k]
      BY <2>1, <3>0
    <3> QED
      BY <2>1, <3>1, StillDiffers DEF allDigits
  <2>5. validCPF(q) <=> c = a /\ d = b
    BY <2>1, <2>2, <2>3, <2>4 DEF validCPF
  <2> QED
    BY <2>0, <2>1, <2>5, Zenon
<1> DEFINE V == {doc \in [1 .. 11 -> Digits] : validCPF(doc)}
<1>5a. \A c \in Digits, d \in Digits : p \o <<c, d>> \in V <=> c = a /\ d = b
  BY <1>5
<1> HIDE DEF V
<1>6. {f \in Digits \X Digits : p \o f \in V} = {<<a, b>>}
  BY <1>5a, OnePair
<1>7. ASSUME NEW f \in Digits \X Digits
      PROVE  p \o f \in V <=> validCPF(p \o f)
  <2>1. PICK c \in Digits, d \in Digits : f = <<c, d>>
    OBVIOUS
  <2>2. p \o <<c, d>> \in [1 .. 11 -> Digits]
    BY <1>5
  <2> QED
    BY <2>1, <2>2, Zenon DEF V
<1>8. <<a, b>> \in Digits \X Digits
  OBVIOUS
<1>9. PICK q \in [1 .. 11 -> Digits] : q = p \o <<a, b>> /\ validCPF(q)
  BY <1>5, Zenon
<1>10. \A n \in {9, 10} : Balanced(WeightedSum(q, n, CPFWeights(n)), q[n + 1])
  BY <1>9, CPFIsChecked
<1>11. {f \in Digits \X Digits : validCPF(p \o f)} = {<<a, b>>}
  BY <1>6, <1>7, Zenon
<1> QED
  BY <1>8, <1>9, <1>10, <1>11, Zenon

\* The stems that the run looks at are prefixes with two different digits.
LEMMA CPFsBalanced == CPFsBalance
<1> SUFFICES ASSUME NEW p \in Stems(9)
             PROVE  \E e \in Digits \X Digits :
                      /\ {f \in Digits \X Digits : validCPF(p \o f)} = {e}
                      /\ \A n \in {9, 10} : Balanced(WeightedSum(p \o e, n, [i \in 1 .. n |-> n + 2 - i]), (p \o e)[n + 1])
  BY Zenon DEF CPFsBalance
<1>1. p \in [1 .. 9 -> Digits] /\ ~allSame(p)
  <2>1. PICK i \in 2 .. 9, j \in 2 .. 9 : p = [k \in 1 .. 9 |-> IF k \in {i, j} THEN 8 ELSE 3]
    BY DEF Stems
  <2>2. p[1] = 3 /\ p[i] = 8 /\ i \in DOMAIN p
    BY <2>1
  <2> QED
    BY <2>1, <2>2 DEF Digits, allSame
<1> QED
  BY <1>1, CPFHasOneEnding, Zenon DEF CPFWeights
\* The table of the code holds the weights 2..9 from the right, again and again.
LEMMA CNPJDigitUses ==
    ASSUME NEW n \in {12, 13}, NEW doc
    PROVE  CNPJDigit(doc, n) =
             IF 11 - (WeightedSum(doc, n, RFWeights(n)) % 11) >= 10 THEN 0
             ELSE 11 - (WeightedSum(doc, n, RFWeights(n)) % 11)
<1>1. PICK w : w = CNPJWeights
  OBVIOUS
<1>2. /\ w[1] = 6 /\ w[2] = 5 /\ w[3] = 4 /\ w[4] = 3 /\ w[5] = 2 /\ w[6] = 9 /\ w[7] = 8
      /\ w[8] = 7 /\ w[9] = 6 /\ w[10] = 5 /\ w[11] = 4 /\ w[12] = 3 /\ w[13] = 2
  BY <1>1 DEF CNPJWeights
<1>3. \A i \in 1 .. n : w[13 - n + i] = 2 + ((n - i) % 8)
  BY <1>2
<1>4. [i \in 1 .. n |-> CNPJWeights[13 - n + i]] = RFWeights(n)
  BY <1>1, <1>3 DEF RFWeights
<1> QED
  BY <1>4, Zenon DEF CNPJDigit

\* validCNPJ is the rule of the Receita Federal, for every fourteen digits.
THEOREM CNPJIsChecked ==
    ASSUME NEW doc \in [1 .. 14 -> Digits]
    PROVE  validCNPJ(doc) <=>
             /\ ~allSame(doc)
             /\ \A n \in {12, 13} : Balanced(WeightedSum(doc, n, RFWeights(n)), doc[n + 1])
<1>1. ASSUME NEW n \in {12, 13}
      PROVE  Balanced(WeightedSum(doc, n, RFWeights(n)), doc[n + 1]) <=> CNPJDigit(doc, n) = doc[n + 1]
  <2>1. \A k \in 1 .. n : doc[k] * RFWeights(n)[k] \in Int
    BY DEF RFWeights, Digits
  <2>2. WeightedSum(doc, n, RFWeights(n)) \in Int /\ doc[n + 1] \in Digits
    BY <2>1, SumIsInteger
  <2>3. PICK s \in Int : s = WeightedSum(doc, n, RFWeights(n))
    BY <2>2
  <2>4. CNPJDigit(doc, n) = IF 11 - (s % 11) >= 10 THEN 0 ELSE 11 - (s % 11)
    BY <2>3, CNPJDigitUses
  <2> QED
    BY <2>2, <2>3, <2>4, CNPJRule
<1>2. allDigits(doc)
  BY DEF allDigits
<1> QED
  BY <1>1, <1>2 DEF validCNPJ

\* The digit that the code computes is one.
LEMMA CNPJDigitType ==
    ASSUME NEW n \in {12, 13}, NEW q, \A k \in 1 .. n : q[k] \in Digits
    PROVE  CNPJDigit(q, n) \in Digits
<1>1. \A k \in 1 .. n : q[k] * RFWeights(n)[k] \in Int
  BY DEF RFWeights, Digits
<1>2. PICK s \in Int : s = WeightedSum(q, n, RFWeights(n))
  BY <1>1, SumIsInteger
<1>3. CNPJDigit(q, n) = IF 11 - (s % 11) >= 10 THEN 0 ELSE 11 - (s % 11)
  BY <1>2, CNPJDigitUses
<1> QED
  BY <1>3 DEF Digits

\* It depends on the characters before it alone.
LEMMA CNPJDigitDepends ==
    ASSUME NEW n \in {12, 13}, NEW q, NEW r, \A k \in 1 .. n : q[k] = r[k]
    PROVE  CNPJDigit(q, n) = CNPJDigit(r, n)
<1>1. WeightedSum(q, n, RFWeights(n)) = WeightedSum(r, n, RFWeights(n))
  BY SumDepends
<1> QED
  BY <1>1, CNPJDigitUses

\* A prefix of a CNPJ has exactly one ending that validCNPJ accepts.
THEOREM CNPJHasOneEnding ==
    ASSUME NEW p \in [1 .. 12 -> Digits], ~allSame(p)
    PROVE  \E e \in Digits \X Digits :
             /\ {f \in Digits \X Digits : validCNPJ(p \o f)} = {e}
             /\ \A n \in {12, 13} : Balanced(WeightedSum(p \o e, n, RFWeights(n)), (p \o e)[n + 1])
<1>0. 12 \in Nat /\ 14 \in Nat /\ 14 = 12 + 2
  OBVIOUS
<1>1. 0 \in Digits
  BY DEF Digits
<1>2. PICK a \in Digits : a = CNPJDigit(p, 12)
  BY CNPJDigitType
<1>3. PICK r : r = p \o <<a, 0>>
  OBVIOUS
<1>3a. r \in [1 .. 14 -> Digits] /\ (\A k \in 1 .. 12 : r[k] = p[k]) /\ r[13] = a
  <2>1. Ended(r, p, a, 0, 12, 14)
    BY <1>0, <1>1, <1>3, Ending, Zenon
  <2> QED
    BY <2>1 DEF Ended
<1>4. PICK b \in Digits : b = CNPJDigit(r, 13)
  BY <1>3a, CNPJDigitType
<1>5. ASSUME NEW c \in Digits, NEW d \in Digits
      PROVE  /\ validCNPJ(p \o <<c, d>>) <=> c = a /\ d = b
             /\ p \o <<c, d>> \in [1 .. 14 -> Digits]
  <2>0. PICK q : q = p \o <<c, d>>
    OBVIOUS
  <2>1. q \in [1 .. 14 -> Digits] /\ (\A k \in 1 .. 12 : q[k] = p[k]) /\ q[13] = c /\ q[14] = d
    <3>1. Ended(q, p, c, d, 12, 14)
      BY <1>0, <2>0, Ending, Zenon
    <3> QED
      BY <3>1 DEF Ended
  <2>2. CNPJDigit(q, 12) = a
    BY <1>2, <2>1, CNPJDigitDepends
  <2>3. ASSUME c = a PROVE CNPJDigit(q, 13) = b
    <3>1. \A k \in 1 .. 13 : q[k] = r[k]
      BY <1>3a, <2>1, <2>3
    <3> QED
      BY <1>4, <3>1, CNPJDigitDepends
  <2>4. ~allSame(q) /\ allDigits(q)
    <3>0. DOMAIN p = 1 .. 12 /\ DOMAIN q = 1 .. 14
      BY <2>1
    <3>1. 1 \in DOMAIN p /\ DOMAIN p \subseteq DOMAIN q /\ \A k \in DOMAIN p : q[k] = p[k]
      BY <2>1, <3>0
    <3> QED
      BY <2>1, <3>1, StillDiffers DEF allDigits
  <2>5. validCNPJ(q) <=> c = a /\ d = b
    BY <2>1, <2>2, <2>3, <2>4 DEF validCNPJ
  <2> QED
    BY <2>0, <2>1, <2>5, Zenon
<1> DEFINE V == {doc \in [1 .. 14 -> Digits] : validCNPJ(doc)}
<1>5a. \A c \in Digits, d \in Digits : p \o <<c, d>> \in V <=> c = a /\ d = b
  BY <1>5
<1> HIDE DEF V
<1>6. {f \in Digits \X Digits : p \o f \in V} = {<<a, b>>}
  BY <1>5a, OnePair
<1>7. ASSUME NEW f \in Digits \X Digits
      PROVE  p \o f \in V <=> validCNPJ(p \o f)
  <2>1. PICK c \in Digits, d \in Digits : f = <<c, d>>
    OBVIOUS
  <2>2. p \o <<c, d>> \in [1 .. 14 -> Digits]
    BY <1>5
  <2> QED
    BY <2>1, <2>2, Zenon DEF V
<1>8. <<a, b>> \in Digits \X Digits
  OBVIOUS
<1>9. PICK q \in [1 .. 14 -> Digits] : q = p \o <<a, b>> /\ validCNPJ(q)
  BY <1>5, Zenon
<1>10. \A n \in {12, 13} : Balanced(WeightedSum(q, n, RFWeights(n)), q[n + 1])
  BY <1>9, CNPJIsChecked
<1>11. {f \in Digits \X Digits : validCNPJ(p \o f)} = {<<a, b>>}
  BY <1>6, <1>7, Zenon
<1> QED
  BY <1>8, <1>9, <1>10, <1>11, Zenon

\* The stems that the run looks at are prefixes with two different digits.
LEMMA CNPJsBalanced == CNPJsBalance
<1> SUFFICES ASSUME NEW p \in Stems(12)
             PROVE  \E e \in Digits \X Digits :
                      /\ {f \in Digits \X Digits : validCNPJ(p \o f)} = {e}
                      /\ \A n \in {12, 13} : Balanced(WeightedSum(p \o e, n, [i \in 1 .. n |-> 2 + ((n - i) % 8)]), (p \o e)[n + 1])
  BY Zenon DEF CNPJsBalance
<1>1. p \in [1 .. 12 -> Digits] /\ ~allSame(p)
  <2>1. PICK i \in 2 .. 12, j \in 2 .. 12 : p = [k \in 1 .. 12 |-> IF k \in {i, j} THEN 8 ELSE 3]
    BY DEF Stems
  <2>2. p[1] = 3 /\ p[i] = 8 /\ i \in DOMAIN p
    BY <2>1
  <2> QED
    BY <2>1, <2>2 DEF Digits, allSame
<1> QED
  BY <1>1, CNPJHasOneEnding, Zenon DEF RFWeights

(***************************************************************************)
(* The backoff: what 30 s << n is in limbs.                                *)
(***************************************************************************)

\* f holds 30 s doubled again and again, up to n times.
Doublings(n, f) ==
    f = [k \in 0 .. n |-> IF k = 0 THEN ThirtySeconds ELSE Doubled(f[k - 1])]

\* 30 s can be doubled any number of times.
LEMMA DoublingsExist ==
    ASSUME NEW n \in Nat
    PROVE  \E f : Doublings(n, f)
<1> DEFINE S == {m \in Nat : \E f : Doublings(m, f)}
<1>1. 0 \in S
  <2>1. Doublings(0, [k \in 0 .. 0 |-> ThirtySeconds])
    BY DEF Doublings
  <2> QED
    BY <2>1
<1>2. ASSUME NEW m \in Nat, m \in S PROVE m + 1 \in S
  <2>1. PICK f : Doublings(m, f)
    BY <1>2
  <2> DEFINE g == [k \in 0 .. m + 1 |-> IF k = 0 THEN ThirtySeconds ELSE Doubled(f[k - 1])]
  <2>2. ASSUME NEW k \in 0 .. m PROVE f[k] = g[k]
    BY <2>1, <2>2 DEF Doublings
  <2>3. ASSUME NEW k \in 1 .. m + 1 PROVE k - 1 \in 0 .. m
    OBVIOUS
  <2>4. ASSUME NEW k \in 0 .. m + 1
        PROVE  g[k] = IF k = 0 THEN ThirtySeconds ELSE Doubled(g[k - 1])
    <3>1. CASE k = 0
      BY <3>1
    <3>2. CASE k # 0
      <4>1. k - 1 \in 0 .. m
        BY <3>2
      <4>2. f[k - 1] = g[k - 1]
        BY <2>2, <4>1
      <4>3. g[k] = Doubled(f[k - 1])
        BY <3>2
      <4> QED
        BY <3>2, <4>2, <4>3, Zenon
    <3> QED
      BY <3>1, <3>2
  <2> HIDE DEF g
  <2>5. g = [k \in 0 .. m + 1 |-> g[k]]
    BY DEF g
  <2>6. Doublings(m + 1, g)
    BY <2>4, <2>5 DEF Doublings
  <2> QED
    BY <2>6
<1> QED
  BY <1>1, <1>2, Counting

\* 30 s << n is reached in n doublings.
LEMMA ShiftUnfolds ==
    ASSUME NEW n \in Nat
    PROVE  \E f : /\ Shifted(n) = f[n]
                  /\ f[0] = ThirtySeconds
                  /\ \A k \in 1 .. n : f[k] = Doubled(f[k - 1])
<1> DEFINE d == CHOOSE f : Doublings(n, f)
<1>1. Doublings(n, d)
  BY DoublingsExist
<1>2. Shifted(n) = d[n]
  BY DEF Shifted, Doublings
<1> HIDE DEF d
<1>3. d[0] = ThirtySeconds /\ \A k \in 1 .. n : d[k] = Doubled(d[k - 1])
  BY <1>1 DEF Doublings
<1> QED
  BY <1>2, <1>3

\* 30 s << 0 is 30 s, and one shift more doubles.
LEMMA ShiftDoubles ==
    /\ Shifted(0) = ThirtySeconds
    /\ \A n \in Nat : Shifted(n + 1) = Doubled(Shifted(n))
<1>1. Shifted(0) = ThirtySeconds
  <2>1. PICK f : Shifted(0) = f[0] /\ f[0] = ThirtySeconds
    BY ShiftUnfolds
  <2> QED
    BY <2>1
<1>2. ASSUME NEW n \in Nat PROVE Shifted(n + 1) = Doubled(Shifted(n))
  <2>1. PICK f : /\ Shifted(n) = f[n]
                 /\ f[0] = ThirtySeconds
                 /\ \A k \in 1 .. n : f[k] = Doubled(f[k - 1])
    BY ShiftUnfolds
  <2>2. PICK g : /\ Shifted(n + 1) = g[n + 1]
                 /\ g[0] = ThirtySeconds
                 /\ \A k \in 1 .. n + 1 : g[k] = Doubled(g[k - 1])
    BY ShiftUnfolds
  <2> DEFINE S == {k \in Nat : k <= n => f[k] = g[k]}
  <2>3. ASSUME NEW k \in Nat, k \in S PROVE k + 1 \in S
    <3>1. CASE k + 1 <= n
      <4>1. f[k] = g[k] /\ k + 1 \in 1 .. n /\ k + 1 \in 1 .. n + 1 /\ k + 1 - 1 = k
        BY <2>3, <3>1
      <4>2. f[k + 1] = Doubled(f[k]) /\ g[k + 1] = Doubled(g[k])
        BY <2>1, <2>2, <4>1
      <4> QED
        BY <4>1, <4>2
    <3> QED
      BY <3>1
  <2>4. 0 \in S
    BY <2>1, <2>2
  <2> HIDE DEF S
  <2>5. n \in S
    BY <2>3, <2>4, Counting
  <2>6. f[n] = g[n]
    BY <2>5 DEF S
  <2>7. g[n + 1] = Doubled(g[n])
    <3>1. n + 1 \in 1 .. n + 1 /\ n + 1 - 1 = n
      OBVIOUS
    <3> QED
      BY <2>2, <3>1
  <2> QED
    BY <2>1, <2>2, <2>6, <2>7
<1> QED
  BY <1>1, <1>2

\* The shifts up to the first one past ten minutes: 30 s, 1, 2, 4, 8 and 16 minutes.
FirstDelays ==
    <<[hi |-> 0, lo |-> 29296875], [hi |-> 0, lo |-> 58593750], [hi |-> 0, lo |-> 117187500],
      [hi |-> 1, lo |-> 100157272], [hi |-> 3, lo |-> 66096816], [hi |-> 6, lo |-> 132193632]>>

\* Each is twice the one before.
LEMMA FirstDoublings ==
    /\ FirstDelays[1] = ThirtySeconds
    /\ FirstDelays[2] = Doubled(FirstDelays[1])
    /\ FirstDelays[3] = Doubled(FirstDelays[2])
    /\ FirstDelays[4] = Doubled(FirstDelays[3])
    /\ FirstDelays[5] = Doubled(FirstDelays[4])
    /\ FirstDelays[6] = Doubled(FirstDelays[5])
<1>1. FirstDelays[1] = ThirtySeconds
  BY SMT DEF FirstDelays, ThirtySeconds
<1>2. FirstDelays[2] = Doubled(FirstDelays[1])
  BY SMT DEF FirstDelays, Doubled, Limb
<1>3. FirstDelays[3] = Doubled(FirstDelays[2])
  BY SMT DEF FirstDelays, Doubled, Limb
<1>4. FirstDelays[4] = Doubled(FirstDelays[3])
  BY SMT DEF FirstDelays, Doubled, Limb
<1>5. FirstDelays[5] = Doubled(FirstDelays[4])
  BY SMT DEF FirstDelays, Doubled, Limb
<1>6. FirstDelays[6] = Doubled(FirstDelays[5])
  BY SMT DEF FirstDelays, Doubled, Limb
<1> QED
  BY <1>1, <1>2, <1>3, <1>4, <1>5, <1>6

\* None of the first five is above ten minutes, none is less than the one before.
LEMMA FirstDelaysGrow ==
    /\ \A k \in 1 .. 5 : /\ ~Exceeds(FirstDelays[k], TenMinutes) /\ ~Negative(FirstDelays[k])
                         /\ FirstDelays[k] # [hi |-> 0, lo |-> 0]
    /\ \A k \in 1 .. 4 : ~Exceeds(FirstDelays[k], FirstDelays[k + 1])
    /\ ~Exceeds(TenMinutes, TenMinutes) /\ ~Negative(TenMinutes) /\ TenMinutes # [hi |-> 0, lo |-> 0]
<1>1. /\ ~Exceeds(TenMinutes, TenMinutes) /\ ~Negative(TenMinutes) /\ TenMinutes # [hi |-> 0, lo |-> 0]
  BY SMT DEF TenMinutes, Exceeds, Negative, Limb
<1>2. ASSUME NEW k \in 1 .. 5
      PROVE  /\ ~Exceeds(FirstDelays[k], TenMinutes) /\ ~Negative(FirstDelays[k])
             /\ FirstDelays[k] # [hi |-> 0, lo |-> 0]
  BY SMT DEF FirstDelays, TenMinutes, Exceeds, Negative, Limb
<1>3. ASSUME NEW k \in 1 .. 4 PROVE ~Exceeds(FirstDelays[k], FirstDelays[k + 1])
  BY SMT DEF FirstDelays, Exceeds, Negative, Limb
<1> QED
  BY <1>1, <1>2, <1>3

\* So those are the delays of 30 s << 0 to 30 s << 5.
LEMMA FirstShifts == \A k \in 0 .. 5 : Shifted(k) = FirstDelays[k + 1]
<1>1. \A n \in Nat : Shifted(n + 1) = Doubled(Shifted(n))
  BY ShiftDoubles
<1>2. Shifted(1) = Doubled(Shifted(0)) /\ Shifted(2) = Doubled(Shifted(1)) /\ Shifted(3) = Doubled(Shifted(2))
  <2>1. 1 = 0 + 1 /\ 2 = 1 + 1 /\ 3 = 2 + 1 /\ 0 \in Nat /\ 1 \in Nat /\ 2 \in Nat
    OBVIOUS
  <2> QED
    BY <1>1, <2>1, Zenon
<1>3. Shifted(4) = Doubled(Shifted(3)) /\ Shifted(5) = Doubled(Shifted(4))
  <2>1. 4 = 3 + 1 /\ 5 = 4 + 1 /\ 3 \in Nat /\ 4 \in Nat
    OBVIOUS
  <2> QED
    BY <1>1, <2>1, Zenon
<1>4. /\ Shifted(0) = FirstDelays[1] /\ Shifted(1) = FirstDelays[2] /\ Shifted(2) = FirstDelays[3]
      /\ Shifted(3) = FirstDelays[4] /\ Shifted(4) = FirstDelays[5] /\ Shifted(5) = FirstDelays[6]
  BY <1>2, <1>3, ShiftDoubles, FirstDoublings, Zenon
<1> QED
  BY <1>4

\* A power of two by its exponent.
Power == <<1, 2, 4, 8, 16, 32, 64, 128, 256, 512, 1024, 2048, 4096, 8192, 16384, 32768, 65536,
           131072, 262144, 524288, 1048576, 2097152, 4194304, 8388608>>

\* The last of them; 7 times as much is still below half a limb.
Reach == 8388608

\* Each is twice the one before, and none is above the last.
LEMMA PowerDoubles ==
    /\ Power[1] = 1
    /\ \A j \in 1 .. 24 : Power[j] \in Int /\ 1 <= Power[j] /\ Power[j] <= Reach
    /\ \A j \in 1 .. 23 : Power[j + 1] = 2 * Power[j]
<1>1. /\ Power[1] = 1 /\ Power[2] = 2 /\ Power[3] = 4 /\ Power[4] = 8 /\ Power[5] = 16 /\ Power[6] = 32
      /\ Power[7] = 64 /\ Power[8] = 128 /\ Power[9] = 256 /\ Power[10] = 512 /\ Power[11] = 1024 /\ Power[12] = 2048
      /\ Power[13] = 4096 /\ Power[14] = 8192 /\ Power[15] = 16384 /\ Power[16] = 32768 /\ Power[17] = 65536 /\ Power[18] = 131072
      /\ Power[19] = 262144 /\ Power[20] = 524288 /\ Power[21] = 1048576 /\ Power[22] = 2097152 /\ Power[23] = 4194304 /\ Power[24] = 8388608
  BY SMT DEF Power
<1>2. \A j \in 1 .. 24 : Power[j] \in Int /\ 1 <= Power[j] /\ Power[j] <= Reach
  BY <1>1, SMT DEF Reach
<1>3. \A j \in 1 .. 23 : Power[j + 1] = 2 * Power[j]
  BY <1>1, SMT
<1> QED
  BY <1>1, <1>2, <1>3, SMT

\* From 16 minutes on, up to 30 s << 28, the upper limb doubles with every shift
\* and never comes near the sign.
Between(q, p) ==
    \E h \in Int, l \in Int :
        q = [hi |-> h, lo |-> l] /\ 6 * p <= h /\ h < 7 * p /\ 0 <= l /\ l < Limb

\* One shift more, for a power of two whose double is in reach.
LEMMA BetweenDoubles ==
    ASSUME NEW q, NEW p \in Nat, 2 * p <= Reach, Between(q, p)
    PROVE  Between(Doubled(q), 2 * p)
<1>1. PICK h \in Int, l \in Int :
        q = [hi |-> h, lo |-> l] /\ 6 * p <= h /\ h < 7 * p /\ 0 <= l /\ l < Limb
  BY DEF Between
<1>2. Limb \in Nat /\ Limb > 0
  BY SMT DEF Limb
<1>3. PICK c \in 0 .. 1 : c = (2 * l) \div Limb
  BY <1>1, SMT DEF Limb
<1>4. PICK r \in Int : r = (2 * l) % Limb /\ 0 <= r /\ r < Limb
  BY <1>2, SMT
<1>5. 0 <= 2 * h + c /\ 6 * (2 * p) <= 2 * h + c /\ 2 * h + c < 7 * (2 * p)
  BY <1>1, <1>3, SMT
<1>6. 2 * h + c < Limb
  BY <1>5, SMT DEF Limb, Reach
<1>7. (2 * h + c) % Limb = 2 * h + c
  BY <1>5, <1>6, SMT DEF Limb
<1>8. Doubled(q) = [hi |-> 2 * h + c, lo |-> r]
  BY <1>1, <1>3, <1>4, <1>7 DEF Doubled
<1> QED
  BY <1>4, <1>5, <1>8 DEF Between

\* From the sixth attempt to the twenty-ninth, 30 s << n is more than ten minutes.
LEMMA LateShifts ==
    ASSUME NEW n \in 5 .. 28
    PROVE  Exceeds(Shifted(n), TenMinutes)
<1> DEFINE S == {j \in Nat : j <= 23 => Between(Shifted(j + 5), Power[j + 1])}
<1>1. 0 \in S
  <2>1. Between(Shifted(5), 1)
    <3>1. Between(FirstDelays[6], 1)
      <4> DEFINE l == 132193632
      <4>1. FirstDelays[6] = [hi |-> 6, lo |-> l] /\ l \in Int /\ 0 <= l /\ l < Limb
        BY SMT DEF FirstDelays, Limb
      <4> HIDE DEF l
      <4> QED
        BY <4>1 DEF Between
    <3> QED
      BY <3>1, FirstShifts
  <2>2. 0 + 5 = 5 /\ 0 + 1 = 1
    OBVIOUS
  <2> QED
    BY <2>1, <2>2, PowerDoubles
<1>2. ASSUME NEW j \in Nat, j \in S PROVE j + 1 \in S
  <2> SUFFICES ASSUME j + 1 <= 23 PROVE Between(Shifted(j + 1 + 5), Power[j + 1 + 1])
    OBVIOUS
  <2>1. Between(Shifted(j + 5), Power[j + 1])
    BY <1>2
  <2>2. Power[j + 1] \in Nat /\ Power[j + 1 + 1] = 2 * Power[j + 1] /\ 2 * Power[j + 1] <= Reach
    <3>1. j + 1 \in 1 .. 23 /\ j + 1 \in 1 .. 24 /\ j + 1 + 1 \in 1 .. 24
      OBVIOUS
    <3>2. Reach \in Nat
      BY SMT DEF Reach
    <3> QED
      BY <3>1, <3>2, PowerDoubles
  <2>3. Shifted(j + 1 + 5) = Doubled(Shifted(j + 5))
    <3>1. j + 5 \in Nat /\ j + 1 + 5 = j + 5 + 1
      OBVIOUS
    <3> QED
      BY <3>1, ShiftDoubles
  <2> QED
    BY <2>1, <2>2, <2>3, BetweenDoubles
<1> HIDE DEF S
<1>3. n - 5 \in S
  <2>1. n - 5 \in Nat
    OBVIOUS
  <2> QED
    BY <1>1, <1>2, <2>1, Counting
<1>4. PICK p \in Int : Between(Shifted(n), p) /\ 1 <= p /\ p <= Reach
  <2>1. n - 5 + 5 = n /\ n - 5 <= 23 /\ n - 5 + 1 \in 1 .. 24
    OBVIOUS
  <2>2. Between(Shifted(n), Power[n - 5 + 1])
    BY <1>3, <2>1 DEF S
  <2> QED
    BY <2>1, <2>2, PowerDoubles
<1>5. PICK h \in Int, l \in Int :
        Shifted(n) = [hi |-> h, lo |-> l] /\ 6 * p <= h /\ h < 7 * p /\ 0 <= l /\ l < Limb
  BY <1>4 DEF Between
<1>6. h > 4 /\ h < 7 * Reach
  BY <1>4, <1>5, SMT DEF Reach
<1>7. ~(h >= Limb \div 2)
  BY <1>6, SMT DEF Reach, Limb
<1> QED
  BY <1>5, <1>6, <1>7, SMT DEF Exceeds, Negative, TenMinutes

\* What the function returns for each attempt.
LEMMA BackoffTable ==
    /\ \A n \in 1 .. 5 : retryBackoff(n) = FirstDelays[n]
    /\ \A n \in 6 .. 29 : retryBackoff(n) = TenMinutes
<1>1. ASSUME NEW n \in 6 .. 29 PROVE retryBackoff(n) = TenMinutes
  <2>1. n - 1 \in 5 .. 28 /\ ~(n < 1)
    OBVIOUS
  <2>2. Exceeds(Shifted(n - 1), TenMinutes)
    BY <2>1, LateShifts
  <2> QED
    BY <2>1, <2>2 DEF retryBackoff
<1>2. ASSUME NEW n \in 1 .. 5 PROVE retryBackoff(n) = FirstDelays[n]
  <2>1. n - 1 \in 0 .. 4 /\ ~(n < 1)
    OBVIOUS
  <2>2. Shifted(n - 1) = FirstDelays[n]
    <3>1. n - 1 \in 0 .. 5 /\ n - 1 + 1 = n
      OBVIOUS
    <3> QED
      BY <3>1, FirstShifts
  <2>3. ~Exceeds(Shifted(n - 1), TenMinutes)
    BY <2>2, FirstDelaysGrow
  <2> QED
    BY <2>1, <2>2, <2>3 DEF retryBackoff
<1> QED
  BY <1>1, <1>2

\* Positive, never shorter than before, never above ten minutes.
LEMMA BackoffsGrowing == BackoffsGrow
<1> SUFFICES ASSUME NEW n \in 1 .. 29
             PROVE  /\ ~Negative(retryBackoff(n)) /\ retryBackoff(n) # [hi |-> 0, lo |-> 0]
                    /\ ~Exceeds(retryBackoff(n), TenMinutes)
                    /\ n < 29 => ~Exceeds(retryBackoff(n), retryBackoff(n + 1))
  BY DEF BackoffsGrow
<1>1. CASE n \in 1 .. 4
  <2>1. retryBackoff(n) = FirstDelays[n] /\ retryBackoff(n + 1) = FirstDelays[n + 1]
    BY <1>1, BackoffTable
  <2> QED
    BY <1>1, <2>1, FirstDelaysGrow
<1>2. CASE n = 5
  <2>1. retryBackoff(n) = FirstDelays[n] /\ retryBackoff(n + 1) = TenMinutes
    BY <1>2, BackoffTable
  <2> QED
    BY <1>2, <2>1, FirstDelaysGrow
<1>3. CASE n \in 6 .. 29
  <2>1. retryBackoff(n) = TenMinutes /\ (n < 29 => retryBackoff(n + 1) = TenMinutes)
    BY <1>3, BackoffTable
  <2> QED
    BY <2>1, FirstDelaysGrow
<1> QED
  BY <1>1, <1>2, <1>3

(***************************************************************************)
(* Document numbers: what the cleaning keeps of a text.                    *)
(***************************************************************************)

\* One turn of the loop: what is written when the character c comes after w.
Written(w, c) == IF c = Mark THEN w ELSE Append(w, IF c = Cased THEN 10 ELSE c)

\* k holds what is written for the first n characters of s.
Writing(s, n, k) ==
    k = [i \in 0 .. n |->
           IF i = 0 THEN <<>> ELSE Written(k[i - 1], s[i])]

\* The loop can be run to any length.
LEMMA WritingsExist ==
    ASSUME NEW s, NEW n \in Nat
    PROVE  \E f : Writing(s, n, f)
<1> DEFINE S == {m \in Nat : \E f : Writing(s, m, f)}
<1>1. 0 \in S
  <2>1. Writing(s, 0, [k \in 0 .. 0 |-> <<>>])
    BY DEF Writing
  <2> QED
    BY <2>1
<1>2. ASSUME NEW m \in Nat, m \in S PROVE m + 1 \in S
  <2>1. PICK f : Writing(s, m, f)
    BY <1>2
  <2> DEFINE g == [k \in 0 .. m + 1 |-> IF k = 0 THEN <<>> ELSE Written(f[k - 1], s[k])]
  <2>2. ASSUME NEW k \in 0 .. m PROVE f[k] = g[k]
    BY <2>1, <2>2 DEF Writing
  <2>3. ASSUME NEW k \in 1 .. m + 1 PROVE k - 1 \in 0 .. m
    OBVIOUS
  <2>4. ASSUME NEW k \in 0 .. m + 1
        PROVE  g[k] = IF k = 0 THEN <<>> ELSE Written(g[k - 1], s[k])
    <3>1. CASE k = 0
      BY <3>1
    <3>2. CASE k # 0
      <4>1. k - 1 \in 0 .. m
        BY <3>2
      <4>2. f[k - 1] = g[k - 1]
        BY <2>2, <4>1
      <4>3. g[k] = Written(f[k - 1], s[k])
        BY <3>2
      <4> QED
        BY <3>2, <4>2, <4>3, Zenon
    <3> QED
      BY <3>1, <3>2
  <2> HIDE DEF g
  <2>5. g = [k \in 0 .. m + 1 |-> g[k]]
    BY DEF g
  <2>6. Writing(s, m + 1, g)
    BY <2>4, <2>5 DEF Writing
  <2> QED
    BY <2>6
<1> QED
  BY <1>1, <1>2, Counting

\* Cleaned starts with nothing and takes one turn for every character.
LEMMA CleanedUnfolds ==
    ASSUME NEW s, Len(s) \in Nat
    PROVE  \E k : /\ Cleaned(s) = k[Len(s)]
                  /\ k[0] = <<>>
                  /\ \A i \in 1 .. Len(s) :
                       k[i] = Written(k[i - 1], s[i])
<1> DEFINE d == CHOOSE f : Writing(s, Len(s), f)
<1>1. Writing(s, Len(s), d)
  BY WritingsExist
<1>2. Cleaned(s) = d[Len(s)]
  BY Zenon DEF Cleaned, Writing, Written
<1> HIDE DEF d
<1>3. /\ d[0] = <<>>
      /\ \A i \in 1 .. Len(s) :
           d[i] = Written(d[i - 1], s[i])
  BY <1>1 DEF Writing
<1> QED
  BY <1>2, <1>3


\* A character written at the end of a text is counted once if it is a digit.
LEMMA AppendDigits ==
    ASSUME NEW S, NEW t \in Seq(S), NEW c \in S, IsFiniteSet(DigitPlaces(t))
    PROVE  /\ IsFiniteSet(DigitPlaces(Append(t, c)))
           /\ Cardinality(DigitPlaces(Append(t, c))) =
                Cardinality(DigitPlaces(t)) + (IF c \in Digits THEN 1 ELSE 0)
<1>1. /\ Len(t) \in Nat /\ DOMAIN t = 1 .. Len(t) /\ DOMAIN Append(t, c) = 1 .. Len(t) + 1
      /\ \A i \in 1 .. Len(t) : Append(t, c)[i] = t[i]
      /\ Append(t, c)[Len(t) + 1] = c
  OBVIOUS
<1>2. Len(t) + 1 \notin DigitPlaces(t) /\ Cardinality(DigitPlaces(t)) \in Nat
  BY <1>1, FS_CardinalityType DEF DigitPlaces
<1>3. CASE c \in Digits
  <2>1. DigitPlaces(Append(t, c)) = DigitPlaces(t) \cup {Len(t) + 1}
    BY <1>1, <1>3 DEF DigitPlaces
  <2> QED
    BY <1>2, <1>3, <2>1, FS_AddElement
<1>4. CASE c \notin Digits
  <2>1. DigitPlaces(Append(t, c)) = DigitPlaces(t)
    BY <1>1, <1>4 DEF DigitPlaces
  <2> QED
    BY <1>2, <1>4, <2>1
<1> QED
  BY <1>3, <1>4

\* What is left of a text has no mark and no small letter, and has everything else;
\* what it has of digits are the digits there were.
LEMMA CleanedKeeps ==
    ASSUME NEW s \in Seq(0 .. Mark)
    PROVE  /\ Cleaned(s) \in Seq((0 .. Mark) \ {Cased, Mark})
           /\ Len(Cleaned(s)) = Cardinality({i \in DOMAIN s : s[i] # Mark})
           /\ Cardinality(DigitPlaces(Cleaned(s))) = Cardinality(DigitPlaces(s))
<1> DEFINE Upto(n) == {i \in 1 .. n : s[i] # Mark}
           Digit(n) == {i \in 1 .. n : s[i] \in Digits}
           Clean == (0 .. Mark) \ {Cased, Mark}
<1>0. Len(s) \in Nat /\ DOMAIN s = 1 .. Len(s) /\ \A i \in 1 .. Len(s) : s[i] \in 0 .. Mark
  <2> DEFINE Chars == 0 .. Mark
  <2>1. s \in Seq(Chars)
    OBVIOUS
  <2> HIDE DEF Chars
  <2>2. Len(s) \in Nat /\ DOMAIN s = 1 .. Len(s) /\ \A i \in 1 .. Len(s) : s[i] \in Chars
    BY <2>1
  <2> QED
    BY <2>2 DEF Chars
<1>1. PICK k : /\ Cleaned(s) = k[Len(s)]
               /\ k[0] = <<>>
               /\ \A i \in 1 .. Len(s) :
                    k[i] = Written(k[i - 1], s[i])
  BY <1>0, CleanedUnfolds
<1> DEFINE S == {n \in Nat : n <= Len(s) => /\ k[n] \in Seq(Clean)
                                            /\ IsFiniteSet(Upto(n))
                                            /\ Len(k[n]) = Cardinality(Upto(n))
                                            /\ IsFiniteSet(DigitPlaces(k[n])) /\ IsFiniteSet(Digit(n))
                                            /\ Cardinality(DigitPlaces(k[n])) = Cardinality(Digit(n))}
<1>2. 0 \in S
  <2>1. Upto(0) = {} /\ Digit(0) = {}
    OBVIOUS
  <2>2. k[0] \in Seq(Clean) /\ Len(k[0]) = 0 /\ DigitPlaces(k[0]) = {}
    BY <1>1 DEF DigitPlaces
  <2> HIDE DEF Upto, Digit
  <2> QED
    BY <2>1, <2>2, FS_EmptySet
<1>3. ASSUME NEW n \in Nat, n \in S PROVE n + 1 \in S
  <2> SUFFICES ASSUME n + 1 <= Len(s)
               PROVE  /\ k[n + 1] \in Seq(Clean)
                      /\ IsFiniteSet(Upto(n + 1))
                      /\ Len(k[n + 1]) = Cardinality(Upto(n + 1))
                      /\ IsFiniteSet(DigitPlaces(k[n + 1])) /\ IsFiniteSet(Digit(n + 1))
                      /\ Cardinality(DigitPlaces(k[n + 1])) = Cardinality(Digit(n + 1))
    OBVIOUS
  <2>1. /\ k[n] \in Seq(Clean) /\ IsFiniteSet(Upto(n)) /\ Len(k[n]) = Cardinality(Upto(n))
        /\ IsFiniteSet(DigitPlaces(k[n])) /\ IsFiniteSet(Digit(n))
        /\ Cardinality(DigitPlaces(k[n])) = Cardinality(Digit(n))
    BY <1>0, <1>3
  <2>2. n + 1 \in 1 .. Len(s) /\ n + 1 - 1 = n
    BY <1>0
  <2>3. k[n + 1] = IF s[n + 1] = Mark THEN k[n]
                   ELSE Append(k[n], IF s[n + 1] = Cased THEN 10 ELSE s[n + 1])
    BY <1>1, <2>2 DEF Written
  <2>4. CASE s[n + 1] = Mark
    <3>1. Upto(n + 1) = Upto(n) /\ Digit(n + 1) = Digit(n)
      BY <2>4 DEF Mark, Digits
    <3> HIDE DEF Upto, Digit
    <3> QED
      BY <2>1, <2>3, <2>4, <3>1
  <2>5. CASE s[n + 1] # Mark
    <3>1. Upto(n + 1) = Upto(n) \cup {n + 1} /\ n + 1 \notin Upto(n)
      BY <2>5
    <3>7. /\ s[n + 1] \in Digits => Digit(n + 1) = Digit(n) \cup {n + 1} /\ n + 1 \notin Digit(n)
          /\ s[n + 1] \notin Digits => Digit(n + 1) = Digit(n)
      OBVIOUS
    <3> HIDE DEF Upto, Digit
    <3>2. IsFiniteSet(Upto(n + 1)) /\ Cardinality(Upto(n + 1)) = Cardinality(Upto(n)) + 1
      BY <2>1, <3>1, FS_AddElement
    <3>3. (IF s[n + 1] = Cased THEN 10 ELSE s[n + 1]) \in Clean
      BY <1>0, <2>2, <2>5 DEF Cased, Mark
    <3>4. PICK c \in Clean : c = IF s[n + 1] = Cased THEN 10 ELSE s[n + 1]
      BY <3>3
    <3> HIDE DEF Clean
    <3>5. k[n + 1] = Append(k[n], c)
      BY <2>3, <2>5, <3>4
    <3>6. k[n + 1] \in Seq(Clean) /\ Len(k[n + 1]) = Len(k[n]) + 1
      BY <2>1, <3>5
    <3>8. c \in Digits <=> s[n + 1] \in Digits
      BY <3>4 DEF Cased, Digits
    <3>9. /\ IsFiniteSet(DigitPlaces(k[n + 1]))
          /\ Cardinality(DigitPlaces(k[n + 1])) =
               Cardinality(DigitPlaces(k[n])) + (IF c \in Digits THEN 1 ELSE 0)
      BY <2>1, <3>5, AppendDigits
    <3>10. /\ IsFiniteSet(Digit(n + 1))
           /\ Cardinality(Digit(n + 1)) = Cardinality(Digit(n)) + (IF s[n + 1] \in Digits THEN 1 ELSE 0)
      <4>1. Cardinality(Digit(n)) \in Nat
        BY <2>1, FS_CardinalityType
      <4>2. CASE s[n + 1] \in Digits
        BY <2>1, <3>7, <4>2, FS_AddElement
      <4>3. CASE s[n + 1] \notin Digits
        BY <2>1, <3>7, <4>1, <4>3
      <4> QED
        BY <4>2, <4>3
    <3> QED
      BY <2>1, <3>2, <3>6, <3>8, <3>9, <3>10
  <2> QED
    BY <2>4, <2>5
<1> HIDE DEF S
<1>4. Len(s) \in S
  BY <1>0, <1>2, <1>3, Counting
<1>5. /\ k[Len(s)] \in Seq(Clean) /\ Len(k[Len(s)]) = Cardinality(Upto(Len(s)))
      /\ Cardinality(DigitPlaces(k[Len(s)])) = Cardinality(Digit(Len(s)))
  BY <1>0, <1>4 DEF S
<1>6. Upto(Len(s)) = {i \in DOMAIN s : s[i] # Mark} /\ Digit(Len(s)) = DigitPlaces(s)
  BY <1>0 DEF DigitPlaces
<1> QED
  BY <1>1, <1>5, <1>6, Zenon

\* Cleaning a clean text changes nothing.
LEMMA CleanStays ==
    ASSUME NEW s \in Seq((0 .. Mark) \ {Cased, Mark})
    PROVE  Cleaned(s) = s
<1> DEFINE Clean == (0 .. Mark) \ {Cased, Mark}
<1>0. Len(s) \in Nat /\ DOMAIN s = 1 .. Len(s) /\ \A i \in 1 .. Len(s) : s[i] \in Clean
  OBVIOUS
<1>1. PICK k : /\ Cleaned(s) = k[Len(s)]
               /\ k[0] = <<>>
               /\ \A i \in 1 .. Len(s) :
                    k[i] = Written(k[i - 1], s[i])
  BY <1>0, CleanedUnfolds
<1>2. \A i \in 1 .. Len(s) : k[i] = Append(k[i - 1], s[i])
  BY <1>0, <1>1 DEF Written
<1> DEFINE S == {n \in Nat : n <= Len(s) => /\ k[n] \in Seq(Clean) /\ Len(k[n]) = n
                                            /\ \A i \in 1 .. n : k[n][i] = s[i]}
<1> HIDE DEF Clean
<1>3. 0 \in S
  <2>1. k[0] \in Seq(Clean) /\ Len(k[0]) = 0
    BY <1>1
  <2> QED
    BY <2>1
<1>4. ASSUME NEW n \in Nat, n \in S PROVE n + 1 \in S
  <2> SUFFICES ASSUME n + 1 <= Len(s)
               PROVE  /\ k[n + 1] \in Seq(Clean) /\ Len(k[n + 1]) = n + 1
                      /\ \A i \in 1 .. n + 1 : k[n + 1][i] = s[i]
    OBVIOUS
  <2>1. k[n] \in Seq(Clean) /\ Len(k[n]) = n /\ \A i \in 1 .. n : k[n][i] = s[i]
    BY <1>0, <1>4
  <2>2. n + 1 \in 1 .. Len(s) /\ n + 1 - 1 = n
    BY <1>0
  <2>3. PICK c \in Clean : c = s[n + 1] /\ k[n + 1] = Append(k[n], c)
    BY <1>0, <1>2, <2>2
  <2>4. /\ k[n + 1] \in Seq(Clean) /\ Len(k[n + 1]) = n + 1
        /\ k[n + 1][n + 1] = c
        /\ \A i \in 1 .. n : k[n + 1][i] = k[n][i]
    BY <2>1, <2>3
  <2> QED
    BY <2>1, <2>3, <2>4
<1> HIDE DEF S
<1>5. Len(s) \in S
  BY <1>0, <1>3, <1>4, Counting
<1>6. Cleaned(s) \in Seq(Clean) /\ Len(Cleaned(s)) = Len(s) /\ \A i \in 1 .. Len(s) : Cleaned(s)[i] = s[i]
  BY <1>0, <1>1, <1>5 DEF S
<1>7. s \in Seq(Clean)
  BY DEF Clean
<1> QED
  BY <1>6, <1>7, SeqEqual

\* Flag, never reject, for every text there is: its digits stay and get a verdict,
\* without letters nothing else stays, and a second pass finds nothing to clean.
THEOREM EveryTextSurvives ==
    ASSUME NEW s \in Seq(0 .. Mark)
    PROVE  /\ normalizeDoc(normalizeDoc(s).doc) = normalizeDoc(s)
           /\ Cardinality(DigitPlaces(normalizeDoc(s).doc)) = Cardinality(DigitPlaces(s))
           /\ DigitPlaces(s) # {} => normalizeDoc(s).valid # "null"
           /\ (\A i \in DOMAIN s : s[i] \in Digits \cup {Mark}) =>
                  Len(normalizeDoc(s).doc) = Cardinality(DigitPlaces(s))
<1>1. PICK c : c = Cleaned(s)
  OBVIOUS
<1>2. /\ c \in Seq((0 .. Mark) \ {Cased, Mark}) /\ Len(c) = Cardinality({i \in DOMAIN s : s[i] # Mark})
      /\ Cardinality(DigitPlaces(c)) = Cardinality(DigitPlaces(s))
  BY <1>1, CleanedKeeps
<1>3. Cleaned(c) = c
  BY <1>2, CleanStays
<1>4. normalizeDoc(s).doc = c /\ normalizeDoc(c) = normalizeDoc(s)
  BY <1>1, <1>3 DEF normalizeDoc
<1>5. normalizeDoc(s).valid = "null" <=> Len(c) = 0
  <2>1. normalizeDoc(s).valid =
          CASE Len(c) = 0                             -> "null"
            [] Len(c) = 11 /\ validCPF(c)             -> "true"
            [] Len(c) = 14 /\ validCNPJ(c)            -> "true"
            [] OTHER                                  -> "false"
    BY <1>1 DEF normalizeDoc
  <2>2. CASE Len(c) = 0
    BY <2>1, <2>2
  <2>3. CASE Len(c) = 11 /\ validCPF(c)
    BY <2>1, <2>3
  <2>4. CASE Len(c) = 14 /\ validCNPJ(c)
    BY <2>1, <2>4
  <2>5. CASE Len(c) # 0 /\ ~(Len(c) = 11 /\ validCPF(c)) /\ ~(Len(c) = 14 /\ validCNPJ(c))
    BY <2>1, <2>5
  <2> QED
    BY <2>2, <2>3, <2>4, <2>5
<1>6. Len(c) = 0 <=> \A i \in DOMAIN s : s[i] = Mark
  <2>1. IsFiniteSet({i \in DOMAIN s : s[i] # Mark})
    <3>1. {i \in DOMAIN s : s[i] # Mark} \subseteq 1 .. Len(s) /\ 1 \in Int /\ Len(s) \in Int
      OBVIOUS
    <3>2. IsFiniteSet(1 .. Len(s))
      BY <3>1, FS_Interval
    <3> QED
      BY <3>1, <3>2, FS_Subset
  <2>2. Cardinality({i \in DOMAIN s : s[i] # Mark}) = 0 <=> {i \in DOMAIN s : s[i] # Mark} = {}
    BY <2>1, FS_EmptySet
  <2> QED
    BY <1>2, <2>2
<1>7. DigitPlaces(s) # {} => ~(\A i \in DOMAIN s : s[i] = Mark)
  BY DEF DigitPlaces, Digits, Mark
<1>8. (\A i \in DOMAIN s : s[i] \in Digits \cup {Mark}) => {i \in DOMAIN s : s[i] # Mark} = DigitPlaces(s)
  BY DEF DigitPlaces, Digits, Mark
<1> QED
  BY <1>2, <1>4, <1>5, <1>6, <1>7, <1>8

\* The texts that the run looks at are texts.
LEMMA DocsSurviving == DocsSurvive
<1>1. Texts \subseteq Seq(0 .. Mark)
  <2> DEFINE Short == UNION {[1 .. n -> {3, 8, 10, Cased, Mark}] : n \in 0 .. 4}
             Numbers == {<<5, 2, 9, 9, 8, 2, 2, 4, 7, 2, 5>>, <<5, 2, 9, 9, 8, 2, 2, 4, 7, 2, 6>>,
                        <<5, 2, 9, Mark, 9, 8, 2, Mark, 2, 4, 7, Mark, 2, 5>>,
                        <<1, 1, 1, 1, 1, 1, 1, 1, 1, 1, 1>>,
                        <<1, 1, Mark, 2, 2, 2, Mark, 3, 3, 3, Mark, 0, 0, 0, 1, Mark, 8, 1>>,
                        <<1, 1, 2, 2, 2, 3, 3, 3, 0, 0, 0, 1, 8, 2>>,
                        <<1, 2, Cased, 2, 2, 3, 3, 3, 0, 0, 0, 1, 8, 1>>}
  <2>1. ASSUME NEW n \in 0 .. 4, NEW s \in [1 .. n -> {3, 8, 10, Cased, Mark}]
        PROVE  s \in Seq(0 .. Mark)
    <3> DEFINE Chars == 0 .. Mark
    <3>1. n \in Nat /\ \A i \in 1 .. n : s[i] \in Chars
      BY DEF Mark, Cased
    <3> HIDE DEF Chars
    <3>2. s \in [1 .. n -> Chars]
      BY <3>1
    <3>3. s \in Seq(Chars)
      BY <3>1, <3>2
    <3> QED
      BY <3>3 DEF Chars
  <2>3. ASSUME NEW s \in UNION {[1 .. n -> {3, 8, 10, Cased, Mark}] : n \in 0 .. 4}
        PROVE  s \in Seq(0 .. Mark)
    <3>1. PICK n \in 0 .. 4 : s \in [1 .. n -> {3, 8, 10, Cased, Mark}]
      BY Zenon
    <3> QED
      BY <2>1, <3>1, Zenon
  <2>4. Short \subseteq Seq(0 .. Mark)
    BY <2>3, Zenon
  <2>5. Numbers \subseteq Seq(0 .. Mark)
    BY DEF Mark, Cased
  <2>6. Texts = Short \cup Numbers
    BY Zenon DEF Texts
  <2> HIDE DEF Numbers, Short
  <2> QED
    BY <2>4, <2>5, <2>6
<1> QED
  BY <1>1, EveryTextSurvives, Zenon DEF DocsSurvive

(***************************************************************************)
(* The properties of Answer that rest on them.                             *)
(***************************************************************************)

\* validCPF is right about every CPF that an answer can bring to Normalize.
THEOREM CPFsAreAlwaysRight == AnswerSpec => []CPFsAreRight
<1>1. CPFsAreRight
  BY CPFsBalanced DEF CPFsAreRight
<1> QED
  BY <1>1, PTL

\* The same for validCNPJ.
THEOREM CNPJsAreAlwaysRight == AnswerSpec => []CNPJsAreRight
<1>1. CNPJsAreRight
  BY CNPJsBalanced DEF CNPJsAreRight
<1> QED
  BY <1>1, PTL

\* normalizeDoc keeps the document numbers of whatever answer is accepted.
THEOREM DocsAreAlwaysKept == AnswerSpec => []DocsAreKept
<1>1. DocsAreKept
  BY DocsSurviving DEF DocsAreKept
<1> QED
  BY <1>1, PTL

\* Whatever attempt is returned to the queue waits, and for ten minutes at most.
THEOREM BackoffIsAlwaysInRange == AnswerSpec => []BackoffIsInRange
<1>1. BackoffIsInRange
  BY BackoffsGrowing DEF BackoffIsInRange
<1> QED
  BY <1>1, PTL
==============================================================================
