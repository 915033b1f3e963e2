-------------------------- MODULE ModeCommandProofs --------------------------
(***************************************************************************)
(* A MODE command is accepted exactly when all its changes are acceptable, *)
(* and does what they say, for lines, nicknames and limits of any kind.    *)
(***************************************************************************)
EXTENDS ModeCommand, MessageProofs

-----------------------------------------------------------------------------
(* Digits.                                                                 *)

LEMMA DigitOfDigit ==
    ASSUME NEW ch, IsDigit(ch)
    PROVE  DigitOf(ch) \in 0..9 /\ Digits[DigitOf(ch) + 1] = ch
<1>1. DOMAIN Digits = 1..10
  BY DEF Digits
<1>2. PICK d \in 1..10 : Digits[d] = ch
  BY <1>1 DEF IsDigit
<1> DEFINE k == CHOOSE e \in DOMAIN Digits : Digits[e] = ch
<1>3. k \in 1..10 /\ Digits[k] = ch
  BY <1>1, <1>2
<1>4. DigitOf(ch) = k - 1
  BY DEF DigitOf
<1> HIDE DEF k
<1>5. DigitOf(ch) \in 0..9 /\ DigitOf(ch) + 1 = k
  BY <1>3, <1>4
<1> QED BY <1>3, <1>5

LEMMA DigitWritten ==
    ASSUME NEW d \in 0..9
    PROVE  /\ IsDigit(Digits[d + 1])
           /\ DigitOf(Digits[d + 1]) = d
<1>1. DOMAIN Digits = 1..10
  BY DEF Digits
<1>2. \A a, b \in 1..10 : Digits[a] = Digits[b] => a = b
  BY DEF Digits
<1>4. d + 1 \in 1..10
  OBVIOUS
<1>5. IsDigit(Digits[d + 1])
  BY <1>1, <1>4 DEF IsDigit
<1>6. DigitOf(Digits[d + 1]) \in 0..9
      /\ Digits[DigitOf(Digits[d + 1]) + 1] = Digits[d + 1]
  BY <1>5, DigitOfDigit
<1>7. DigitOf(Digits[d + 1]) + 1 = d + 1
  BY <1>2, <1>4, <1>6
<1> QED BY <1>5, <1>6, <1>7

-----------------------------------------------------------------------------
(* parsePositiveUserLimit().                                               *)

LEMMA NextDigitFits ==
    ASSUME NEW value \in 0..MaxSize, NEW ch, IsDigit(ch)
    PROVE  NextDigit(value, ch) =
              IF value * 10 + DigitOf(ch) <= MaxSize
              THEN value * 10 + DigitOf(ch) ELSE Refused
<1> DEFINE d == DigitOf(ch)
<1>1. d \in 0..9 /\ MaxSize \in Nat
  BY DigitOfDigit, MaxSizeAssumption
<1> HIDE DEF d
<1>2. CASE value > MaxSize \div 10 \/ (value = MaxSize \div 10 /\ d > MaxSize % 10)
  <2>1. value * 10 + d > MaxSize
    BY <1>1, <1>2
  <2> QED BY <1>1, <1>2, <2>1 DEF NextDigit, d
<1>3. CASE ~ (value > MaxSize \div 10 \/ (value = MaxSize \div 10 /\ d > MaxSize % 10))
  <2>1. value * 10 + d \in 0..MaxSize
    BY <1>1, <1>3
  <2>2. (value * 10 + d) % (MaxSize + 1) = value * 10 + d
    BY <1>1, <2>1
  <2> QED BY <1>1, <1>3, <2>1, <2>2 DEF NextDigit, d
<1> QED BY <1>2, <1>3

LEMMA LimitReadSteps ==
    ASSUME NEW C, NEW text \in Seq(C)
    PROVE  /\ LimitRead(text) \in [0..Len(text) -> 0..Refused]
           /\ LimitRead(text)[0] = 0
           /\ \A n \in 1..Len(text) :
                LimitRead(text)[n] =
                  IF LimitRead(text)[n - 1] = Refused \/ ~IsDigit(text[n])
                  THEN Refused ELSE NextDigit(LimitRead(text)[n - 1], text[n])
<1> DEFINE N == Len(text)
           S == 0..Refused
           Next1(v, n) == IF v = Refused \/ ~IsDigit(text[n])
                          THEN Refused ELSE NextDigit(v, text[n])
           Is(g) == g = [n \in 0..N |-> IF n = 0 THEN 0 ELSE Next1(g[n - 1], n)]
           step == [p \in S \X (1..N) |-> Next1(p[1], p[2])]
<1>1. N \in Nat /\ MaxSize \in Nat /\ Refused \in Nat /\ 0 \in S
  BY MaxSizeAssumption DEF Refused
<1>2. \A v \in S, n \in 1..N : Next1(v, n) \in S
  <2> TAKE v \in S, n \in 1..N
  <2>1. CASE v = Refused \/ ~IsDigit(text[n])
    BY <1>1, <2>1
  <2>2. CASE ~ (v = Refused \/ ~IsDigit(text[n]))
    <3>1. v \in 0..MaxSize
      BY <1>1, <2>2 DEF Refused
    <3>2. DigitOf(text[n]) \in 0..9
      BY <2>2, DigitOfDigit
    <3>3. NextDigit(v, text[n]) =
             IF v * 10 + DigitOf(text[n]) <= MaxSize
             THEN v * 10 + DigitOf(text[n]) ELSE Refused
      BY <2>2, <3>1, NextDigitFits
    <3>4. NextDigit(v, text[n]) \in S
      BY <1>1, <3>1, <3>2, <3>3 DEF Refused
    <3> QED BY <2>2, <3>4
  <2> QED BY <2>1, <2>2
<1>3. step \in [S \X (1..N) -> S]
  BY <1>2
<1>4. PICK g \in [0..N -> S] :
         g[0] = 0 /\ \A n \in 1..N : g[n] = step[<<g[n - 1], n>>]
  <2> HIDE DEF step, S, N
  <2>1. Recursions(N, S, 0, step) # {}
    BY <1>1, <1>3, RecursionExists
  <2> QED BY <2>1 DEF Recursions
<1>5. ASSUME NEW n \in 1..N
      PROVE  g[n] = Next1(g[n - 1], n)
  <2>1. n - 1 \in 0..N
    BY <1>1
  <2>2. g[n - 1] \in S
    BY <2>1
  <2>3. step[<<g[n - 1], n>>] = Next1(g[n - 1], n)
    BY <2>2
  <2> QED BY <1>4, <2>3
<1>6. Is(g)
  <2>1. \A n \in 0..N : n = 0 \/ n \in 1..N
    BY <1>1
  <2> HIDE DEF Next1, N, S
  <2> QED BY <1>4, <1>5, <2>1
<1>7. Is(LimitRead(text))
  <2>1. LimitRead(text) = CHOOSE h : Is(h)
    BY DEF LimitRead
  <2> HIDE DEF Is
  <2> QED BY <1>6, <2>1
<1> DEFINE v == LimitRead(text)
<1>8. \A n \in 0..N : v[n] = IF n = 0 THEN 0 ELSE Next1(v[n - 1], n)
  <2> HIDE DEF Next1, v, N
  <2> QED BY <1>7 DEF v
<1> DEFINE T == {n \in 0..N : v[n] \in S}
<1>9. \A n \in 0..N : n \in T
  <2>1. 0 \in 0..N /\ v[0] = 0
    BY <1>1, <1>8
  <2>2. 0 \in T
    BY <1>1, <2>1
  <2>3. ASSUME NEW n \in 0..(N - 1), n \in T PROVE n + 1 \in T
    <3>1. n + 1 \in 1..N /\ n + 1 \in 0..N /\ (n + 1) - 1 = n /\ n + 1 # 0
      BY <1>1
    <3>2. v[n + 1] = Next1(v[n], n + 1)
      <4> HIDE DEF Next1, v
      <4> QED BY <1>8, <3>1
    <3>3. Next1(v[n], n + 1) \in S
      BY <1>2, <2>3, <3>1
    <3> QED BY <3>1, <3>2, <3>3
  <2> HIDE DEF T, N
  <2> QED BY <1>1, <2>2, <2>3, InductionUpTo
<1>10. v = [n \in 0..N |-> v[n]]
  <2> HIDE DEF Next1, N
  <2> QED BY <1>7
<1>11. v \in [0..N -> S]
  <2> HIDE DEF v, S, N
  <2> QED BY <1>9, <1>10
<1>12. v[0] = 0 /\ \A n \in 1..N : v[n] = Next1(v[n - 1], n)
  <2>1. 0 \in 0..N /\ \A n \in 1..N : n \in 0..N /\ n # 0
    BY <1>1
  <2> HIDE DEF Next1, v, N
  <2> QED BY <1>8, <2>1
<1> QED BY <1>11, <1>12

AllDigits(text) == \A i \in DOMAIN text : IsDigit(text[i])

LEMMA NumberReadSteps ==
    ASSUME NEW C, NEW text \in Seq(C), AllDigits(text)
    PROVE  /\ NumberRead(text) \in [0..Len(text) -> Nat]
           /\ NumberRead(text)[0] = 0
           /\ \A n \in 1..Len(text) :
                NumberRead(text)[n] =
                  NumberRead(text)[n - 1] * 10 + DigitOf(text[n])
<1> DEFINE N == Len(text)
           Next1(v, n) == v * 10 + DigitOf(text[n])
           Is(g) == g = [n \in 0..N |-> IF n = 0 THEN 0 ELSE Next1(g[n - 1], n)]
           step == [p \in Nat \X (1..N) |-> Next1(p[1], p[2])]
<1>1. N \in Nat /\ DOMAIN text = 1..N
  OBVIOUS
<1>2. \A v \in Nat, n \in 1..N : Next1(v, n) \in Nat
  <2> TAKE v \in Nat, n \in 1..N
  <2>1. DigitOf(text[n]) \in 0..9
    BY <1>1, DigitOfDigit DEF AllDigits
  <2> QED BY <2>1
<1>3. step \in [Nat \X (1..N) -> Nat]
  BY <1>2
<1>4. PICK g \in [0..N -> Nat] :
         g[0] = 0 /\ \A n \in 1..N : g[n] = step[<<g[n - 1], n>>]
  <2> HIDE DEF step, N
  <2>1. Recursions(N, Nat, 0, step) # {}
    BY <1>1, <1>3, RecursionExists
  <2> QED BY <2>1 DEF Recursions
<1>5. ASSUME NEW n \in 1..N
      PROVE  g[n] = Next1(g[n - 1], n)
  <2>1. n - 1 \in 0..N
    BY <1>1
  <2>2. g[n - 1] \in Nat
    BY <2>1
  <2>3. step[<<g[n - 1], n>>] = Next1(g[n - 1], n)
    BY <2>2
  <2> QED BY <1>4, <2>3
<1>6. Is(g)
  <2>1. \A n \in 0..N : n = 0 \/ n \in 1..N
    BY <1>1
  <2> HIDE DEF Next1, N
  <2> QED BY <1>4, <1>5, <2>1
<1>7. Is(NumberRead(text))
  <2>1. NumberRead(text) = CHOOSE h : Is(h)
    BY DEF NumberRead
  <2> HIDE DEF Is
  <2> QED BY <1>6, <2>1
<1> DEFINE v == NumberRead(text)
<1>8. v[0] = 0 /\ \A n \in 1..N : v[n] = Next1(v[n - 1], n)
  <2>1. 0 \in 0..N /\ \A n \in 1..N : n \in 0..N /\ n # 0
    BY <1>1
  <2> HIDE DEF Next1, v, N
  <2> QED BY <1>7, <2>1 DEF v
<1>9. v \in [0..N -> Nat]
  <2> DEFINE T == {n \in 0..N : v[n] \in Nat}
  <2>1. 0 \in T
    BY <1>1, <1>8
  <2>2. ASSUME NEW n \in 0..(N - 1), n \in T PROVE n + 1 \in T
    <3>1. n + 1 \in 1..N /\ n + 1 \in 0..N /\ (n + 1) - 1 = n
      BY <1>1
    <3>2. v[n + 1] = Next1(v[n], n + 1)
      BY <1>8, <3>1
    <3>3. Next1(v[n], n + 1) \in Nat
      BY <1>2, <2>2, <3>1
    <3> QED BY <3>1, <3>2, <3>3
  <2>3. \A n \in 0..N : n \in T
    <3> HIDE DEF T
    <3> QED BY <1>1, <2>1, <2>2, InductionUpTo
  <2>4. v = [n \in 0..N |-> v[n]]
    <3> HIDE DEF v, Next1, N
    <3> QED BY <1>7 DEF v
  <2> HIDE DEF v
  <2> QED BY <2>3, <2>4
<1> QED BY <1>8, <1>9

(* As long as the number fits, it is the value; from then on, the text is  *)
(* refused.                                                                *)
LEMMA DigitsRead ==
    ASSUME NEW C, NEW text \in Seq(C), AllDigits(text), NEW n \in 0..Len(text)
    PROVE  LimitRead(text)[n] =
              IF NumberRead(text)[n] <= MaxSize THEN NumberRead(text)[n]
              ELSE Refused
<1> DEFINE N == Len(text)
           lim == LimitRead(text)
           num == NumberRead(text)
           T == {k \in 0..N : lim[k] = IF num[k] <= MaxSize THEN num[k] ELSE Refused}
<1>1. N \in Nat /\ DOMAIN text = 1..N /\ MaxSize \in Nat
  BY MaxSizeAssumption
<1>2. 0 \in T
  BY <1>1, LimitReadSteps, NumberReadSteps
<1>3. ASSUME NEW k \in 0..(N - 1), k \in T PROVE k + 1 \in T
  <2>1. k + 1 \in 1..N /\ k + 1 \in 0..N /\ (k + 1) - 1 = k /\ k \in 0..N
    BY <1>1
  <2>2. IsDigit(text[k + 1]) /\ DigitOf(text[k + 1]) \in 0..9
    BY <1>1, <2>1, DigitOfDigit DEF AllDigits
  <2>3. num[k] \in Nat /\ num[k + 1] = num[k] * 10 + DigitOf(text[k + 1])
    BY <2>1, NumberReadSteps
  <2>4. lim[k + 1] = IF lim[k] = Refused \/ ~IsDigit(text[k + 1])
                     THEN Refused ELSE NextDigit(lim[k], text[k + 1])
    BY <2>1, LimitReadSteps
  <2>5. lim[k] = IF num[k] <= MaxSize THEN num[k] ELSE Refused
    BY <1>3
  <2> HIDE DEF lim, num
  <2>6. CASE num[k] <= MaxSize
    <3>1. lim[k] = num[k] /\ num[k] \in 0..MaxSize /\ num[k] # Refused
      BY <1>1, <2>3, <2>5, <2>6 DEF Refused
    <3>2. NextDigit(num[k], text[k + 1]) =
             IF num[k] * 10 + DigitOf(text[k + 1]) <= MaxSize
             THEN num[k] * 10 + DigitOf(text[k + 1]) ELSE Refused
      BY <2>2, <3>1, NextDigitFits
    <3> QED BY <2>1, <2>2, <2>3, <2>4, <3>1, <3>2
  <2>7. CASE ~ (num[k] <= MaxSize)
    <3>1. ~ (num[k + 1] <= MaxSize)
      BY <1>1, <2>2, <2>3, <2>7
    <3> QED BY <2>1, <2>4, <2>5, <2>7, <3>1
  <2> QED BY <2>6, <2>7
<1>4. \A k \in 0..N : k \in T
  <2> HIDE DEF T, N
  <2> QED BY <1>1, <1>2, <1>3, InductionUpTo
<1> QED BY <1>4

(* From a character on that is not a digit, the text is refused.           *)
LEMMA RefusedFrom ==
    ASSUME NEW C, NEW text \in Seq(C),
           NEW i \in 1..Len(text), ~IsDigit(text[i])
    PROVE  LimitRead(text)[Len(text)] = Refused
<1> DEFINE N == Len(text)
           lim == LimitRead(text)
           T == {k \in 0..N : k >= i => lim[k] = Refused}
<1>1. N \in Nat
  OBVIOUS
<1>2. 0 \in T
  BY <1>1
<1>3. ASSUME NEW k \in 0..(N - 1), k \in T PROVE k + 1 \in T
  <2>1. k + 1 \in 1..N /\ k + 1 \in 0..N /\ (k + 1) - 1 = k
    BY <1>1
  <2>2. lim[k + 1] = IF lim[k] = Refused \/ ~IsDigit(text[k + 1])
                     THEN Refused ELSE NextDigit(lim[k], text[k + 1])
    BY <2>1, LimitReadSteps
  <2> HIDE DEF lim
  <2>3. CASE k + 1 = i
    BY <2>1, <2>2, <2>3
  <2>4. CASE k + 1 # i
    BY <1>3, <2>1, <2>2, <2>4
  <2> QED BY <2>3, <2>4
<1>4. \A k \in 0..N : k \in T
  <2> HIDE DEF T, N
  <2> QED BY <1>1, <1>2, <1>3, InductionUpTo
<1> QED BY <1>1, <1>4

(* A user limit is the number that the text writes if that is positive and *)
(* a size_t can hold it, whatever the width of size_t, and otherwise the   *)
(* text is refused (parsePositiveUserLimit).                               *)
THEOREM LimitExact ==
    ASSUME NEW C, NEW text \in Seq(C)
    PROVE  parsePositiveUserLimit(text) =
              IF IsLimit(text) THEN Number(text) ELSE NoLimit
<1> DEFINE N == Len(text)
<1>1. N \in Nat /\ DOMAIN text = 1..N /\ N \in 0..N /\ MaxSize \in Nat
  BY MaxSizeAssumption
<1>2. CASE text # <<>> /\ AllDigits(text)
  <2>1. LimitRead(text)[N] =
           IF Number(text) <= MaxSize THEN Number(text) ELSE Refused
    BY <1>1, <1>2, DigitsRead DEF Number
  <2>2. Number(text) \in Nat
    BY <1>1, <1>2, NumberReadSteps DEF Number
  <2>3. IsLimit(text) <=> Number(text) \in 1..MaxSize
    BY <1>2 DEF IsLimit, AllDigits
  <2>4. parsePositiveUserLimit(text) =
           IF LimitRead(text)[N] = Refused THEN NoLimit ELSE LimitRead(text)[N]
    BY <1>2 DEF parsePositiveUserLimit
  <2> QED BY <1>1, <2>1, <2>2, <2>3, <2>4 DEF Refused, NoLimit
<1>3. CASE text # <<>> /\ ~AllDigits(text)
  <2>1. PICK i \in 1..N : ~IsDigit(text[i])
    BY <1>1, <1>3 DEF AllDigits
  <2>2. LimitRead(text)[N] = Refused
    BY <2>1, RefusedFrom
  <2>3. ~IsLimit(text)
    BY <1>3 DEF IsLimit, AllDigits
  <2> QED BY <1>3, <2>2, <2>3 DEF parsePositiveUserLimit
<1>4. CASE text = <<>>
  BY <1>4 DEF parsePositiveUserLimit, IsLimit
<1> QED BY <1>2, <1>3, <1>4

-----------------------------------------------------------------------------
(* formatUserLimit().                                                      *)

DigitTexts == Seq({Digits[d] : d \in 1..10}) \ {<<>>}

LEMMA DigitTextsAreDigits ==
    ASSUME NEW text \in DigitTexts
    PROVE  AllDigits(text)
<1>1. DOMAIN Digits = 1..10
  BY DEF Digits
<1>2. \A i \in DOMAIN text : text[i] \in {Digits[d] : d \in 1..10}
  BY DEF DigitTexts
<1> QED BY <1>1, <1>2 DEF AllDigits, IsDigit

LEMMA NumberOfAppend ==
    ASSUME NEW C, NEW text \in Seq(C), AllDigits(text),
           NEW ch \in C, IsDigit(ch)
    PROVE  /\ AllDigits(Append(text, ch))
           /\ Number(Append(text, ch)) = Number(text) * 10 + DigitOf(ch)
<1> DEFINE N == Len(text)
           long == Append(text, ch)
           T == {k \in 0..N : NumberRead(long)[k] = NumberRead(text)[k]}
<1>1. /\ N \in Nat /\ long \in Seq(C) /\ Len(long) = N + 1
      /\ long[N + 1] = ch /\ \A k \in 1..N : long[k] = text[k]
      /\ DOMAIN text = 1..N /\ DOMAIN long = 1..(N + 1)
  OBVIOUS
<1>2. AllDigits(long)
  <2>1. \A k \in 1..(N + 1) : k = N + 1 \/ k \in 1..N
    BY <1>1
  <2> HIDE DEF long, N
  <2> QED BY <1>1, <2>1 DEF AllDigits
<1> HIDE DEF long
<1>3. 0 \in T
  BY <1>1, <1>2, NumberReadSteps
<1>4. ASSUME NEW k \in 0..(N - 1), k \in T PROVE k + 1 \in T
  <2>1. k + 1 \in 1..N /\ k + 1 \in 0..N /\ (k + 1) - 1 = k
        /\ k + 1 \in 1..Len(long)
    BY <1>1
  <2>2. NumberRead(text)[k + 1] = NumberRead(text)[k] * 10 + DigitOf(text[k + 1])
    BY <2>1, NumberReadSteps
  <2>3. NumberRead(long)[k + 1] = NumberRead(long)[k] * 10 + DigitOf(long[k + 1])
    BY <1>1, <1>2, <2>1, NumberReadSteps
  <2> QED BY <1>1, <1>4, <2>1, <2>2, <2>3
<1>5. N \in T
  <2> HIDE DEF T, N
  <2>1. \A k \in 0..N : k \in T
    BY <1>1, <1>3, <1>4, InductionUpTo
  <2> QED BY <1>1, <2>1
<1>6. NumberRead(long)[N + 1] = NumberRead(long)[N] * 10 + DigitOf(ch)
  <2>1. N + 1 \in 1..Len(long) /\ (N + 1) - 1 = N
    BY <1>1
  <2> QED BY <1>1, <1>2, <2>1, NumberReadSteps
<1> QED BY <1>1, <1>2, <1>5, <1>6 DEF Number, long

LEMMA NumberOfDigit ==
    ASSUME NEW d \in 0..9
    PROVE  Number(<<Digits[d + 1]>>) = d
<1> DEFINE text == <<Digits[d + 1]>>
           C == {Digits[d + 1]}
<1>1. text \in Seq(C) /\ Len(text) = 1 /\ DOMAIN text = 1..1 /\ text[1] = Digits[d + 1]
  OBVIOUS
<1>2. IsDigit(Digits[d + 1]) /\ DigitOf(Digits[d + 1]) = d
  BY DigitWritten
<1>3. AllDigits(text)
  BY <1>1, <1>2 DEF AllDigits
<1> HIDE DEF text, C
<1>4. NumberRead(text)[0] = 0
      /\ NumberRead(text)[1] = NumberRead(text)[1 - 1] * 10 + DigitOf(text[1])
  <2>1. 1 \in 1..Len(text)
    BY <1>1
  <2> QED BY <1>1, <1>3, <2>1, NumberReadSteps
<1> QED BY <1>1, <1>2, <1>4 DEF Number, text

FormatBody(f, limit) ==
    IF limit < 10 THEN <<Digits[limit + 1]>>
    ELSE Append(f[limit \div 10], Digits[(limit % 10) + 1])

LEMMA FormatExists ==
    \E g : g = [limit \in 0..MaxSize |-> FormatBody(g, limit)]
<1> DEFINE Up(g, m) == /\ g \in [0..m -> DigitTexts]
                       /\ \A k \in 0..m : g[k] = FormatBody(g, k)
           T == {m \in 0..MaxSize : \E g : Up(g, m)}
<1>1. MaxSize \in Nat
  BY MaxSizeAssumption
<1>2. \A d \in 1..10 : <<Digits[d]>> \in DigitTexts
  BY DEF DigitTexts
<1>3. ASSUME NEW text \in DigitTexts, NEW d \in 1..10
      PROVE  Append(text, Digits[d]) \in DigitTexts
  <2>1. Digits[d] \in {Digits[e] : e \in 1..10}
    OBVIOUS
  <2>2. text \in Seq({Digits[e] : e \in 1..10})
    BY DEF DigitTexts
  <2>3. Append(text, Digits[d]) # <<>>
    BY <2>2
  <2> QED BY <2>1, <2>2, <2>3 DEF DigitTexts
<1>4. 0 \in T
  <2> DEFINE g == [k \in 0..0 |-> <<Digits[1]>>]
  <2>1. g \in [0..0 -> DigitTexts]
    BY <1>2
  <2>2. \A k \in 0..0 : g[k] = FormatBody(g, k)
    BY DEF FormatBody
  <2>3. Up(g, 0)
    BY <2>1, <2>2
  <2> HIDE DEF Up, g
  <2> QED BY <1>1, <2>3
<1>5. ASSUME NEW m \in 0..(MaxSize - 1), m \in T PROVE m + 1 \in T
  <2>1. PICK g : Up(g, m)
    BY <1>5
  <2> DEFINE h == [k \in 0..(m + 1) |-> IF k = m + 1 THEN FormatBody(g, m + 1) ELSE g[k]]
  <2>2. m \in Nat /\ m + 1 \in 0..MaxSize
    BY <1>1
  <2>3. ASSUME NEW k \in 0..(m + 1), k >= 10
        PROVE  k \div 10 \in 0..m /\ (k % 10) + 1 \in 1..10
    BY <2>2, <2>3
  <2>4. FormatBody(g, m + 1) \in DigitTexts
    <3>1. CASE m + 1 < 10
      <4>1. (m + 1) + 1 \in 1..10
        BY <2>2, <3>1
      <4> QED BY <1>2, <3>1, <4>1 DEF FormatBody
    <3>2. CASE ~ (m + 1 < 10)
      <4>1. (m + 1) \div 10 \in 0..m /\ ((m + 1) % 10) + 1 \in 1..10
        BY <2>2, <2>3, <3>2
      <4>2. g[(m + 1) \div 10] \in DigitTexts
        BY <2>1, <4>1
      <4> QED BY <1>3, <3>2, <4>1, <4>2 DEF FormatBody
    <3> QED BY <3>1, <3>2
  <2>5. \A k \in 0..(m + 1) : k = m + 1 \/ k \in 0..m
    BY <2>2
  <2>6. h \in [0..(m + 1) -> DigitTexts]
    <3>1. \A k \in 0..m : g[k] \in DigitTexts
      BY <2>1
    <3> HIDE DEF Up
    <3> QED BY <2>4, <2>5, <3>1
  <2>7. \A k \in 0..m : h[k] = g[k] /\ k \in 0..(m + 1)
    BY <2>2
  <2>8. h[m + 1] = FormatBody(g, m + 1)
    BY <2>2
  <2>9. ASSUME NEW k \in 0..(m + 1) PROVE h[k] = FormatBody(h, k)
    <3>1. FormatBody(h, k) = FormatBody(g, k)
      <4>1. CASE k < 10
        BY <4>1 DEF FormatBody
      <4>2. CASE ~ (k < 10)
        <5>1. k \div 10 \in 0..m
          BY <2>2, <2>3, <4>2
        <5>2. h[k \div 10] = g[k \div 10]
          BY <2>7, <5>1
        <5> HIDE DEF h
        <5> QED BY <4>2, <5>2 DEF FormatBody
      <4> QED BY <4>1, <4>2
    <3>2. k = m + 1 \/ (k \in 0..m /\ h[k] = g[k] /\ g[k] = FormatBody(g, k))
      BY <2>1, <2>5, <2>7
    <3> HIDE DEF h, Up
    <3> QED BY <2>8, <3>1, <3>2
  <2>10. Up(h, m + 1)
    <3> HIDE DEF h
    <3> QED BY <2>6, <2>9
  <2> HIDE DEF h, Up
  <2> QED BY <2>2, <2>10
<1>6. MaxSize \in T
  <2> HIDE DEF T
  <2>1. \A m \in 0..MaxSize : m \in T
    BY <1>1, <1>4, <1>5, InductionUpTo
  <2> QED BY <1>1, <2>1
<1>7. PICK g : Up(g, MaxSize)
  BY <1>6
<1>8. g = [limit \in 0..MaxSize |-> FormatBody(g, limit)]
  <2> HIDE DEF FormatBody
  <2> QED BY <1>7
<1> QED BY <1>8

LEMMA FormatSteps ==
    ASSUME NEW limit \in 0..MaxSize
    PROVE  formatUserLimit[limit] = FormatBody(formatUserLimit, limit)
<1> DEFINE Is(g) == g = [k \in 0..MaxSize |-> FormatBody(g, k)]
<1>1. formatUserLimit = CHOOSE g : Is(g)
  BY DEF formatUserLimit, FormatBody
<1>2. \E g : Is(g)
  BY FormatExists
<1>3. Is(formatUserLimit)
  <2> HIDE DEF Is
  <2> QED BY <1>1, <1>2
<1> QED BY <1>3

(* The digits of a limit write that limit.                                 *)
LEMMA FormatWrites ==
    ASSUME NEW limit \in 0..MaxSize
    PROVE  /\ formatUserLimit[limit] \in DigitTexts
           /\ Number(formatUserLimit[limit]) = limit
<1> DEFINE f == formatUserLimit
           Good(k) == f[k] \in DigitTexts /\ Number(f[k]) = k
           T == {m \in 0..MaxSize : \A k \in 0..m : Good(k)}
<1>1. MaxSize \in Nat
  BY MaxSizeAssumption
<1>2. ASSUME NEW k \in 0..MaxSize, k < 10 PROVE Good(k)
  <2>1. k + 1 \in 1..10 /\ k \in 0..9
    BY <1>1, <1>2
  <2>2. f[k] = <<Digits[k + 1]>>
    BY <1>2, FormatSteps DEF FormatBody
  <2>3. <<Digits[k + 1]>> \in DigitTexts
    BY <2>1 DEF DigitTexts
  <2> QED BY <2>1, <2>2, <2>3, NumberOfDigit
<1>3. ASSUME NEW k \in 0..MaxSize, ~ (k < 10), Good(k \div 10) PROVE Good(k)
  <2> DEFINE d == k % 10
             t == f[k \div 10]
             C == {Digits[e] : e \in 1..10}
  <2>1. d \in 0..9 /\ d + 1 \in 1..10 /\ (k \div 10) * 10 + d = k
    BY <1>1
  <2>2. f[k] = Append(t, Digits[d + 1])
    BY <1>3, FormatSteps DEF FormatBody
  <2>3. t \in Seq(C) /\ AllDigits(t) /\ Number(t) = k \div 10
    BY <1>3, DigitTextsAreDigits DEF DigitTexts
  <2>4. Digits[d + 1] \in C /\ IsDigit(Digits[d + 1]) /\ DigitOf(Digits[d + 1]) = d
    BY <2>1, DigitWritten
  <2>5. Append(t, Digits[d + 1]) \in Seq(C) /\ Append(t, Digits[d + 1]) # <<>>
    <3> HIDE DEF t, C, d
    <3> QED BY <2>3, <2>4
  <2>6. Number(Append(t, Digits[d + 1])) = (k \div 10) * 10 + d
    <3> HIDE DEF t, C, d
    <3> QED BY <2>3, <2>4, NumberOfAppend
  <2> QED BY <2>1, <2>2, <2>5, <2>6 DEF DigitTexts
<1>4. 0 \in T
  BY <1>1, <1>2
<1>5. ASSUME NEW m \in 0..(MaxSize - 1), m \in T PROVE m + 1 \in T
  <2>1. m \in Nat /\ m + 1 \in 0..MaxSize /\ \A k \in 0..(m + 1) : k = m + 1 \/ k \in 0..m
    BY <1>1
  <2>2. Good(m + 1)
    <3>1. ~ (m + 1 < 10) => (m + 1) \div 10 \in 0..m
      BY <2>1
    <3> HIDE DEF Good
    <3> QED BY <1>2, <1>3, <1>5, <2>1, <3>1
  <2> HIDE DEF Good
  <2> QED BY <1>5, <2>1, <2>2
<1>6. \A m \in 0..MaxSize : m \in T
  <2> HIDE DEF T
  <2> QED BY <1>1, <1>4, <1>5, InductionUpTo
<1>7. limit \in 0..limit
  BY <1>1
<1> QED BY <1>6, <1>7

(* A limit in force is announced by digits that every reader of the        *)
(* protocol takes for that limit (formatUserLimit, parsePositiveUserLimit).*)
THEOREM LimitSurvives ==
    ASSUME NEW limit \in 1..MaxSize
    PROVE  /\ IsLimit(formatUserLimit[limit])
           /\ Number(formatUserLimit[limit]) = limit
           /\ parsePositiveUserLimit(formatUserLimit[limit]) = limit
<1>1. limit \in 0..MaxSize
  BY MaxSizeAssumption
<1>2. /\ formatUserLimit[limit] \in DigitTexts
      /\ Number(formatUserLimit[limit]) = limit
  BY <1>1, FormatWrites
<1>3. IsLimit(formatUserLimit[limit])
  BY <1>2, DigitTextsAreDigits DEF IsLimit, AllDigits, DigitTexts
<1>4. formatUserLimit[limit] \in Seq({Digits[d] : d \in 1..10})
  BY <1>2 DEF DigitTexts
<1> QED BY <1>2, <1>3, <1>4, LimitExact

-----------------------------------------------------------------------------
(* What one change more makes of a channel.                                *)

LEMMA LatestIsIn ==
    ASSUME NEW N \in Nat, NEW S, S \subseteq 1..N, S # {}
    PROVE  Latest(S) \in S
<1> DEFINE Has(A) == \E n \in A : \A k \in A : k <= n
           T == {m \in Nat : \A A \in SUBSET (1..m) : A # {} => Has(A)}
<1>1. 0 \in T
  <2>1. 1..0 = {}
    OBVIOUS
  <2> QED BY <2>1
<1>2. ASSUME NEW m \in Nat, m \in T PROVE m + 1 \in T
  <2> SUFFICES ASSUME NEW A \in SUBSET (1..(m + 1)), A # {} PROVE Has(A)
    OBVIOUS
  <2>1. CASE m + 1 \in A
    BY <2>1
  <2>2. CASE m + 1 \notin A
    <3>1. A \in SUBSET (1..m)
      BY <2>2
    <3> QED BY <1>2, <3>1
  <2> QED BY <2>1, <2>2
<1>3. \A m \in Nat : m \in T
  <2> HIDE DEF T
  <2> QED BY <1>1, <1>2, Induction
<1>4. Has(S)
  BY <1>3
<1> QED BY <1>4 DEF Latest

LEMMA LatestIsNext ==
    ASSUME NEW N \in Nat, NEW S, S \subseteq 1..N
    PROVE  Latest(S \cup {N + 1}) = N + 1
<1> DEFINE A == S \cup {N + 1}
<1>1. N + 1 \in A /\ \A k \in A : k <= N + 1
  OBVIOUS
<1>2. \A n \in A : (\A k \in A : k <= n) => n = N + 1
  OBVIOUS
<1> QED BY <1>1, <1>2 DEF Latest

OneMore(r, q, n) ==
    /\ DOMAIN r = 1..n /\ DOMAIN q = 1..(n + 1)
    /\ \A k \in 1..n : q[k] = r[k]

LEMMA ConcerningOneMore ==
    ASSUME NEW n \in Nat, NEW r, NEW q, OneMore(r, q, n), NEW flag
    PROVE  /\ Concerning(r, flag) \subseteq 1..n
           /\ Concerning(q, flag) =
                IF q[n + 1].mode = flag THEN Concerning(r, flag) \cup {n + 1}
                ELSE Concerning(r, flag)
<1>1. \A k \in 1..(n + 1) : k = n + 1 \/ k \in 1..n
  OBVIOUS
<1>2. n + 1 \in 1..(n + 1) /\ 1..n \subseteq 1..(n + 1)
  OBVIOUS
<1> QED BY <1>1, <1>2 DEF OneMore, Concerning

LEMMA FlagOneMore ==
    ASSUME NEW n \in Nat, NEW r, NEW q, OneMore(r, q, n), NEW flag, NEW old
    PROVE  FlagAfter(q, flag, old) =
              IF q[n + 1].mode = flag THEN q[n + 1].add
              ELSE FlagAfter(r, flag, old)
<1> DEFINE S == Concerning(r, flag)
<1>1. S \subseteq 1..n
  BY ConcerningOneMore
<1>2. CASE q[n + 1].mode = flag
  <2>1. Concerning(q, flag) = S \cup {n + 1}
    BY <1>2, ConcerningOneMore
  <2>2. Latest(S \cup {n + 1}) = n + 1
    BY <1>1, LatestIsNext
  <2> QED BY <1>2, <2>1, <2>2 DEF FlagAfter
<1>3. CASE q[n + 1].mode # flag
  <2>1. Concerning(q, flag) = S
    BY <1>3, ConcerningOneMore
  <2>2. S # {} => q[Latest(S)] = r[Latest(S)]
    BY <1>1, LatestIsIn DEF OneMore
  <2> QED BY <1>3, <2>1, <2>2 DEF FlagAfter
<1> QED BY <1>2, <1>3

LEMMA ArgOneMore ==
    ASSUME NEW n \in Nat, NEW r, NEW q, OneMore(r, q, n),
           NEW flag, NEW unset, NEW old
    PROVE  ArgAfter(q, flag, unset, old) =
              IF q[n + 1].mode = flag
              THEN IF q[n + 1].add THEN q[n + 1].arg ELSE unset
              ELSE ArgAfter(r, flag, unset, old)
<1> DEFINE S == Concerning(r, flag)
<1>1. S \subseteq 1..n
  BY ConcerningOneMore
<1>2. CASE q[n + 1].mode = flag
  <2>1. Concerning(q, flag) = S \cup {n + 1}
    BY <1>2, ConcerningOneMore
  <2>2. Latest(S \cup {n + 1}) = n + 1
    BY <1>1, LatestIsNext
  <2> QED BY <1>2, <2>1, <2>2 DEF ArgAfter
<1>3. CASE q[n + 1].mode # flag
  <2>1. Concerning(q, flag) = S
    BY <1>3, ConcerningOneMore
  <2>2. S # {} => q[Latest(S)] = r[Latest(S)]
    BY <1>1, LatestIsIn DEF OneMore
  <2> QED BY <1>3, <2>1, <2>2 DEF ArgAfter
<1> QED BY <1>2, <1>3

LEMMA OperatorsOneMore ==
    ASSUME NEW n \in Nat, NEW r, NEW q, OneMore(r, q, n),
           NEW present, NEW old
    PROVE  OperatorsAfter(q, present, old) =
              {p \in present :
                  IF q[n + 1].mode = "o" /\ q[n + 1].arg = p THEN q[n + 1].add
                  ELSE p \in OperatorsAfter(r, present, old)}
<1> DEFINE After(s, p) == IF Promoting(s, p) = {} THEN p \in old
                          ELSE s[Latest(Promoting(s, p))].add
<1>1. ASSUME NEW p \in present
      PROVE  After(q, p) <=>
                IF q[n + 1].mode = "o" /\ q[n + 1].arg = p THEN q[n + 1].add
                ELSE After(r, p)
  <2> DEFINE S == Promoting(r, p)
  <2>1. S \subseteq 1..n
    BY ConcerningOneMore DEF Promoting
  <2>2. \A k \in 1..n : k # n + 1
    OBVIOUS
  <2>3. \A k \in Concerning(r, "o") : k \in 1..n /\ q[k] = r[k]
    BY ConcerningOneMore DEF OneMore
  <2>4. CASE q[n + 1].mode = "o" /\ q[n + 1].arg = p
    <3>1. Promoting(q, p) = S \cup {n + 1}
      BY <2>3, <2>4, ConcerningOneMore DEF Promoting
    <3>2. Latest(S \cup {n + 1}) = n + 1
      BY <2>1, LatestIsNext
    <3> QED BY <2>4, <3>1, <3>2
  <2>5. CASE ~ (q[n + 1].mode = "o" /\ q[n + 1].arg = p)
    <3>1. Promoting(q, p) = S
      BY <2>3, <2>5, ConcerningOneMore DEF Promoting
    <3>2. S # {} => q[Latest(S)] = r[Latest(S)]
      BY <2>1, LatestIsIn DEF OneMore
    <3> QED BY <2>5, <3>1, <3>2
  <2> QED BY <2>4, <2>5
<1>2. /\ OperatorsAfter(q, present, old) = {p \in present : After(q, p)}
      /\ OperatorsAfter(r, present, old) = {p \in present : After(r, p)}
  BY DEF OperatorsAfter
<1> HIDE DEF After
<1> QED BY <1>1, <1>2

-----------------------------------------------------------------------------
(* applyChannelModeOperations().                                           *)

(* An operation and what it means.                                         *)
Matches(operation, change) ==
    /\ operation.mode \in Flags
    /\ operation.mode = change.mode /\ operation.add = change.add
    /\ change.add \in BOOLEAN
    /\ change.mode = "o" => Found(operation.arg) = {change.arg}
    /\ change.mode = "k" /\ change.add => operation.arg = change.arg
    /\ change.mode = "l" /\ change.add =>
          parsePositiveUserLimit(operation.arg) = change.arg

UpTo(changes, n) == [k \in 1..n |-> changes[k]]

ModesForm(m) ==
    m = [inviteOnly |-> m.inviteOnly, topicRestricted |-> m.topicRestricted,
         key |-> m.key, limit |-> m.limit]

ChannelAfter(changes) ==
    [modes |-> ModesAfter(changes, modes),
     operators |-> OperatorsAfter(changes, members, operators)]

LEMMA ApplyOneAsMeant ==
    ASSUME NEW n \in Nat, NEW r, NEW q, OneMore(r, q, n),
           NEW operation, Matches(operation, q[n + 1]),
           q[n + 1].mode = "o" => q[n + 1].arg \in members
    PROVE  ApplyOne(ChannelAfter(r), operation) = ChannelAfter(q)
<1> DEFINE change == q[n + 1]
           m == ModesAfter(r, modes)
           ops == OperatorsAfter(r, members, operators)
           a == FlagAfter(r, "i", modes.inviteOnly)
           b == FlagAfter(r, "t", modes.topicRestricted)
           k == ArgAfter(r, "k", NoKey, modes.key)
           l == ArgAfter(r, "l", NoLimit, modes.limit)
<1>1. ModesAfter(q, modes) =
        [inviteOnly |-> IF change.mode = "i" THEN change.add ELSE a,
         topicRestricted |-> IF change.mode = "t" THEN change.add ELSE b,
         key |-> IF change.mode = "k"
                 THEN IF change.add THEN change.arg ELSE NoKey ELSE k,
         limit |-> IF change.mode = "l"
                   THEN IF change.add THEN change.arg ELSE NoLimit ELSE l]
  BY FlagOneMore, ArgOneMore DEF ModesAfter
<1>2. OperatorsAfter(q, members, operators) =
        {p \in members : IF change.mode = "o" /\ change.arg = p THEN change.add
                         ELSE p \in ops}
  BY OperatorsOneMore
<1>3. m = [inviteOnly |-> a, topicRestricted |-> b, key |-> k, limit |-> l]
  BY DEF ModesAfter
<1>4. ops \subseteq members
  BY DEF OperatorsAfter
<1>5. /\ operation.mode = change.mode /\ operation.add = change.add
      /\ change.add \in BOOLEAN /\ change.mode \in Flags
  BY DEF Matches
<1> HIDE DEF change, m, ops, a, b, k, l
<1>6. change.mode # "o" => OperatorsAfter(q, members, operators) = ops
  BY <1>2, <1>4
<1>7. ChannelAfter(r) = [modes |-> m, operators |-> ops]
  BY DEF ChannelAfter, m, ops
<1>8. CASE change.mode = "i"
  <2>1. ApplyOne(ChannelAfter(r), operation) =
          [modes |-> [inviteOnly |-> change.add, topicRestricted |-> b,
                      key |-> k, limit |-> l], operators |-> ops]
    BY <1>3, <1>5, <1>7, <1>8 DEF ApplyOne
  <2> QED BY <1>1, <1>6, <1>8, <2>1 DEF ChannelAfter
<1>9. CASE change.mode = "t"
  <2>1. ApplyOne(ChannelAfter(r), operation) =
          [modes |-> [inviteOnly |-> a, topicRestricted |-> change.add,
                      key |-> k, limit |-> l], operators |-> ops]
    BY <1>3, <1>5, <1>7, <1>9 DEF ApplyOne
  <2> QED BY <1>1, <1>6, <1>9, <2>1 DEF ChannelAfter
<1>10. CASE change.mode = "k"
  <2>1. ApplyOne(ChannelAfter(r), operation) =
          [modes |-> [inviteOnly |-> a, topicRestricted |-> b,
                      key |-> IF change.add THEN operation.arg ELSE NoKey,
                      limit |-> l], operators |-> ops]
    BY <1>3, <1>5, <1>7, <1>10 DEF ApplyOne
  <2>2. change.add => operation.arg = change.arg
    BY <1>10 DEF Matches, change
  <2> QED BY <1>1, <1>6, <1>10, <2>1, <2>2 DEF ChannelAfter
<1>11. CASE change.mode = "l"
  <2>1. ApplyOne(ChannelAfter(r), operation) =
          [modes |-> [inviteOnly |-> a, topicRestricted |-> b, key |-> k,
                      limit |-> IF change.add
                                THEN parsePositiveUserLimit(operation.arg)
                                ELSE NoLimit], operators |-> ops]
    BY <1>3, <1>5, <1>7, <1>11 DEF ApplyOne
  <2>2. change.add => parsePositiveUserLimit(operation.arg) = change.arg
    BY <1>11 DEF Matches, change
  <2> QED BY <1>1, <1>6, <1>11, <2>1, <2>2 DEF ChannelAfter
<1>12. CASE change.mode = "o"
  <2>1. ApplyOne(ChannelAfter(r), operation) =
          [modes |-> m,
           operators |-> IF change.add THEN ops \cup (Found(operation.arg) \cap members)
                                       ELSE ops \ Found(operation.arg)]
    <3>1. ApplyOne(ChannelAfter(r), operation) =
            [ChannelAfter(r) EXCEPT !.operators =
                IF operation.add THEN @ \cup (Found(operation.arg) \cap members)
                                 ELSE @ \ Found(operation.arg)]
      BY <1>5, <1>12 DEF ApplyOne
    <3>2. CASE change.add
      <4>1. ApplyOne(ChannelAfter(r), operation) =
              [ChannelAfter(r) EXCEPT !.operators =
                  @ \cup (Found(operation.arg) \cap members)]
        BY <1>5, <3>1, <3>2
      <4>2. ApplyOne(ChannelAfter(r), operation) =
              [modes |-> m,
               operators |-> ops \cup (Found(operation.arg) \cap members)]
        <5> DEFINE new == ops \cup (Found(operation.arg) \cap members)
        <5>1. ChannelAfter(r).operators \cup (Found(operation.arg) \cap members) = new
          BY <1>7
        <5>2. ApplyOne(ChannelAfter(r), operation) =
                [ChannelAfter(r) EXCEPT !.operators = new]
          BY <4>1, <5>1
        <5> HIDE DEF new
        <5>3. ApplyOne(ChannelAfter(r), operation) = [modes |-> m, operators |-> new]
          BY <1>7, <5>2
        <5> QED BY <5>3 DEF new
      <4> QED BY <3>2, <4>2
    <3>3. CASE ~change.add
      <4>1. ApplyOne(ChannelAfter(r), operation) =
              [ChannelAfter(r) EXCEPT !.operators = @ \ Found(operation.arg)]
        BY <1>5, <3>1, <3>3
      <4>2. ApplyOne(ChannelAfter(r), operation) =
              [modes |-> m, operators |-> ops \ Found(operation.arg)]
        BY <1>7, <4>1
      <4> QED BY <3>3, <4>2
    <3> QED BY <3>2, <3>3
  <2>2. Found(operation.arg) = {change.arg} /\ change.arg \in members
    BY <1>12 DEF Matches, change
  <2>3. OperatorsAfter(q, members, operators) =
          IF change.add THEN ops \cup {change.arg} ELSE ops \ {change.arg}
    BY <1>2, <1>4, <1>5, <1>12, <2>2
  <2>4. ModesAfter(q, modes) = m
    BY <1>1, <1>3, <1>12
  <2> QED BY <2>1, <2>2, <2>3, <2>4 DEF ChannelAfter
<1> QED BY <1>5, <1>8, <1>9, <1>10, <1>11, <1>12 DEF Flags

(* Operations that mean what the changes say do what the changes add up to.*)
LEMMA AppliedAsMeant ==
    ASSUME NEW N \in Nat, NEW operations, Len(operations) = N,
           NEW changes, changes = UpTo(changes, N),
           operators \subseteq members, ModesForm(modes),
           \A n \in 1..N :
              /\ Matches(operations[n], changes[n])
              /\ changes[n].mode = "o" => changes[n].arg \in members
    PROVE  /\ applyChannelModeOperations(operations).modes =
                 ModesAfter(changes, modes)
           /\ applyChannelModeOperations(operations).operators =
                 OperatorsAfter(changes, members, operators)
<1> DEFINE start == [modes |-> modes, operators |-> operators]
           Is(g) == g = [n \in 0..N |-> IF n = 0 THEN start
                                        ELSE ApplyOne(g[n - 1], operations[n])]
           g == [n \in 0..N |-> ChannelAfter(UpTo(changes, n))]
           v == AppliedUpTo(operations)
           T == {n \in 0..N : v[n] = g[n]}
<1>1. g[0] = start
  <2> DEFINE none == UpTo(changes, 0)
  <2>1. DOMAIN none = {}
    BY DEF UpTo
  <2> HIDE DEF none
  <2>2. \A flag : Concerning(none, flag) = {}
    BY <2>1 DEF Concerning
  <2>3. \A p : Promoting(none, p) = {}
    BY <2>2 DEF Promoting
  <2>4. ModesAfter(none, modes) = modes
    BY <2>2 DEF ModesAfter, FlagAfter, ArgAfter, ModesForm
  <2>5. OperatorsAfter(none, members, operators) = operators
    BY <2>3 DEF OperatorsAfter
  <2>6. 0 \in 0..N
    OBVIOUS
  <2> QED BY <2>4, <2>5, <2>6 DEF ChannelAfter, none
<1>2. ASSUME NEW n \in 0..N, n # 0
      PROVE  g[n] = ApplyOne(g[n - 1], operations[n])
  <2> DEFINE h == n - 1
             r == UpTo(changes, h)
             q == UpTo(changes, h + 1)
  <2>1. h \in Nat /\ h + 1 = n /\ n \in 1..N /\ h \in 0..N
    BY <1>2
  <2>2. OneMore(r, q, h) /\ q[h + 1] = changes[n]
    BY <2>1 DEF OneMore, UpTo
  <2>3. g[n] = ChannelAfter(q) /\ g[h] = ChannelAfter(r)
    BY <2>1
  <2>4. Matches(operations[n], q[h + 1]) /\ (q[h + 1].mode = "o" => q[h + 1].arg \in members)
    BY <2>1, <2>2
  <2> HIDE DEF h, r, q, g
  <2>5. ApplyOne(ChannelAfter(r), operations[n]) = ChannelAfter(q)
    BY <2>1, <2>2, <2>4, ApplyOneAsMeant
  <2> QED BY <2>3, <2>5 DEF h
<1>3. Is(g)
  <2>1. g = [n \in 0..N |-> g[n]]
    OBVIOUS
  <2> HIDE DEF g, start
  <2> QED BY <1>1, <1>2, <2>1
<1>4. Is(v)
  <2>1. v = CHOOSE f : Is(f)
    BY DEF AppliedUpTo
  <2> HIDE DEF Is, v, g
  <2> QED BY <1>3, <2>1
<1> HIDE DEF g, v, start
<1>5. 0 \in T
  BY <1>1, <1>4
<1>6. ASSUME NEW n \in 0..(N - 1), n \in T PROVE n + 1 \in T
  <2>1. n + 1 \in 0..N /\ n + 1 # 0 /\ (n + 1) - 1 = n
    OBVIOUS
  <2>2. v[n + 1] = ApplyOne(v[n], operations[n + 1])
    BY <1>4, <2>1
  <2>3. g[n + 1] = ApplyOne(g[n], operations[n + 1])
    BY <1>2, <2>1
  <2> QED BY <1>6, <2>1, <2>2, <2>3
<1>7. N \in T
  <2> HIDE DEF T
  <2>1. \A n \in 0..N : n \in T
    BY <1>5, <1>6, InductionUpTo
  <2> QED BY <2>1
<1>8. g[N] = ChannelAfter(changes)
  BY DEF g
<1> QED BY <1>7, <1>8 DEF applyChannelModeOperations, v, ChannelAfter

-----------------------------------------------------------------------------
(* parseChannelModeOperations().                                           *)

ParsedChanges(D) == [mode : Flags, add : BOOLEAN, arg : D \cup {<<>>}]

ParseStates(C, D) ==
    [ok : BOOLEAN, adding : BOOLEAN, used : Nat, unknown : C \cup {NothingParsed.unknown},
     operations : Seq(ParsedChanges(D))]

Missing(arguments, state) ==
    state.used >= Len(arguments) \/ arguments[state.used + 1] = <<>>

NextChange(arguments, state, ch) ==
    [mode |-> ch, add |-> state.adding,
     arg |-> IF modeRequiresArgument(ch, state.adding)
             THEN arguments[state.used + 1] ELSE <<>>]

(* What a character does, field by field.                                  *)
ParseEffect(arguments, s, ch, t) ==
    /\ ~s.ok => t = s
    /\ s.ok /\ ch \in {"+", "-"} =>
          /\ t.ok /\ t.adding = IF ch = "+" THEN TRUE ELSE FALSE
          /\ t.used = s.used /\ t.operations = s.operations
    /\ s.ok /\ ch \notin {"+", "-"} =>
          /\ t.adding = s.adding
          /\ t.ok <=> /\ ch \in Flags
                      /\ modeRequiresArgument(ch, s.adding) => ~Missing(arguments, s)
          /\ t.ok =>
               /\ t.used = IF modeRequiresArgument(ch, s.adding)
                           THEN s.used + 1 ELSE s.used
               /\ t.operations = Append(s.operations, NextChange(arguments, s, ch))

LEMMA AppendType ==
    ASSUME NEW S, NEW seq \in Seq(S), NEW e \in S
    PROVE  Append(seq, e) \in Seq(S)
OBVIOUS

LEMMA ParseNextEffect ==
    ASSUME NEW C, NEW D, NEW arguments \in Seq(D),
           NEW s \in ParseStates(C, D), NEW ch \in C
    PROVE  /\ ParseNext(arguments, s, ch) \in ParseStates(C, D)
           /\ ParseEffect(arguments, s, ch, ParseNext(arguments, s, ch))
<1> DEFINE t == ParseNext(arguments, s, ch)
           takes == modeRequiresArgument(ch, s.adding)
           missing == Missing(arguments, s)
           change == NextChange(arguments, s, ch)
<1>1. PICK ok \in BOOLEAN, adding \in BOOLEAN, used \in Nat,
           unknown \in C \cup {NothingParsed.unknown}, done \in Seq(ParsedChanges(D)) :
        s = [ok |-> ok, adding |-> adding, used |-> used,
             unknown |-> unknown, operations |-> done]
  BY DEF ParseStates
<1>2. /\ s.ok = ok /\ s.adding = adding /\ s.used = used
      /\ s.operations = done
  BY <1>1
<1>3. t = IF ~ok THEN s
          ELSE IF ch = "+" THEN [s EXCEPT !.adding = TRUE]
          ELSE IF ch = "-" THEN [s EXCEPT !.adding = FALSE]
          ELSE IF ch \notin Flags THEN [s EXCEPT !.ok = FALSE, !.unknown = ch]
          ELSE IF takes /\ missing THEN [s EXCEPT !.ok = FALSE]
          ELSE [s EXCEPT !.used = IF takes THEN used + 1 ELSE used,
                         !.operations = Append(done, change)]
  BY <1>2 DEF ParseNext, Missing, NextChange
<1>4. Len(arguments) \in Nat
  OBVIOUS
<1>5. ch \in Flags /\ ~ (takes /\ missing) => change \in ParsedChanges(D)
  <2> SUFFICES ASSUME ch \in Flags, ~ (takes /\ missing)
               PROVE  change \in ParsedChanges(D)
    OBVIOUS
  <2>1. (IF takes THEN arguments[used + 1] ELSE <<>>) \in D \cup {<<>>}
    <3>1. CASE takes
      <4>1. ~ (used >= Len(arguments))
        BY <1>2, <3>1 DEF Missing
      <4>2. used + 1 \in 1..Len(arguments)
        BY <1>4, <4>1
      <4>3. arguments[used + 1] \in D
        BY <4>2
      <4> QED BY <3>1, <4>3
    <3>2. CASE ~takes
      BY <3>2
    <3> QED BY <3>1, <3>2
  <2> DEFINE argument == IF takes THEN arguments[used + 1] ELSE <<>>
  <2>2. change = [mode |-> ch, add |-> adding, arg |-> argument]
    BY <1>2 DEF NextChange
  <2> HIDE DEF change, takes, argument
  <2>3. argument \in D \cup {<<>>}
    BY <2>1 DEF argument
  <2> QED BY <2>2, <2>3 DEF ParsedChanges
<1>6. "+" \notin Flags /\ "-" \notin Flags
  BY DEF Flags
<1> HIDE DEF t, takes, missing, change
<1>7. CASE ~ok
  BY <1>2, <1>3, <1>7 DEF ParseEffect, t
<1>8. CASE ok /\ ch = "+"
  <2>1. t = [ok |-> TRUE, adding |-> TRUE, used |-> used,
             unknown |-> unknown, operations |-> done]
    BY <1>1, <1>3, <1>8
  <2>2. t \in ParseStates(C, D)
    BY <2>1 DEF ParseStates
  <2>3. t.ok /\ t.adding = TRUE /\ t.used = used /\ t.operations = done
    BY <2>1
  <2>4. ParseEffect(arguments, s, ch, t)
    BY <1>2, <1>8, <2>3 DEF ParseEffect
  <2> QED BY <2>2, <2>4 DEF t
<1>9. CASE ok /\ ch = "-"
  <2>1. t = [ok |-> TRUE, adding |-> FALSE, used |-> used,
             unknown |-> unknown, operations |-> done]
    BY <1>1, <1>3, <1>9
  <2>2. t \in ParseStates(C, D)
    BY <2>1 DEF ParseStates
  <2>3. t.ok /\ t.adding = FALSE /\ t.used = used /\ t.operations = done
    BY <2>1
  <2>4. ParseEffect(arguments, s, ch, t)
    BY <1>2, <1>9, <2>3 DEF ParseEffect
  <2> QED BY <2>2, <2>4 DEF t
<1>10. CASE ok /\ ch \notin {"+", "-"} /\ ch \notin Flags
  <2>1. t = [ok |-> FALSE, adding |-> adding, used |-> used,
             unknown |-> ch, operations |-> done]
    BY <1>1, <1>3, <1>10
  <2>2. t \in ParseStates(C, D)
    BY <2>1 DEF ParseStates
  <2>3. ~t.ok /\ t.adding = adding
    BY <2>1
  <2>4. ParseEffect(arguments, s, ch, t)
    BY <1>2, <1>10, <2>3 DEF ParseEffect
  <2> QED BY <2>2, <2>4 DEF t
<1>11. CASE ok /\ ch \in Flags /\ takes /\ missing
  <2>1. t = [ok |-> FALSE, adding |-> adding, used |-> used,
             unknown |-> unknown, operations |-> done]
    BY <1>1, <1>3, <1>6, <1>11
  <2>2. t \in ParseStates(C, D)
    BY <2>1 DEF ParseStates
  <2>3. ~t.ok /\ t.adding = adding
    BY <2>1
  <2>4. ParseEffect(arguments, s, ch, t)
    BY <1>2, <1>6, <1>11, <2>3 DEF ParseEffect, takes, missing
  <2> QED BY <2>2, <2>4 DEF t
<1>12. CASE ok /\ ch \in Flags /\ ~ (takes /\ missing)
  <2> DEFINE more == Append(done, change)
             next == IF takes THEN used + 1 ELSE used
  <2>1. more \in Seq(ParsedChanges(D))
    BY <1>5, <1>12, AppendType
  <2>2. next \in Nat
    <3>1. used + 1 \in Nat
      OBVIOUS
    <3> QED BY <3>1
  <2>3. t = [ok |-> TRUE, adding |-> adding, used |-> next,
             unknown |-> unknown, operations |-> more]
    BY <1>1, <1>3, <1>6, <1>12
  <2> HIDE DEF more, next
  <2>4. t \in ParseStates(C, D)
    BY <2>1, <2>2, <2>3 DEF ParseStates
  <2>5. t.ok /\ t.adding = adding /\ t.used = next /\ t.operations = more
    BY <2>3
  <2>6. ParseEffect(arguments, s, ch, t)
    BY <1>2, <1>6, <1>12, <2>5 DEF ParseEffect, takes, missing, change, more, next
  <2> QED BY <2>4, <2>6 DEF t
<1> QED BY <1>7, <1>8, <1>9, <1>10, <1>11, <1>12

LEMMA ParsedSteps ==
    ASSUME NEW C, NEW D, NEW flags \in Seq(C), NEW arguments \in Seq(D)
    PROVE  /\ ParsedUpTo(flags, arguments)[0] = NothingParsed
           /\ \A n \in 0..Len(flags) :
                 ParsedUpTo(flags, arguments)[n] \in ParseStates(C, D)
           /\ \A n \in 1..Len(flags) :
                 /\ ParsedUpTo(flags, arguments)[n] =
                       ParseNext(arguments, ParsedUpTo(flags, arguments)[n - 1], flags[n])
                 /\ ParseEffect(arguments, ParsedUpTo(flags, arguments)[n - 1],
                                flags[n], ParsedUpTo(flags, arguments)[n])
<1> DEFINE N == Len(flags)
           S == ParseStates(C, D)
           Next1(s, n) == ParseNext(arguments, s, flags[n])
           Is(g) == g = [n \in 0..N |-> IF n = 0 THEN NothingParsed ELSE Next1(g[n - 1], n)]
           step == [p \in S \X (1..N) |-> Next1(p[1], p[2])]
<1>1. N \in Nat
  OBVIOUS
<1>2. NothingParsed \in S
  BY DEF NothingParsed, ParseStates
<1>3. \A s \in S, n \in 1..N : Next1(s, n) \in S
  <2> TAKE s \in S, n \in 1..N
  <2>1. flags[n] \in C
    OBVIOUS
  <2> QED BY <2>1, ParseNextEffect
<1>4. step \in [S \X (1..N) -> S]
  BY <1>3
<1>5. PICK g \in [0..N -> S] :
         g[0] = NothingParsed /\ \A n \in 1..N : g[n] = step[<<g[n - 1], n>>]
  <2> HIDE DEF step, N, S
  <2>1. Recursions(N, S, NothingParsed, step) # {}
    BY <1>1, <1>2, <1>4, RecursionExists
  <2> QED BY <2>1 DEF Recursions
<1> HIDE DEF S
<1>6. ASSUME NEW n \in 1..N
      PROVE  g[n] = Next1(g[n - 1], n)
  <2>1. n - 1 \in 0..N
    BY <1>1
  <2>2. g[n - 1] \in S
    BY <2>1
  <2>3. step[<<g[n - 1], n>>] = Next1(g[n - 1], n)
    BY <2>2
  <2> QED BY <1>5, <2>3
<1>7. Is(g)
  <2>1. \A n \in 0..N : n = 0 \/ n \in 1..N
    BY <1>1
  <2> HIDE DEF Next1, N
  <2> QED BY <1>5, <1>6, <2>1
<1>8. Is(ParsedUpTo(flags, arguments))
  <2>1. ParsedUpTo(flags, arguments) = CHOOSE h : Is(h)
    BY DEF ParsedUpTo
  <2> HIDE DEF Is
  <2> QED BY <1>7, <2>1
<1> DEFINE v == ParsedUpTo(flags, arguments)
<1>9. v[0] = NothingParsed /\ \A n \in 1..N : v[n] = Next1(v[n - 1], n)
  <2>1. 0 \in 0..N /\ \A n \in 1..N : n \in 0..N /\ n # 0
    BY <1>1
  <2> HIDE DEF Next1, v, N
  <2> QED BY <1>8, <2>1 DEF v
<1> DEFINE T == {n \in 0..N : v[n] \in S}
<1>10. \A n \in 0..N : n \in T
  <2>1. 0 \in T
    BY <1>1, <1>2, <1>9
  <2>2. ASSUME NEW n \in 0..(N - 1), n \in T PROVE n + 1 \in T
    <3>1. n + 1 \in 1..N /\ n + 1 \in 0..N /\ (n + 1) - 1 = n
      BY <1>1
    <3>2. v[n + 1] = Next1(v[n], n + 1)
      BY <1>9, <3>1
    <3>3. Next1(v[n], n + 1) \in S
      BY <1>3, <2>2, <3>1
    <3> QED BY <3>1, <3>2, <3>3
  <2> HIDE DEF T, N
  <2> QED BY <1>1, <2>1, <2>2, InductionUpTo
<1>11. ASSUME NEW n \in 1..N
       PROVE  ParseEffect(arguments, v[n - 1], flags[n], v[n])
  <2>1. n - 1 \in 0..N /\ flags[n] \in C
    BY <1>1
  <2>2. v[n - 1] \in ParseStates(C, D)
    BY <1>10, <2>1 DEF S
  <2>3. v[n] = ParseNext(arguments, v[n - 1], flags[n])
    BY <1>9
  <2> QED BY <2>1, <2>2, <2>3, ParseNextEffect
<1> QED BY <1>9, <1>10, <1>11 DEF S

(* A reader of the line sees the sign of each letter in the signs before   *)
(* it.                                                                     *)
LEMMA SignNext ==
    ASSUME NEW flags, NEW n \in Nat
    PROVE  /\ SignBefore(flags, 1) = "+"
           /\ SignBefore(flags, n + 2) =
                IF flags[n + 1] \in {"+", "-"} THEN flags[n + 1]
                ELSE SignBefore(flags, n + 1)
<1> DEFINE Signs(i) == {j \in 1..(i - 1) : flags[j] \in {"+", "-"}}
<1>1. Signs(1) = {}
  OBVIOUS
<1>2. Signs(n + 1) \subseteq 1..n
  OBVIOUS
<1>3. Signs(n + 2) = IF flags[n + 1] \in {"+", "-"}
                     THEN Signs(n + 1) \cup {n + 1} ELSE Signs(n + 1)
  <2>1. \A j : j \in 1..((n + 2) - 1) <=> j \in 1..((n + 1) - 1) \/ j = n + 1
    OBVIOUS
  <2> QED BY <2>1
<1>4. \A i : SignBefore(flags, i) =
               IF Signs(i) = {} THEN "+" ELSE flags[Max(Signs(i))]
  BY DEF SignBefore
<1> HIDE DEF Signs
<1>5. Max(Signs(n + 1) \cup {n + 1}) = n + 1
  BY <1>2, MaxOfNext
<1> QED BY <1>1, <1>3, <1>4, <1>5

Takers(flags) == {j \in Letters(flags) : TakesArgument(flags, j)}

ChangeAt(flags, texts, i) ==
    [mode |-> flags[i], add |-> SignBefore(flags, i) = "+",
     arg |-> ArgumentAt(flags, texts, i)]

LEMMA ChangesListed ==
    ASSUME NEW C, NEW flags \in Seq(C), NEW texts
    PROVE  /\ Letters(flags) \subseteq 1..Len(flags)
           /\ Takers(flags) \subseteq 1..Len(flags)
           /\ Cardinality(Letters(flags)) \in Nat
           /\ ChangesIn(flags, texts) =
                UpTo(ChangesIn(flags, texts), Cardinality(Letters(flags)))
           /\ \A i \in Letters(flags) :
                /\ Rank(Letters(flags), i) \in 1..Cardinality(Letters(flags))
                /\ ChangesIn(flags, texts)[Rank(Letters(flags), i)] =
                      ChangeAt(flags, texts, i)
           /\ \A n \in 1..Cardinality(Letters(flags)) :
                \E i \in Letters(flags) :
                   ChangesIn(flags, texts)[n] = ChangeAt(flags, texts, i)
<1> DEFINE L == Letters(flags)
           order == InOrder(L)
           changes == ChangesIn(flags, texts)
<1>1. L \subseteq 1..Len(flags) /\ Takers(flags) \subseteq 1..Len(flags)
  BY DEF Letters, Takers
<1>2. IsFiniteSet(L) /\ L \subseteq Nat
  BY <1>1, RankEnds
<1>3. changes = [n \in DOMAIN order |-> ChangeAt(flags, texts, order[n])]
  BY DEF ChangesIn, ChangeAt
<1> HIDE DEF L, order, changes
<1>4. /\ Cardinality(L) \in Nat
      /\ order \in [1..Cardinality(L) -> L]
      /\ \A i \in L : Rank(L, i) \in 1..Cardinality(L) /\ order[Rank(L, i)] = i
  BY <1>2, InOrderLists DEF order
<1>5. changes = UpTo(changes, Cardinality(L))
  BY <1>3, <1>4 DEF UpTo
<1>6. \A i \in L : changes[Rank(L, i)] = ChangeAt(flags, texts, i)
  BY <1>3, <1>4
<1>7. \A n \in 1..Cardinality(L) : \E i \in L : changes[n] = ChangeAt(flags, texts, i)
  BY <1>3, <1>4
<1> QED BY <1>1, <1>4, <1>5, <1>6, <1>7 DEF L, changes

(* A letter that is a mode, and has the argument it takes.                 *)
Fine(flags, texts, i) ==
    /\ flags[i] \in Flags
    /\ TakesArgument(flags, i) => ArgumentAt(flags, texts, i) # <<>>

ParsedWell(flags, texts, n, state) ==
    /\ state.ok <=> \A i \in Letters(flags) : i <= n => Fine(flags, texts, i)
    /\ state.ok =>
          /\ state.adding <=> SignBefore(flags, n + 1) = "+"
          /\ state.used = Rank(Takers(flags), n)
          /\ Len(state.operations) = Rank(Letters(flags), n)
          /\ \A k \in 1..Rank(Letters(flags), n) :
                state.operations[k] = ChangesIn(flags, texts)[k]

LEMMA ParsedWellNext ==
    ASSUME NEW C, NEW D, NEW flags \in Seq(C), NEW texts \in Seq(D),
           NEW n \in 0..(Len(flags) - 1),
           NEW s \in ParseStates(C, D), NEW t \in ParseStates(C, D),
           ParseEffect(texts, s, flags[n + 1], t),
           ParsedWell(flags, texts, n, s)
    PROVE  ParsedWell(flags, texts, n + 1, t)
<1> DEFINE N == Len(flags)
           L == Letters(flags)
           TL == Takers(flags)
           ch == flags[n + 1]
           changes == ChangesIn(flags, texts)
           OkUpTo(m) == \A i \in L : i <= m => Fine(flags, texts, i)
<1>1. N \in Nat /\ n \in Nat /\ n + 1 \in 1..N /\ DOMAIN flags = 1..N
  OBVIOUS
<1>2. L \subseteq 1..N /\ TL \subseteq 1..N
  BY ChangesListed
<1>3. /\ Rank(L, n) \in Nat /\ Rank(TL, n) \in Nat
      /\ Rank(L, n + 1) = IF n + 1 \in L THEN Rank(L, n) + 1 ELSE Rank(L, n)
      /\ Rank(TL, n + 1) = IF n + 1 \in TL THEN Rank(TL, n) + 1 ELSE Rank(TL, n)
  <2>1. IsFiniteSet(L) /\ L \subseteq Nat /\ IsFiniteSet(TL) /\ TL \subseteq Nat
    BY <1>1, <1>2, RankEnds
  <2> HIDE DEF L, TL
  <2>2. RankStepped(L, n) /\ RankStepped(TL, n)
    BY <1>1, <2>1, RankStep
  <2> QED BY <2>2 DEF RankStepped
<1>4. n + 1 \in L <=> ch \notin {"+", "-"}
  BY <1>1 DEF Letters
<1>5. OkUpTo(n + 1) <=> OkUpTo(n) /\ (n + 1 \in L => Fine(flags, texts, n + 1))
  <2>1. \A i \in L : i <= n + 1 <=> i <= n \/ i = n + 1
    BY <1>1, <1>2
  <2>2. n + 1 <= n + 1
    BY <1>1
  <2> HIDE DEF L
  <2> QED BY <2>1, <2>2
<1>6. (n + 1) + 1 = n + 2
  BY <1>1
<1>7. SignBefore(flags, n + 2) = IF ch \in {"+", "-"} THEN ch
                                 ELSE SignBefore(flags, n + 1)
  BY <1>1, SignNext
<1>8. PICK sok \in BOOLEAN, sadding \in BOOLEAN, sused \in Nat,
           sdone \in Seq(ParsedChanges(D)) :
        s.ok = sok /\ s.adding = sadding /\ s.used = sused /\ s.operations = sdone
  BY DEF ParseStates
<1>9. PICK tok \in BOOLEAN, tadding \in BOOLEAN, tused \in Nat,
           tdone \in Seq(ParsedChanges(D)) :
        t.ok = tok /\ t.adding = tadding /\ t.used = tused /\ t.operations = tdone
  BY DEF ParseStates
<1>10. /\ sok <=> OkUpTo(n)
       /\ sok => /\ sadding <=> SignBefore(flags, n + 1) = "+"
                 /\ sused = Rank(TL, n)
                 /\ Len(sdone) = Rank(L, n)
                 /\ \A k \in 1..Rank(L, n) : sdone[k] = changes[k]
  BY <1>8 DEF ParsedWell
<1> SUFFICES /\ tok <=> OkUpTo(n + 1)
             /\ tok => /\ tadding <=> SignBefore(flags, n + 2) = "+"
                       /\ tused = Rank(TL, n + 1)
                       /\ Len(tdone) = Rank(L, n + 1)
                       /\ \A k \in 1..Rank(L, n + 1) : tdone[k] = changes[k]
  BY <1>6, <1>9 DEF ParsedWell
<1>11. CASE ~sok
  <2>1. t = s
    BY <1>8, <1>11 DEF ParseEffect
  <2>2. ~tok
    BY <1>8, <1>9, <1>11, <2>1
  <2> HIDE DEF OkUpTo
  <2> QED BY <1>5, <1>10, <1>11, <2>2
<1>12. CASE sok /\ ch \in {"+", "-"}
  <2>1. /\ tok /\ tadding = IF ch = "+" THEN TRUE ELSE FALSE
        /\ tused = sused /\ tdone = sdone
    BY <1>8, <1>9, <1>12 DEF ParseEffect
  <2>2. n + 1 \notin L /\ n + 1 \notin TL
    BY <1>4, <1>12 DEF Takers
  <2>3. tadding <=> SignBefore(flags, n + 2) = "+"
    BY <1>7, <1>12, <2>1
  <2> HIDE DEF OkUpTo, L, TL, changes
  <2> QED BY <1>3, <1>5, <1>10, <1>12, <2>1, <2>2, <2>3
<1>13. CASE sok /\ ch \notin {"+", "-"}
  <2> DEFINE takes == modeRequiresArgument(ch, sadding)
             argument == ArgumentAt(flags, texts, n + 1)
  <2>1. n + 1 \in L
    BY <1>4, <1>13
  <2>2. /\ tadding = sadding
        /\ tok <=> ch \in Flags /\ (takes => ~Missing(texts, s))
        /\ tok => /\ tused = IF takes THEN sused + 1 ELSE sused
                  /\ tdone = Append(sdone, NextChange(texts, s, ch))
    BY <1>8, <1>9, <1>13 DEF ParseEffect
  <2>3. takes <=> TakesArgument(flags, n + 1)
    BY <1>10, <1>13 DEF TakesArgument, modeRequiresArgument
  <2>4. n + 1 \in TL <=> takes
    BY <2>1, <2>3 DEF Takers
  <2>5. takes => Rank(TL, n + 1) = sused + 1
    BY <1>3, <1>10, <1>13, <2>4
  <2>6. argument = IF takes /\ sused + 1 <= Len(texts) THEN texts[sused + 1] ELSE <<>>
    BY <2>3, <2>5 DEF ArgumentAt, Takers
  <2>7. Len(texts) \in Nat
    OBVIOUS
  <2>8. Missing(texts, s) <=> sused >= Len(texts) \/ texts[sused + 1] = <<>>
    BY <1>8 DEF Missing
  <2>9. takes => (Missing(texts, s) <=> argument = <<>>)
    BY <2>6, <2>7, <2>8
  <2>10. tok <=> Fine(flags, texts, n + 1)
    BY <2>2, <2>3, <2>9 DEF Fine
  <2>11. tok <=> OkUpTo(n + 1)
    <3> HIDE DEF OkUpTo
    <3> QED BY <1>5, <1>10, <1>13, <2>1, <2>10
  <2> HIDE DEF OkUpTo
  <2>12. ASSUME tok
         PROVE  /\ tadding <=> SignBefore(flags, n + 2) = "+"
                /\ tused = Rank(TL, n + 1)
                /\ Len(tdone) = Rank(L, n + 1)
                /\ \A k \in 1..Rank(L, n + 1) : tdone[k] = changes[k]
    <3>1. tadding <=> SignBefore(flags, n + 2) = "+"
      BY <1>7, <1>10, <1>13, <2>2
    <3>2. tused = Rank(TL, n + 1)
      <4> HIDE DEF takes, TL
      <4> QED BY <1>3, <1>10, <1>13, <2>2, <2>4, <2>12
    <3>3. takes => ~Missing(texts, s)
      BY <2>2, <2>12
    <3>4. argument = IF takes THEN texts[sused + 1] ELSE <<>>
      BY <2>6, <2>7, <2>8, <3>3
    <3>5. NextChange(texts, s, ch) =
            [mode |-> ch, add |-> sadding,
             arg |-> IF takes THEN texts[sused + 1] ELSE <<>>]
      BY <1>8 DEF NextChange
    <3>6. ChangeAt(flags, texts, n + 1) =
            [mode |-> ch, add |-> SignBefore(flags, n + 1) = "+", arg |-> argument]
      BY DEF ChangeAt
    <3>7. sadding = (SignBefore(flags, n + 1) = "+")
      BY <1>10, <1>13
    <3>8. NextChange(texts, s, ch) = ChangeAt(flags, texts, n + 1)
      <4> HIDE DEF takes, argument
      <4> QED BY <3>4, <3>5, <3>6, <3>7
    <3>9. changes[Rank(L, n + 1)] = ChangeAt(flags, texts, n + 1)
      BY <2>1, ChangesListed
    <3> DEFINE r == Rank(L, n)
               e == NextChange(texts, s, ch)
    <3>10. r \in Nat /\ Rank(L, n + 1) = r + 1 /\ Len(sdone) = r
      BY <1>3, <1>10, <1>13, <2>1
    <3>11. changes[r + 1] = e
      BY <3>8, <3>9, <3>10
    <3>12. tdone = Append(sdone, e)
      BY <2>2, <2>12
    <3>13. \A k \in 1..r : sdone[k] = changes[k]
      BY <1>10, <1>13
    <3> HIDE DEF r, e, changes, L
    <3>14. Len(tdone) = r + 1 /\ tdone[r + 1] = e /\ \A k \in 1..r : tdone[k] = sdone[k]
      BY <3>10, <3>12
    <3>15. \A k \in 1..(r + 1) : k \in 1..r \/ k = r + 1
      BY <3>10
    <3>16. \A k \in 1..(r + 1) : tdone[k] = changes[k]
      BY <3>11, <3>13, <3>14, <3>15
    <3> QED BY <3>1, <3>2, <3>10, <3>14, <3>16
  <2> QED BY <2>11, <2>12
<1> QED BY <1>11, <1>12, <1>13

(* Parsing succeeds exactly when every letter is fine, and then yields     *)
(* what a reader of the line makes of it.                                  *)
LEMMA ParsedAsRead ==
    ASSUME NEW C, NEW D, NEW flags \in Seq(C), NEW texts \in Seq(D)
    PROVE  LET state == ParsedUpTo(flags, texts)[Len(flags)]
           IN  /\ state \in ParseStates(C, D)
               /\ state.ok <=> \A i \in Letters(flags) : Fine(flags, texts, i)
               /\ state.ok => state.operations = ChangesIn(flags, texts)
<1> DEFINE N == Len(flags)
           L == Letters(flags)
           v == ParsedUpTo(flags, texts)
           T == {n \in 0..N : ParsedWell(flags, texts, n, v[n])}
<1>1. N \in Nat /\ DOMAIN flags = 1..N
  OBVIOUS
<1>2. L \subseteq 1..N /\ Takers(flags) \subseteq 1..N
  BY ChangesListed
<1>3. 0 \in T
  <2>1. v[0] = NothingParsed
    BY ParsedSteps
  <2>2. /\ NothingParsed.ok = TRUE /\ NothingParsed.adding = TRUE
        /\ NothingParsed.used = 0 /\ NothingParsed.operations = <<>>
    BY DEF NothingParsed
  <2>3. Rank(L, 0) = 0 /\ Rank(Takers(flags), 0) = 0
    BY <1>1, <1>2, RankEnds
  <2>4. SignBefore(flags, 0 + 1) = "+"
    BY SignNext
  <2>5. \A i \in L : ~ (i <= 0)
    BY <1>1, <1>2
  <2>6. ParsedWell(flags, texts, 0, NothingParsed)
    BY <2>2, <2>3, <2>4, <2>5 DEF ParsedWell
  <2> QED BY <1>1, <2>1, <2>6
<1>4. ASSUME NEW n \in 0..(N - 1), n \in T PROVE n + 1 \in T
  <2>1. n + 1 \in 1..N /\ n + 1 \in 0..N /\ (n + 1) - 1 = n /\ n \in 0..N
    BY <1>1
  <2>2. v[n] \in ParseStates(C, D) /\ v[n + 1] \in ParseStates(C, D)
    BY <2>1, ParsedSteps
  <2>3. ParseEffect(texts, v[n], flags[n + 1], v[n + 1])
    BY <2>1, ParsedSteps
  <2>4. ParsedWell(flags, texts, n, v[n])
    BY <1>4
  <2>5. ParsedWell(flags, texts, n + 1, v[n + 1])
    <3> HIDE DEF v
    <3> QED BY <2>2, <2>3, <2>4, ParsedWellNext
  <2> QED BY <2>1, <2>5
<1>5. N \in T
  <2> HIDE DEF T, N
  <2>1. \A n \in 0..N : n \in T
    BY <1>1, <1>3, <1>4, InductionUpTo
  <2> QED BY <1>1, <2>1
<1>6. N \in 0..N
  BY <1>1
<1>7. v[N] \in ParseStates(C, D)
  BY <1>6, ParsedSteps
<1>8. ParsedWell(flags, texts, N, v[N])
  BY <1>5
<1>9. \A i \in L : i <= N
  BY <1>1, <1>2
<1>10. Rank(L, N) = Cardinality(L) /\ Cardinality(L) \in Nat
  BY <1>1, <1>2, RankEnds, ChangesListed
<1> HIDE DEF v, N
<1>11. v[N].ok <=> \A i \in L : Fine(flags, texts, i)
  BY <1>8, <1>9 DEF ParsedWell
<1>12. ASSUME v[N].ok PROVE v[N].operations = ChangesIn(flags, texts)
  <2>1. PICK done \in Seq(ParsedChanges(D)) : v[N].operations = done
    BY <1>7 DEF ParseStates
  <2>2. Len(done) = Cardinality(L) /\
        \A k \in 1..Cardinality(L) : done[k] = ChangesIn(flags, texts)[k]
    BY <1>8, <1>10, <1>12, <2>1 DEF ParsedWell
  <2>3. done = UpTo(done, Cardinality(L))
    BY <1>10, <2>2 DEF UpTo
  <2>4. UpTo(done, Cardinality(L)) = UpTo(ChangesIn(flags, texts), Cardinality(L))
    BY <2>2 DEF UpTo
  <2>5. ChangesIn(flags, texts) = UpTo(ChangesIn(flags, texts), Cardinality(L))
    BY ChangesListed
  <2> QED BY <2>1, <2>3, <2>4, <2>5
<1> QED BY <1>7, <1>11, <1>12 DEF v, N

-----------------------------------------------------------------------------
(* Names.                                                                  *)

LEMMA FoundOne ==
    ASSUME NEW text, NEW c \in Found(text)
    PROVE  c \in Clients /\ Found(text) = {c}
<1>1. c \in Clients /\ equal(Nick[c], text)
  BY DEF Found
<1>2. ASSUME NEW d \in Found(text) PROVE d = c
  <2>1. d \in Clients /\ equal(Nick[d], text)
    BY DEF Found
  <2>2. equal(Nick[c], Nick[d])
    BY <1>1, <2>1 DEF equal
  <2> QED BY <1>1, <2>1, <2>2, NickAssumption
<1> QED BY <1>1, <1>2

LEMMA NickFound ==
    ASSUME NEW c \in Clients
    PROVE  Found(Nick[c]) = {c}
<1>1. c \in Found(Nick[c])
  BY DEF Found, equal
<1> QED BY <1>1, FoundOne

LEMMA NobodyIsEmpty ==
    Found(<<>>) = {}
<1> SUFFICES ASSUME NEW c \in Found(<<>>) PROVE FALSE
  OBVIOUS
<1>1. c \in Clients /\ normalize(Nick[c]) = normalize(<<>>)
  BY DEF Found, equal
<1>2. DOMAIN normalize(Nick[c]) = DOMAIN Nick[c]
  BY DEF normalize
<1>3. DOMAIN normalize(<<>>) = {}
  BY DEF normalize
<1>4. Nick[c] \in Seq(STRING) /\ Nick[c] # <<>>
  BY <1>1, NickAssumption DEF IsMiddle
<1>5. DOMAIN Nick[c] # {}
  <2>1. PICK nick \in Seq(STRING) : nick = Nick[c]
    BY <1>4
  <2>2. Len(nick) \in Nat \ {0}
    BY <1>4, <2>1, EmptySeq
  <2>3. 1 \in DOMAIN nick
    BY <2>2
  <2> QED BY <2>1, <2>3
<1> QED BY <1>1, <1>2, <1>3, <1>5

-----------------------------------------------------------------------------
(* What is accepted, and what it does.                                     *)

LEMMA RequestParts ==
    ASSUME NEW request \in Requests, ~IsQuery(request)
    PROVE  /\ Len(request) >= 2
           /\ request[2] \in Seq(STRING)
           /\ SubSeq(request, 3, Len(request)) \in Seq(Seq(STRING))
           /\ request \in {r \in Requests : Len(r) >= 2}
<1>1. PICK line \in RequestLines : request = params(line)
  BY DEF Requests
<1>2. line \in Seq(STRING)
  BY LinesAssumption
<1>3. request \in Seq(Seq(STRING))
  BY <1>1, <1>2, ParamsType
<1>4. Len(request) >= 2
  BY DEF IsQuery
<1>5. 2 \in 1..Len(request) /\ Len(request) \in Nat
  BY <1>3, <1>4
<1>6. request[2] \in Seq(STRING)
  BY <1>3, <1>5, ElementOfSeq
<1>7. SubSeq(request, 3, Len(request)) \in Seq(Seq(STRING))
  <2>1. 3 \in Nat \ {0} /\ Len(request) \in Int /\ Len(request) <= Len(request)
    BY <1>5
  <2> QED BY <1>3, <2>1, PartOfLine
<1> QED BY <1>4, <1>6, <1>7

(* No fault is found with a change exactly when it is acceptable.          *)
LEMMA FaultExact ==
    ASSUME NEW C, NEW change, change.arg \in Seq(C), change.mode \in Flags,
           change.mode = "k" /\ change.add => change.arg # <<>>
    PROVE  Fault(change) = <<>> <=> Acceptable(change)
<1>1. Found(change.arg) = {} => Found(change.arg) \cap members = {}
  OBVIOUS
<1>2. \A x, y : <<x, y>> # <<>>
  OBVIOUS
<1>3. parsePositiveUserLimit(change.arg) = NoLimit <=> ~IsLimit(change.arg)
  <2>1. parsePositiveUserLimit(change.arg) =
          IF IsLimit(change.arg) THEN Number(change.arg) ELSE NoLimit
    BY LimitExact
  <2>2. IsLimit(change.arg) => Number(change.arg) # NoLimit
    BY DEF IsLimit, NoLimit
  <2> QED BY <2>1, <2>2
<1>4. CASE change.mode = "o"
  BY <1>1, <1>2, <1>4 DEF Fault, Acceptable
<1>5. CASE change.mode = "l"
  BY <1>2, <1>3, <1>5 DEF Fault, Acceptable
<1>6. CASE change.mode \in {"i", "t", "k"}
  BY <1>6 DEF Fault, Acceptable
<1> QED BY <1>4, <1>5, <1>6 DEF Flags

(* What validation puts in the place of a change means the same.           *)
LEMMA CanonicalMeans ==
    ASSUME NEW C, NEW change \in [mode : Flags, add : BOOLEAN, arg : Seq(C)],
           Acceptable(change)
    PROVE  /\ Matches(Canonical(change), Meaning(change))
           /\ Meaning(change).mode = "o" => Meaning(change).arg \in members
           /\ Meaning(change).mode = "l" /\ Meaning(change).add =>
                 Meaning(change).arg \in 1..MaxSize
           /\ Meaning(change).mode = "k" => Meaning(change).arg \in Seq(C)
<1>1. PICK mode \in Flags, add \in BOOLEAN, arg \in Seq(C) :
        change = [mode |-> mode, add |-> add, arg |-> arg]
  OBVIOUS
<1>2. CASE mode = "o"
  <2>1. PICK c \in Found(arg) : c \in members
    BY <1>1, <1>2 DEF Acceptable
  <2>2. Found(arg) = {c} /\ c \in Clients
    BY <2>1, FoundOne
  <2>3. (CHOOSE d \in Found(arg) : TRUE) = c
    BY <2>2
  <2>4. Meaning(change) = [mode |-> mode, add |-> add, arg |-> c]
    BY <1>1, <1>2, <2>3 DEF Meaning
  <2>5. Canonical(change) = [mode |-> mode, add |-> add, arg |-> Nick[c]]
    BY <1>1, <1>2, <2>3 DEF Canonical
  <2>6. Found(Nick[c]) = {c}
    BY <2>2, NickFound
  <2> QED BY <1>2, <2>1, <2>4, <2>5, <2>6 DEF Matches
<1>3. CASE mode = "l" /\ add
  <2>1. IsLimit(arg)
    BY <1>1, <1>3 DEF Acceptable
  <2>2. Number(arg) \in 1..MaxSize
    BY <2>1 DEF IsLimit
  <2>3. parsePositiveUserLimit(arg) = Number(arg)
    BY <2>1, LimitExact
  <2>4. parsePositiveUserLimit(formatUserLimit[Number(arg)]) = Number(arg)
    BY <2>2, LimitSurvives
  <2>5. Meaning(change) = [mode |-> mode, add |-> add, arg |-> Number(arg)]
    BY <1>1, <1>3 DEF Meaning
  <2>6. Canonical(change) = [mode |-> mode, add |-> add,
                             arg |-> formatUserLimit[Number(arg)]]
    BY <1>1, <1>3, <2>3 DEF Canonical
  <2> QED BY <1>3, <2>2, <2>4, <2>5, <2>6 DEF Matches
<1>4. CASE mode # "o" /\ ~ (mode = "l" /\ add)
  <2>1. Meaning(change) = change /\ Canonical(change) = change
    BY <1>1, <1>4 DEF Meaning, Canonical
  <2> QED BY <1>1, <1>4, <2>1 DEF Matches
<1> QED BY <1>2, <1>3, <1>4

LEMMA AcceptedExact ==
    ASSUME NEW request \in Requests, ~IsQuery(request),
           NEW texts, texts = SubSeq(request, 3, Len(request)),
           NEW changes, changes = ChangesIn(request[2], texts)
    PROVE  /\ Accepted(request) <=> \A n \in DOMAIN changes : Acceptable(changes[n])
           /\ Accepted(request) =>
                /\ Parsed[request].operations = changes
                /\ \A n \in DOMAIN changes :
                      changes[n] \in [mode : Flags, add : BOOLEAN, arg : Seq(STRING)]
<1> DEFINE C == STRING
           D == Seq(STRING)
           flags == request[2]
           L == Letters(flags)
           N == Cardinality(L)
           state == Parsed[request]
<1>1. flags \in Seq(C) /\ texts \in Seq(D)
  BY RequestParts
<1>2. state = ParsedUpTo(flags, texts)[Len(flags)]
  BY RequestParts DEF Parsed, parseChannelModeOperations
<1> HIDE DEF C, D, flags, state
<1>3. /\ state \in ParseStates(C, D)
      /\ state.ok <=> \A i \in L : Fine(flags, texts, i)
      /\ state.ok => state.operations = changes
  <2> DEFINE read == ParsedUpTo(flags, texts)[Len(flags)]
  <2>1. /\ read \in ParseStates(C, D)
        /\ read.ok <=> \A i \in Letters(flags) : Fine(flags, texts, i)
        /\ read.ok => read.operations = ChangesIn(flags, texts)
    BY <1>1, ParsedAsRead
  <2>2. changes = ChangesIn(flags, texts)
    BY DEF flags
  <2> HIDE DEF read
  <2>3. state = read
    BY <1>2 DEF read
  <2> QED BY <2>1, <2>2, <2>3
<1>4. N \in Nat /\ changes = UpTo(changes, N)
  BY <1>1, ChangesListed DEF flags
<1>5. DOMAIN changes = 1..N
  BY <1>4 DEF UpTo
<1>6. /\ \A i \in L : Rank(L, i) \in 1..N /\ changes[Rank(L, i)] = ChangeAt(flags, texts, i)
      /\ \A n \in 1..N : \E i \in L : changes[n] = ChangeAt(flags, texts, i)
  BY <1>1, ChangesListed DEF flags
<1> HIDE DEF L, N
<1>7. Accepted(request) <=>
        state.ok /\ \A n \in DOMAIN state.operations : Fault(state.operations[n]) = <<>>
  BY DEF Accepted, Faults, state
<1>8. ASSUME state.ok
      PROVE  \A n \in 1..N :
                /\ changes[n] \in [mode : Flags, add : BOOLEAN, arg : Seq(STRING)]
                /\ changes[n].mode = "k" /\ changes[n].add => changes[n].arg # <<>>
  <2>1. PICK done \in Seq(ParsedChanges(D)) : state.operations = done
    BY <1>3 DEF ParseStates
  <2>2. done = changes
    BY <1>3, <1>8, <2>1
  <2> TAKE n \in 1..N
  <2>3. n \in 1..Len(done)
    BY <1>4, <1>5, <2>2
  <2>4. changes[n] \in ParsedChanges(D)
    BY <2>2, <2>3, ElementOfSeq
  <2>5. D \cup {<<>>} = Seq(STRING)
    BY EmptySeq DEF D
  <2>6. changes[n] \in [mode : Flags, add : BOOLEAN, arg : Seq(STRING)]
    BY <2>4, <2>5 DEF ParsedChanges
  <2>7. PICK i \in L : changes[n] = ChangeAt(flags, texts, i)
    BY <1>6
  <2>8. Fine(flags, texts, i)
    BY <1>3, <1>8
  <2> DEFINE change == ChangeAt(flags, texts, i)
  <2>9. /\ change.mode = flags[i] /\ change.arg = ArgumentAt(flags, texts, i)
        /\ change.add <=> SignBefore(flags, i) = "+"
    BY DEF ChangeAt
  <2> HIDE DEF change
  <2>10. change.mode = "k" /\ change.add => TakesArgument(flags, i)
    BY <2>9 DEF TakesArgument
  <2>11. change.mode = "k" /\ change.add => change.arg # <<>>
    BY <2>8, <2>9, <2>10 DEF Fine
  <2> QED BY <2>6, <2>7, <2>11 DEF change
<1>9. ASSUME state.ok, NEW n \in 1..N
      PROVE  Fault(changes[n]) = <<>> <=> Acceptable(changes[n])
  <2>1. changes[n].arg \in Seq(STRING) /\ changes[n].mode \in Flags
    BY <1>8, <1>9
  <2>2. changes[n].mode = "k" /\ changes[n].add => changes[n].arg # <<>>
    BY <1>8, <1>9
  <2> QED BY <2>1, <2>2, FaultExact
<1>10. ASSUME \A n \in 1..N : Acceptable(changes[n]) PROVE state.ok
  <2> SUFFICES ASSUME NEW i \in L PROVE Fine(flags, texts, i)
    BY <1>3
  <2> DEFINE change == ChangeAt(flags, texts, i)
  <2>1. Acceptable(change)
    BY <1>6, <1>10
  <2>2. /\ change.mode = flags[i] /\ change.arg = ArgumentAt(flags, texts, i)
        /\ change.add <=> SignBefore(flags, i) = "+"
    BY DEF ChangeAt
  <2> HIDE DEF change
  <2>3. change.mode \in Flags
    BY <2>1 DEF Acceptable
  <2>4. TakesArgument(flags, i) => change.mode = "o" \/ (change.mode \in {"k", "l"} /\ change.add)
    BY <2>2 DEF TakesArgument
  <2>5. change.mode = "o" => change.arg # <<>>
    BY <2>1, NobodyIsEmpty DEF Acceptable
  <2>6. change.mode \in {"k", "l"} /\ change.add => change.arg # <<>>
    BY <2>1 DEF Acceptable, IsLimit
  <2> QED BY <2>2, <2>3, <2>4, <2>5, <2>6 DEF Fine
<1>11. Accepted(request) <=> \A n \in 1..N : Acceptable(changes[n])
  BY <1>3, <1>5, <1>7, <1>9, <1>10
<1> QED BY <1>3, <1>5, <1>7, <1>8, <1>11 DEF state

LEMMA AcceptedDoes ==
    ASSUME NEW request \in Requests, ~IsQuery(request), Accepted(request),
           operators \subseteq members, ModesForm(modes),
           NEW texts, texts = SubSeq(request, 3, Len(request)),
           NEW channel, channel = applyChannelModeOperations(Operations(request))
    PROVE  /\ channel.modes = ModesAfter(Meant(request[2], texts), modes)
           /\ channel.operators =
                OperatorsAfter(Meant(request[2], texts), members, operators)
<1> DEFINE changes == ChangesIn(request[2], texts)
           meant == Meant(request[2], texts)
           operations == Operations(request)
           N == Cardinality(Letters(request[2]))
<1>1. /\ Parsed[request].operations = changes
      /\ \A n \in DOMAIN changes :
            /\ Acceptable(changes[n])
            /\ changes[n] \in [mode : Flags, add : BOOLEAN, arg : Seq(STRING)]
  BY AcceptedExact
<1>2. N \in Nat /\ changes = UpTo(changes, N)
  BY RequestParts, ChangesListed
<1>3. DOMAIN changes = 1..N
  BY <1>2 DEF UpTo
<1>4. operations = [n \in DOMAIN changes |-> Canonical(changes[n])]
  BY <1>1 DEF Operations, Validated
<1>5. meant = [n \in DOMAIN changes |-> Meaning(changes[n])]
  BY DEF Meant
<1> HIDE DEF changes, meant, operations, N
<1>6. \A n \in 1..N : /\ Matches(operations[n], meant[n])
                      /\ meant[n].mode = "o" => meant[n].arg \in members
  BY <1>1, <1>3, <1>4, <1>5, CanonicalMeans
<1>7. Len(operations) = N
  BY <1>2, <1>3, <1>4
<1>8. meant = UpTo(meant, N)
  BY <1>3, <1>5 DEF UpTo
<1>9. /\ applyChannelModeOperations(operations).modes = ModesAfter(meant, modes)
      /\ applyChannelModeOperations(operations).operators =
            OperatorsAfter(meant, members, operators)
  BY <1>2, <1>6, <1>7, <1>8, AppliedAsMeant
<1> QED BY <1>9 DEF meant, operations

-----------------------------------------------------------------------------
(* The invariant: the types, and the fields that the variables are made of.*)

Picture(p) ==
    p = [operators |-> p.operators, modes |-> p.modes] /\ p.operators \subseteq members

ModesType(m) ==
    /\ ModesForm(m)
    /\ m.inviteOnly \in BOOLEAN /\ m.topicRestricted \in BOOLEAN
    /\ m.key \in Seq(STRING) /\ m.limit \in 0..MaxSize

Inv ==
    /\ members \subseteq Clients /\ operators \subseteq members
    /\ ModesType(modes)
    /\ marked \subseteq Clients
    /\ screen = [c \in Clients |-> screen[c]]
    /\ \A c \in Clients : Picture(screen[c])
    /\ \A c \in Clients \ members : screen[c] = Blank

(* What an accepted command makes of the modes has their type.             *)
LEMMA ModesAfterType ==
    ASSUME NEW N \in Nat, NEW meant, meant = UpTo(meant, N), ModesType(modes),
           \A n \in 1..N :
              /\ meant[n].add \in BOOLEAN
              /\ meant[n].mode = "l" /\ meant[n].add => meant[n].arg \in 1..MaxSize
              /\ meant[n].mode = "k" => meant[n].arg \in Seq(STRING)
    PROVE  ModesType(ModesAfter(meant, modes))
<1>1. DOMAIN meant = 1..N
  BY DEF UpTo
<1>2. ASSUME NEW flag, Concerning(meant, flag) # {}
      PROVE  /\ Latest(Concerning(meant, flag)) \in 1..N
             /\ meant[Latest(Concerning(meant, flag))].mode = flag
  <2>1. Concerning(meant, flag) \subseteq 1..N
    BY <1>1 DEF Concerning
  <2>2. Latest(Concerning(meant, flag)) \in Concerning(meant, flag)
    BY <1>2, <2>1, LatestIsIn
  <2> QED BY <2>1, <2>2 DEF Concerning
<1>3. ASSUME NEW flag, NEW old \in BOOLEAN
      PROVE  FlagAfter(meant, flag, old) \in BOOLEAN
  BY <1>2, <1>3 DEF FlagAfter
<1>4. ASSUME NEW old \in 0..MaxSize
      PROVE  ArgAfter(meant, "l", NoLimit, old) \in 0..MaxSize
  <2> DEFINE S == Concerning(meant, "l")
             last == Latest(S)
  <2>1. CASE S = {}
    BY <1>4, <2>1 DEF ArgAfter
  <2>2. CASE S # {} /\ meant[last].add
    <3>1. meant[last].arg \in 1..MaxSize
      BY <1>2, <2>2
    <3> QED BY <2>2, <3>1, MaxSizeAssumption DEF ArgAfter
  <2>3. CASE S # {} /\ ~ meant[last].add
    BY <2>3, MaxSizeAssumption DEF ArgAfter, NoLimit
  <2> QED BY <2>1, <2>2, <2>3
<1>10. ASSUME NEW old \in Seq(STRING)
       PROVE  ArgAfter(meant, "k", NoKey, old) \in Seq(STRING)
  <2> DEFINE S == Concerning(meant, "k")
             last == Latest(S)
  <2>1. CASE S = {}
    BY <1>10, <2>1 DEF ArgAfter
  <2>2. CASE S # {} /\ meant[last].add
    <3>1. meant[last].arg \in Seq(STRING)
      BY <1>2, <2>2
    <3> QED BY <2>2, <3>1 DEF ArgAfter
  <2>3. CASE S # {} /\ ~ meant[last].add
    <3>1. NoKey \in Seq(STRING)
      BY NoKeyIsEmpty, EmptySeq
    <3> QED BY <2>3, <3>1 DEF ArgAfter
  <2> QED BY <2>1, <2>2, <2>3
<1> DEFINE after == ModesAfter(meant, modes)
<1>5. /\ after.inviteOnly = FlagAfter(meant, "i", modes.inviteOnly)
      /\ after.topicRestricted = FlagAfter(meant, "t", modes.topicRestricted)
      /\ after.limit = ArgAfter(meant, "l", NoLimit, modes.limit)
      /\ after.key = ArgAfter(meant, "k", NoKey, modes.key)
  BY DEF ModesAfter
<1>6. ModesForm(after)
  BY DEF ModesAfter, ModesForm
<1> HIDE DEF after
<1>7. after.inviteOnly \in BOOLEAN
  BY <1>3, <1>5 DEF ModesType
<1>8. after.topicRestricted \in BOOLEAN
  BY <1>3, <1>5 DEF ModesType
<1>9. after.limit \in 0..MaxSize
  BY <1>4, <1>5 DEF ModesType
<1>11. after.key \in Seq(STRING)
  BY <1>5, <1>10 DEF ModesType
<1> QED BY <1>6, <1>7, <1>8, <1>9, <1>11 DEF ModesType, after

LEMMA AcceptedType ==
    ASSUME NEW request \in Requests, ~IsQuery(request), Accepted(request),
           operators \subseteq members, ModesType(modes),
           NEW channel, channel = applyChannelModeOperations(Operations(request))
    PROVE  ModesType(channel.modes) /\ channel.operators \subseteq members
<1> DEFINE texts == SubSeq(request, 3, Len(request))
           changes == ChangesIn(request[2], texts)
           meant == Meant(request[2], texts)
           N == Cardinality(Letters(request[2]))
<1>1. ModesForm(modes)
  BY DEF ModesType
<1>2. /\ channel.modes = ModesAfter(meant, modes)
      /\ channel.operators = OperatorsAfter(meant, members, operators)
  BY <1>1, AcceptedDoes
<1>3. \A n \in DOMAIN changes :
         /\ Acceptable(changes[n])
         /\ changes[n] \in [mode : Flags, add : BOOLEAN, arg : Seq(STRING)]
  BY AcceptedExact
<1>4. N \in Nat /\ changes = UpTo(changes, N)
  BY RequestParts, ChangesListed
<1>5. DOMAIN changes = 1..N
  BY <1>4 DEF UpTo
<1>6. meant = [n \in DOMAIN changes |-> Meaning(changes[n])]
  BY DEF Meant
<1> HIDE DEF texts, changes, meant, N
<1>7. ASSUME NEW n \in 1..N
      PROVE  /\ meant[n].add \in BOOLEAN
             /\ meant[n].mode = "l" /\ meant[n].add => meant[n].arg \in 1..MaxSize
             /\ meant[n].mode = "k" => meant[n].arg \in Seq(STRING)
  <2>1. meant[n] = Meaning(changes[n])
    BY <1>5, <1>6
  <2>2. Acceptable(changes[n]) /\
        changes[n] \in [mode : Flags, add : BOOLEAN, arg : Seq(STRING)]
    BY <1>3, <1>5
  <2>3. Matches(Canonical(changes[n]), Meaning(changes[n]))
    BY <2>2, CanonicalMeans
  <2>4. Meaning(changes[n]).mode = "l" /\ Meaning(changes[n]).add =>
           Meaning(changes[n]).arg \in 1..MaxSize
    BY <2>2, CanonicalMeans
  <2>5. Meaning(changes[n]).mode = "k" => Meaning(changes[n]).arg \in Seq(STRING)
    BY <2>2, CanonicalMeans
  <2> QED BY <2>1, <2>3, <2>4, <2>5 DEF Matches
<1>8. meant = UpTo(meant, N)
  BY <1>5, <1>6 DEF UpTo
<1>9. ModesType(ModesAfter(meant, modes))
  BY <1>4, <1>7, <1>8, ModesAfterType
<1> QED BY <1>2, <1>9 DEF OperatorsAfter

LEMMA InvInit == Init => Inv
<1> SUFFICES ASSUME Init PROVE Inv
  OBVIOUS
<1>1. members \subseteq Clients /\ operators \subseteq members /\ marked \subseteq Clients
  BY DEF Init
<1>2. ModesType(modes)
  <2>1. NoKey \in Seq(STRING)
    BY NoKeyIsEmpty, EmptySeq
  <2> QED BY <2>1, MaxSizeAssumption DEF Init, NewModes, ModesType, ModesForm, NoLimit
<1>3. screen = [c \in Clients |-> screen[c]]
  BY DEF Init
<1>4. \A c \in Clients : Picture(screen[c])
  <2> TAKE c \in Clients
  <2> DEFINE shown == IF c \in members THEN operators ELSE {}
  <2>1. screen[c] = [operators |-> shown, modes |-> Unknown]
    BY DEF Init
  <2>2. shown \subseteq members
    BY <1>1
  <2> HIDE DEF shown
  <2> QED BY <2>1, <2>2 DEF Picture
<1>5. \A c \in Clients \ members : screen[c] = Blank
  BY DEF Init, Blank
<1> QED BY <1>1, <1>2, <1>3, <1>4, <1>5 DEF Inv

LEMMA ThrowInv ==
    ASSUME Inv, NEW c \in Clients, Throw(c), UNCHANGED <<members, operators, modes>>
    PROVE  Inv'
<1>1. marked' \subseteq Clients
  BY DEF Throw, Inv
<1>2. screen' = [d \in Clients |-> IF d = c THEN Blank ELSE screen[d]]
  BY DEF Throw, Inv
<1>3. \A d \in Clients : Picture(screen[d])'
  BY <1>2 DEF Blank, Picture, Inv
<1>4. screen' = [d \in Clients |-> screen'[d]]
  BY <1>2
<1>5. (\A d \in Clients \ members : screen[d] = Blank)'
  BY <1>2 DEF Blank, Inv
<1> QED BY <1>1, <1>3, <1>4, <1>5 DEF Inv, ModesType, ModesForm

LEMMA QueryInv ==
    ASSUME Inv, NEW c \in Clients, NEW request \in Requests, QueryModes(c, request)
    PROVE  Inv'
<1>1. UNCHANGED <<members, operators, modes>>
  BY DEF QueryModes
<1>2. CASE Throw(c)
  BY <1>1, <1>2, ThrowInv
<1>3. CASE ~ Throw(c)
  <2> DEFINE picture == ReadsReply(screen[c], ModeIs(c))
  <2>1. UNCHANGED marked
    BY <1>3 DEF QueryModes
  <2>2. screen' = screen \/ (c \in members /\ screen' = [screen EXCEPT ![c] = picture])
    BY <1>3 DEF QueryModes
  <2>3. Picture(picture)
    BY DEF ReadsReply, Picture, Inv
  <2> HIDE DEF picture
  <2>4. screen' = [d \in Clients |-> screen'[d]]
    BY <2>2 DEF Inv
  <2>5. \A d \in Clients : screen'[d] = screen[d] \/ screen'[d] = picture
    BY <2>2 DEF Inv
  <2>6. \A d \in Clients : Picture(screen[d])'
    BY <1>1, <2>3, <2>5 DEF Picture, Inv
  <2>7. (\A d \in Clients \ members : screen[d] = Blank)'
    BY <1>1, <2>2 DEF Blank, Inv
  <2> QED BY <1>1, <2>1, <2>4, <2>6, <2>7 DEF Inv, ModesType, ModesForm
<1> QED BY <1>2, <1>3

LEMMA ChangeInv ==
    ASSUME Inv, NEW c \in Clients, NEW request \in Requests, Change(c, request)
    PROVE  Inv'
<1> DEFINE operations == Operations(request)
           channel == applyChannelModeOperations(operations)
           line == Announcement(c, operations)
<1>1. ~IsQuery(request) /\ Accepted(request)
  BY DEF Change, MayChange
<1>2. ModesType(channel.modes) /\ channel.operators \subseteq members
  <2>1. operators \subseteq members /\ ModesType(modes)
    BY DEF Inv
  <2> QED BY <1>1, <2>1, AcceptedType
<1>3. modes' = channel.modes /\ operators' = channel.operators /\ members' = members
  BY DEF Change
<1>4. \/ Throw(c)
      \/ /\ UNCHANGED marked
         /\ \E changes : screen' = [d \in Clients |->
                IF d \in members \ marked THEN Reads(screen[d], changes) ELSE screen[d]]
  BY DEF Change, Audience
<1> HIDE DEF channel
<1>5. ModesType(modes)' /\ (operators \subseteq members)' /\ (members \subseteq Clients)'
  BY <1>2, <1>3 DEF Inv, ModesType, ModesForm
<1>6. CASE Throw(c)
  <2>1. marked' \subseteq Clients
    BY <1>6 DEF Throw, Inv
  <2>2. screen' = [d \in Clients |-> IF d = c THEN Blank ELSE screen[d]]
    BY <1>6 DEF Throw, Inv
  <2>3. \A d \in Clients : Picture(screen[d])'
    BY <1>3, <2>2 DEF Blank, Picture, Inv
  <2>4. screen' = [d \in Clients |-> screen'[d]]
    BY <2>2
  <2>5. (\A d \in Clients \ members : screen[d] = Blank)'
    BY <1>3, <2>2 DEF Blank, Inv
  <2> QED BY <1>5, <2>1, <2>3, <2>4, <2>5 DEF Inv
<1>7. CASE ~ Throw(c)
  <2>1. PICK changes : screen' = [d \in Clients |->
           IF d \in members \ marked THEN Reads(screen[d], changes) ELSE screen[d]]
    BY <1>4, <1>7
  <2>2. \A d \in Clients : Picture(Reads(screen[d], changes))
    BY DEF Reads, Picture, OperatorsAfter
  <2>3. \A d \in Clients : screen'[d] = Reads(screen[d], changes) \/ screen'[d] = screen[d]
    BY <2>1
  <2>4. \A d \in Clients : Picture(screen[d])'
    BY <1>3, <2>2, <2>3 DEF Picture, Inv
  <2>5. screen' = [d \in Clients |-> screen'[d]]
    BY <2>1
  <2>6. marked' \subseteq Clients
    BY <1>4, <1>7 DEF Inv
  <2>7. (\A d \in Clients \ members : screen[d] = Blank)'
    BY <1>3, <2>1 DEF Blank, Inv
  <2> QED BY <1>5, <2>4, <2>5, <2>6, <2>7 DEF Inv
<1> QED BY <1>6, <1>7

LEMMA InvNext == Inv /\ [Next]_vars => Inv'
<1> SUFFICES ASSUME Inv, [Next]_vars PROVE Inv'
  OBVIOUS
<1>1. CASE UNCHANGED vars
  BY <1>1 DEF vars, Inv, ModesType, ModesForm, Picture, Blank
<1>2. ASSUME NEW c \in Clients, NEW request \in Requests, handleMode(c, request)
      PROVE  Inv'
  <2>1. CASE QueryModes(c, request)
    BY <2>1, QueryInv
  <2>2. CASE NoSuchChannel(c, request)
    <3>1. Throw(c) /\ UNCHANGED <<members, operators, modes>>
      BY <2>2 DEF NoSuchChannel
    <3> QED BY <3>1, ThrowInv
  <2>3. CASE RefuseChange(c, request)
    <3>1. Throw(c) /\ UNCHANGED <<members, operators, modes>>
      BY <2>3 DEF RefuseChange
    <3> QED BY <3>1, ThrowInv
  <2>4. CASE Change(c, request)
    BY <2>4, ChangeInv
  <2> QED BY <1>2, <2>1, <2>2, <2>3, <2>4 DEF handleMode
<1> QED BY <1>1, <1>2 DEF Next

LEMMA InvAlways == Spec => []Inv
BY InvInit, InvNext, PTL DEF Spec

(* The variables keep their types: whoever is an operator is a member, a   *)
(* limit in force fits size_t, nobody is shown an operator who is not in   *)
(* the channel, and a stranger is told nothing (Channel::addOperator,      *)
(* applyChannelModeOperations, Server::queueMessageToChannel).             *)
THEOREM TypeCorrect == Spec => []TypeOK
<1>1. Inv => TypeOK
  <2> SUFFICES ASSUME Inv PROVE TypeOK
    OBVIOUS
  <2>1. DOMAIN modes = {"inviteOnly", "topicRestricted", "key", "limit"}
    BY DEF Inv, ModesType, ModesForm
  <2> QED BY <2>1 DEF Inv, ModesType, Picture, TypeOK
<1> QED BY <1>1, InvAlways, PTL

(* Whatever the signs, letters and arguments of a MODE command, and        *)
(* whatever was set before it: it is accepted exactly when all its changes *)
(* are acceptable, and the channel then has what they add up to            *)
(* (parseChannelModeOperations, validateChannelModeOperations,             *)
(* applyChannelModeOperations).                                            *)
THEOREM AlwaysAsAsked == Spec => []AsAsked
<1>1. Inv => AsAsked
  <2> SUFFICES ASSUME Inv, NEW request \in Requests, ~IsQuery(request)
               PROVE  LET texts == SubSeq(request, 3, Len(request))
                          changes == ChangesIn(request[2], texts)
                          meant == Meant(request[2], texts)
                          channel == applyChannelModeOperations(Operations(request))
                      IN  /\ Accepted(request) <=>
                                \A n \in DOMAIN changes : Acceptable(changes[n])
                          /\ Accepted(request) =>
                                /\ channel.modes = ModesAfter(meant, modes)
                                /\ channel.operators =
                                      OperatorsAfter(meant, members, operators)
    BY DEF AsAsked
  <2> DEFINE texts == SubSeq(request, 3, Len(request))
             changes == ChangesIn(request[2], texts)
             channel == applyChannelModeOperations(Operations(request))
  <2>1. Accepted(request) <=> \A n \in DOMAIN changes : Acceptable(changes[n])
    BY AcceptedExact
  <2>2. operators \subseteq members /\ ModesForm(modes)
    BY DEF Inv, ModesType
  <2>3. Accepted(request) =>
          /\ channel.modes = ModesAfter(Meant(request[2], texts), modes)
          /\ channel.operators =
                OperatorsAfter(Meant(request[2], texts), members, operators)
    BY <2>2, AcceptedDoes
  <2> QED BY <2>1, <2>3
<1> QED BY <1>1, InvAlways, PTL
(* A MODE command never takes effect in part: whatever the lines, a step   *)
(* that changes the modes or the operators is explained by one request of  *)
(* an operator whose connection is not being closed, of which every change *)
(* is acceptable and is made (handleMode, validateChannelModeOperations).  *)
THEOREM NeverAppliedInPart == Spec => NeverInPart
<1> DEFINE Whole ==
       <<modes, operators>>' # <<modes, operators>> =>
          /\ operators \ marked # {}
          /\ \E request \in {r \in Requests : ~IsQuery(r)} : Explains(request)
<1>1. Inv /\ [Next]_vars => [Whole]_vars
  <2> SUFFICES ASSUME Inv, Next, <<modes, operators>>' # <<modes, operators>>
               PROVE  Whole
    OBVIOUS
  <2>1. PICK c \in Clients, request \in Requests : handleMode(c, request)
    BY DEF Next
  <2>2. Change(c, request)
    BY <2>1 DEF handleMode, QueryModes, NoSuchChannel, RefuseChange
  <2> DEFINE texts == SubSeq(request, 3, Len(request))
             changes == ChangesIn(request[2], texts)
             meant == Meant(request[2], texts)
  <2>3. ~IsQuery(request) /\ Accepted(request) /\ c \in operators \ marked
    BY <2>2 DEF Change, MayChange, Asks
  <2>4. operators \subseteq members /\ ModesForm(modes)
    BY DEF Inv, ModesType
  <2>5. \A n \in DOMAIN changes : Acceptable(changes[n])
    BY <2>3, AcceptedExact
  <2>6. /\ modes' = ModesAfter(meant, modes)
        /\ operators' = OperatorsAfter(meant, members, operators)
    <3>1. /\ modes' = applyChannelModeOperations(Operations(request)).modes
          /\ operators' = applyChannelModeOperations(Operations(request)).operators
      BY <2>2 DEF Change
    <3> QED BY <2>3, <2>4, <3>1, AcceptedDoes
  <2>7. Explains(request)
    BY <2>5, <2>6 DEF Explains
  <2> QED BY <2>3, <2>7
<1> QED BY <1>1, InvAlways, PTL DEF Spec, NeverInPart
=============================================================================
