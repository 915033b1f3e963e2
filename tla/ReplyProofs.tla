---------------------------- MODULE ReplyProofs -----------------------------
(***************************************************************************)
(* What is said reaches its readers: announcements and replies of MODE are *)
(* read as the changes that were made and as the modes that are in force,  *)
(* and the texts of the bot as far as a line can carry them.               *)
(***************************************************************************)
EXTENDS ModeCommandProofs, BotText

-----------------------------------------------------------------------------
(* Sequences.                                                              *)

LEMMA SeqWider ==
    ASSUME NEW C, NEW D, C \subseteq D, NEW seq \in Seq(C)
    PROVE  seq \in Seq(D)
OBVIOUS

(* How a sequence that begins with another and goes on continues it.       *)
LEMMA AppendIs ==
    ASSUME NEW C, NEW seq \in Seq(C), NEW e \in C
    PROVE  /\ Append(seq, e) \in Seq(C) /\ Len(Append(seq, e)) = Len(seq) + 1
           /\ Len(seq) \in Nat
           /\ \A n \in 1..Len(seq) : Append(seq, e)[n] = seq[n]
           /\ Append(seq, e)[Len(seq) + 1] = e
OBVIOUS

-----------------------------------------------------------------------------
(* Parsing a mode string character by character.                           *)

ParsedAll(flags, arguments) == ParsedUpTo(flags, arguments)[Len(flags)]

LEMMA ParsedFirst ==
    ASSUME NEW C, NEW D, NEW flags \in Seq(C), NEW arguments \in Seq(D)
    PROVE  ParsedUpTo(flags, arguments)[0] = NothingParsed
BY ParsedSteps

LEMMA ParsedNone ==
    ASSUME NEW C, NEW D, NEW flags \in Seq(C), NEW arguments \in Seq(D), flags = <<>>
    PROVE  ParsedAll(flags, arguments) = NothingParsed
<1>1. Len(flags) = 0
  OBVIOUS
<1>2. ParsedUpTo(flags, arguments)[0] = NothingParsed
  BY ParsedFirst
<1> QED BY <1>1, <1>2 DEF ParsedAll

LEMMA ParsedMore ==
    ASSUME NEW C, NEW D, NEW flags \in Seq(C), NEW ch \in C, NEW arguments \in Seq(D)
    PROVE  /\ ParsedAll(flags, arguments) \in ParseStates(C, D)
           /\ ParseEffect(arguments, ParsedAll(flags, arguments), ch,
                          ParsedAll(Append(flags, ch), arguments))
<1> DEFINE N == Len(flags)
           more == Append(flags, ch)
           v == ParsedUpTo(flags, arguments)
           w == ParsedUpTo(more, arguments)
           T == {n \in 0..N : w[n] = v[n]}
<1>1. N \in Nat /\ more \in Seq(C) /\ Len(more) = N + 1 /\ more[N + 1] = ch
      /\ \A n \in 1..N : more[n] = flags[n]
  BY AppendIs
<1>2. /\ v[0] = NothingParsed
      /\ \A n \in 0..N : v[n] \in ParseStates(C, D)
      /\ \A n \in 1..N : v[n] = ParseNext(arguments, v[n - 1], flags[n])
  BY ParsedSteps
<1> HIDE DEF more
<1>3. /\ w[0] = NothingParsed
      /\ \A n \in 1..(N + 1) : /\ w[n] = ParseNext(arguments, w[n - 1], more[n])
                               /\ ParseEffect(arguments, w[n - 1], more[n], w[n])
  <2>1. /\ ParsedUpTo(more, arguments)[0] = NothingParsed
        /\ \A n \in 1..Len(more) :
              /\ ParsedUpTo(more, arguments)[n] =
                    ParseNext(arguments, ParsedUpTo(more, arguments)[n - 1], more[n])
              /\ ParseEffect(arguments, ParsedUpTo(more, arguments)[n - 1],
                             more[n], ParsedUpTo(more, arguments)[n])
    BY <1>1, ParsedSteps
  <2> QED BY <1>1, <2>1
<1> HIDE DEF v, w, N
<1>4. 0 \in T
  BY <1>1, <1>2, <1>3
<1>5. ASSUME NEW n \in 0..(N - 1), n \in T PROVE n + 1 \in T
  <2>1. n + 1 \in 1..N /\ n + 1 \in 1..(N + 1) /\ n + 1 \in 0..N /\ (n + 1) - 1 = n
    BY <1>1
  <2>2. w[n + 1] = ParseNext(arguments, w[n], more[n + 1])
    BY <1>3, <2>1
  <2>3. v[n + 1] = ParseNext(arguments, v[n], flags[n + 1])
    BY <1>2, <2>1
  <2> QED BY <1>1, <1>5, <2>1, <2>2, <2>3
<1>6. N \in T
  <2> HIDE DEF T
  <2>1. \A n \in 0..N : n \in T
    BY <1>1, <1>4, <1>5, InductionUpTo
  <2> QED BY <1>1, <2>1
<1>7. N + 1 \in 1..(N + 1) /\ (N + 1) - 1 = N /\ N \in 0..N
  BY <1>1
<1>8. ParseEffect(arguments, v[N], ch, w[N + 1])
  <2>1. ParseEffect(arguments, w[N], more[N + 1], w[N + 1])
    BY <1>3, <1>7
  <2>2. w[N] = v[N]
    BY <1>6
  <2> QED BY <1>1, <2>1, <2>2
<1>9. v[N] \in ParseStates(C, D)
  BY <1>2, <1>7
<1>10. /\ ParsedAll(flags, arguments) = v[N]
       /\ ParsedAll(Append(flags, ch), arguments) = w[N + 1]
  BY <1>1 DEF ParsedAll, v, w, N, more
<1> QED BY <1>8, <1>9, <1>10

(* Where the parser stands after accepting all it has seen.                *)
Stands(state, adding, used, operations) ==
    /\ state.ok /\ (state.adding <=> adding)
    /\ state.used = used /\ state.operations = operations

LEMMA SignParsed ==
    ASSUME NEW C, NEW D, NEW flags \in Seq(C), NEW ch \in C, NEW arguments \in Seq(D),
           ch \in {"+", "-"}, NEW adding \in BOOLEAN, NEW used, NEW done,
           Stands(ParsedAll(flags, arguments), adding, used, done)
    PROVE  Stands(ParsedAll(Append(flags, ch), arguments), ch = "+", used, done)
<1> DEFINE s == ParsedAll(flags, arguments)
           t == ParsedAll(Append(flags, ch), arguments)
<1>1. ParseEffect(arguments, s, ch, t)
  BY ParsedMore
<1>2. Stands(s, adding, used, done)
  OBVIOUS
<1> HIDE DEF s, t
<1>3. /\ t.ok /\ t.adding = IF ch = "+" THEN TRUE ELSE FALSE
      /\ t.used = s.used /\ t.operations = s.operations
  BY <1>1, <1>2 DEF ParseEffect, Stands
<1>4. Stands(t, ch = "+", used, done)
  BY <1>2, <1>3 DEF Stands
<1> QED BY <1>4 DEF t

LEMMA LetterParsed ==
    ASSUME NEW C, NEW D, NEW flags \in Seq(C), NEW ch \in C, NEW arguments \in Seq(D),
           ch \in Flags, NEW adding \in BOOLEAN, NEW used \in Nat, NEW done,
           Stands(ParsedAll(flags, arguments), adding, used, done),
           NEW change,
           change = [mode |-> ch, add |-> adding,
                     arg |-> IF modeRequiresArgument(ch, adding)
                             THEN arguments[used + 1] ELSE <<>>],
           modeRequiresArgument(ch, adding) =>
              used < Len(arguments) /\ arguments[used + 1] # <<>>
    PROVE  Stands(ParsedAll(Append(flags, ch), arguments), adding,
                  IF modeRequiresArgument(ch, adding) THEN used + 1 ELSE used,
                  Append(done, change))
<1> DEFINE s == ParsedAll(flags, arguments)
           t == ParsedAll(Append(flags, ch), arguments)
<1>1. ParseEffect(arguments, s, ch, t)
  BY ParsedMore
<1>2. Stands(s, adding, used, done)
  OBVIOUS
<1>3. s \in ParseStates(C, D)
  BY ParsedMore
<1> HIDE DEF s, t
<1>4. ch \notin {"+", "-"}
  BY DEF Flags
<1>5. s.ok /\ s.adding = adding /\ s.used = used /\ s.operations = done
  <2>1. s.adding \in BOOLEAN
    BY <1>3 DEF ParseStates
  <2> QED BY <1>2, <2>1 DEF Stands
<1>6. modeRequiresArgument(ch, s.adding) => ~Missing(arguments, s)
  <2>1. Len(arguments) \in Nat
    OBVIOUS
  <2> QED BY <1>5, <2>1 DEF Missing
<1>7. NextChange(arguments, s, ch) = change
  BY <1>5 DEF NextChange
<1>8. /\ t.ok /\ t.adding = s.adding
      /\ t.used = IF modeRequiresArgument(ch, s.adding) THEN s.used + 1 ELSE s.used
      /\ t.operations = Append(s.operations, change)
  BY <1>1, <1>4, <1>5, <1>6, <1>7 DEF ParseEffect
<1>9. Stands(t, adding,
             IF modeRequiresArgument(ch, adding) THEN used + 1 ELSE used,
             Append(done, change))
  BY <1>5, <1>8 DEF Stands
<1> QED BY <1>9 DEF t

(* When it stands at the end, a reader of the line has read the same.      *)
LEMMA StandsRead ==
    ASSUME NEW C, NEW D, NEW flags \in Seq(C), NEW arguments \in Seq(D),
           NEW adding, NEW used, NEW done,
           Stands(ParsedAll(flags, arguments), adding, used, done)
    PROVE  ChangesIn(flags, arguments) = done
<1>1. ParsedAll(flags, arguments).ok /\ ParsedAll(flags, arguments).operations = done
  BY DEF Stands
<1>2. ParsedAll(flags, arguments).ok =>
        ParsedAll(flags, arguments).operations = ChangesIn(flags, arguments)
  BY ParsedAsRead DEF ParsedAll
<1> QED BY <1>1, <1>2

-----------------------------------------------------------------------------
(* The announcement of changes is read as these changes.                   *)

Taking(operations) ==
    {n \in DOMAIN operations :
        modeRequiresArgument(operations[n].mode, operations[n].add)}

Flagged(operations) ==
    FlattenSeq([n \in DOMAIN operations |-> Signed(operations, n)])

(* Changes with an argument where one is taken, and nowhere else.          *)
Announceable(D, operations) ==
    /\ operations \in Seq([mode : Flags, add : BOOLEAN, arg : D])
    /\ \A n \in DOMAIN operations :
          operations[n].arg = <<>> <=> n \notin Taking(operations)

LEMMA ArgumentsListed ==
    ASSUME NEW D, NEW operations, Announceable(D, operations),
           NEW S, S = Taking(operations)
    PROVE  /\ S \subseteq 1..Len(operations) /\ Cardinality(S) \in Nat
           /\ Arguments(operations) \in Seq(D)
           /\ Len(Arguments(operations)) = Cardinality(S)
           /\ \A n \in S : /\ Rank(S, n) \in 1..Cardinality(S)
                           /\ Arguments(operations)[Rank(S, n)] = operations[n].arg
           /\ \A k \in 1..Cardinality(S) :
                 /\ InOrder(S)[k] \in S /\ Rank(S, InOrder(S)[k]) = k
                 /\ Arguments(operations)[k] = operations[InOrder(S)[k]].arg
<1> DEFINE E == [mode : Flags, add : BOOLEAN, arg : D]
           K == Len(operations)
           N == Cardinality(S)
           order == InOrder(S)
           listed == Arguments(operations)
<1>1. operations \in Seq(E)
  BY DEF Announceable
<1>2. K \in Nat /\ DOMAIN operations = 1..K /\ \A n \in 1..K : operations[n] \in E
  <2> HIDE DEF E
  <2> QED BY <1>1
<1>3. S \subseteq 1..K
  BY <1>2 DEF Taking
<1>4. IsFiniteSet(S) /\ S \subseteq Nat
  BY <1>2, <1>3, RankEnds
<1>5. listed = [n \in DOMAIN order |-> operations[order[n]].arg]
  BY DEF Arguments, Taking
<1> HIDE DEF K, listed, order
<1>6. /\ N \in Nat /\ order \in [1..N -> S]
      /\ \A i \in S : Rank(S, i) \in 1..N /\ order[Rank(S, i)] = i
      /\ \A n \in 1..N : Rank(S, order[n]) = n
  BY <1>4, InOrderLists DEF order
<1> HIDE DEF N
<1>7. listed = [n \in 1..N |-> operations[order[n]].arg]
  BY <1>5, <1>6
<1>8. \A n \in 1..N : operations[order[n]].arg \in D
  <2> TAKE n \in 1..N
  <2>1. operations[order[n]] \in E
    BY <1>2, <1>3, <1>6
  <2> QED BY <2>1
<1>9. listed \in Seq(D) /\ Len(listed) = N
  BY <1>6, <1>7, <1>8
<1>10. \A n \in 1..N : listed[n] = operations[order[n]].arg
  BY <1>7
<1>11. \A n \in S : listed[Rank(S, n)] = operations[n].arg
  BY <1>6, <1>10
<1> QED BY <1>3, <1>6, <1>9, <1>10, <1>11 DEF K, N, listed, order

PrefixOf(operations, n) == SubSeq(operations, 1, n)

LEMMA PrefixMore ==
    ASSUME NEW D, NEW seq \in Seq(D), NEW n \in 0..(Len(seq) - 1)
    PROVE  /\ PrefixOf(seq, n) \in Seq(D)
           /\ PrefixOf(seq, n + 1) = Append(PrefixOf(seq, n), seq[n + 1])
<1>1. Len(seq) \in Nat
  OBVIOUS
<1>2. 1 \in Nat \ {0} /\ n \in Int /\ n <= Len(seq) /\ n + 1 \in 1..Len(seq) /\ 1 \in 1..Len(seq)
      /\ (n + 1) - 1 = n
  BY <1>1
<1>3. PrefixOf(seq, n) \in Seq(D)
  BY <1>2, PartOfLine DEF PrefixOf
<1>4. SubSeq(seq, 1, n + 1) = SubSeq(seq, 1, (n + 1) - 1) \o <<seq[n + 1]>>
  BY <1>2, SubSeqRecursiveSecond
<1>5. seq[n + 1] \in D
  BY <1>2
<1> DEFINE before == PrefixOf(seq, n)
<1>6. before \o <<seq[n + 1]>> = Append(before, seq[n + 1])
  <2> HIDE DEF before
  <2>1. before \in Seq(D)
    BY <1>3 DEF before
  <2> QED BY <1>5, <2>1
<1> QED BY <1>2, <1>3, <1>4, <1>6 DEF PrefixOf

FlagCharacters == Flags \cup {"+", "-"}

(* One or two characters more are one change more.                         *)
LEMMA SignedParsed ==
    ASSUME NEW D, NEW operations, Announceable(D, operations),
           NEW n \in 0..(Len(operations) - 1),
           NEW flags \in Seq(FlagCharacters),
           NEW before \in BOOLEAN, before = IF n = 0 THEN TRUE ELSE operations[n].add,
           NEW done,
           Stands(ParsedAll(flags, Arguments(operations)), before,
                  Rank(Taking(operations), n), done)
    PROVE  /\ Signed(operations, n + 1) \in Seq(FlagCharacters)
           /\ Stands(ParsedAll(flags \o Signed(operations, n + 1), Arguments(operations)),
                     operations[n + 1].add, Rank(Taking(operations), n + 1),
                     Append(done, operations[n + 1]))
<1> DEFINE C == FlagCharacters
           S == Taking(operations)
           texts == Arguments(operations)
           E == [mode : Flags, add : BOOLEAN, arg : D]
<1>1. /\ Len(operations) \in Nat /\ DOMAIN operations = 1..Len(operations)
      /\ \A k \in 1..Len(operations) : operations[k] \in E
  <2>1. operations \in Seq(E)
    BY DEF Announceable
  <2> HIDE DEF E
  <2> QED BY <2>1
<1>2. n + 1 \in 1..Len(operations) /\ n \in Nat
  BY <1>1
<1>3. PICK mode \in Flags, add \in BOOLEAN, arg \in D :
         operations[n + 1] = [mode |-> mode, add |-> add, arg |-> arg]
  <2>1. operations[n + 1] \in E
    BY <1>1, <1>2
  <2> QED BY <2>1
<1>4. /\ operations[n + 1].mode = mode /\ operations[n + 1].add = add
      /\ operations[n + 1].arg = arg
  BY <1>3
<1>5. n + 1 \in S <=> modeRequiresArgument(mode, add)
  BY <1>1, <1>2, <1>4 DEF Taking
<1>6. /\ texts \in Seq(D) /\ Len(texts) = Cardinality(S) /\ Cardinality(S) \in Nat
      /\ S \subseteq 1..Len(operations)
      /\ n + 1 \in S => /\ Rank(S, n + 1) \in 1..Cardinality(S)
                        /\ texts[Rank(S, n + 1)] = arg
  BY <1>4, ArgumentsListed
<1>7. arg = <<>> <=> n + 1 \notin S
  BY <1>1, <1>2, <1>4 DEF Announceable
<1> HIDE DEF S, texts
<1>8. /\ Rank(S, n) \in Nat
      /\ Rank(S, n + 1) = IF n + 1 \in S THEN Rank(S, n) + 1 ELSE Rank(S, n)
  <2>1. IsFiniteSet(S) /\ S \subseteq Nat
    BY <1>1, <1>6, RankEnds
  <2> QED BY <1>2, <2>1, RankStep DEF RankStepped
<1> DEFINE used == Rank(S, n)
           change == operations[n + 1]
<1>9. modeRequiresArgument(mode, add) =>
        used < Len(texts) /\ texts[used + 1] # <<>> /\ texts[used + 1] = arg
  BY <1>5, <1>6, <1>7, <1>8
<1>10. change = [mode |-> mode, add |-> add,
                 arg |-> IF modeRequiresArgument(mode, add)
                         THEN texts[used + 1] ELSE <<>>]
  BY <1>3, <1>5, <1>7, <1>9
<1>11. Rank(S, n + 1) = IF modeRequiresArgument(mode, add) THEN used + 1 ELSE used
  BY <1>5, <1>8
<1>12. used \in Nat
  BY <1>8
<1>13. mode \in C /\ Sign(operations[n + 1]) \in C
       /\ Sign(operations[n + 1]) \in {"+", "-"}
       /\ (Sign(operations[n + 1]) = "+" <=> add)
  BY <1>4 DEF Sign, FlagCharacters
<1> DEFINE sign == Sign(operations[n + 1])
<1> HIDE DEF used, change, C, sign
<1>14. Stands(ParsedAll(flags, texts), before, used, done)
  BY DEF texts, S, used
<1>15. \A text \in Seq(C) :
         Stands(ParsedAll(text, texts), add, used, done) =>
            Stands(ParsedAll(Append(text, mode), texts), add, Rank(S, n + 1),
                   Append(done, change))
  <2> SUFFICES ASSUME NEW text \in Seq(C), Stands(ParsedAll(text, texts), add, used, done)
               PROVE  Stands(ParsedAll(Append(text, mode), texts), add, Rank(S, n + 1),
                             Append(done, change))
    OBVIOUS
  <2>1. mode \in C /\ texts \in Seq(D)
    BY <1>6, <1>13
  <2>2. modeRequiresArgument(mode, add) => used < Len(texts) /\ texts[used + 1] # <<>>
    BY <1>9
  <2> QED BY <1>10, <1>11, <1>12, <2>1, <2>2, LetterParsed
<1>16. flags \in Seq(C)
  BY DEF C
<1>17. CASE n + 1 > 1 /\ sign = Sign(operations[n])
  <2>1. Signed(operations, n + 1) = <<mode>>
    <3>1. (n + 1) - 1 = n
      BY <1>2
    <3> QED BY <1>4, <1>17, <3>1 DEF Signed, sign
  <2>2. before = add
    <3>0. n # 0 /\ n \in 1..Len(operations)
      BY <1>1, <1>2, <1>17
    <3>1. before = operations[n].add /\ n \in 1..Len(operations)
      BY <3>0
    <3>2. operations[n] \in E
      BY <1>1, <3>1
    <3>3. operations[n].add \in BOOLEAN
      BY <3>2
    <3>4. Sign(operations[n]) = "+" <=> operations[n].add
      BY <3>3 DEF Sign
    <3> QED BY <1>13, <1>17, <3>1, <3>3, <3>4 DEF sign
  <2>3. Stands(ParsedAll(Append(flags, mode), texts), add, Rank(S, n + 1), Append(done, change))
    BY <1>14, <1>15, <1>16, <2>2
  <2>4. flags \o <<mode>> = Append(flags, mode) /\ <<mode>> \in Seq(C)
    BY <1>13, <1>16
  <2> QED BY <1>4, <2>1, <2>3, <2>4 DEF texts, S, change, C
<1>18. CASE ~ (n + 1 > 1 /\ sign = Sign(operations[n]))
  <2>1. Signed(operations, n + 1) = <<sign, mode>>
    <3>1. (n + 1) - 1 = n
      BY <1>2
    <3> QED BY <1>4, <1>18, <3>1 DEF Signed, sign
  <2>2. sign \in C /\ sign \in {"+", "-"} /\ (sign = "+" <=> add)
    BY <1>13 DEF sign
  <2>3. Stands(ParsedAll(Append(flags, sign), texts), sign = "+", used, done)
    BY <1>6, <1>14, <1>16, <2>2, SignParsed
  <2>4. Stands(ParsedAll(Append(flags, sign), texts), add, used, done)
    BY <2>2, <2>3 DEF Stands
  <2> DEFINE signed == Append(flags, sign)
  <2>5. signed \in Seq(C)
    BY <1>16, <2>2
  <2>6. flags \o <<sign, mode>> = Append(signed, mode) /\ <<sign, mode>> \in Seq(C)
    BY <1>13, <1>16, <2>2
  <2> HIDE DEF signed
  <2>7. Stands(ParsedAll(Append(signed, mode), texts), add, Rank(S, n + 1), Append(done, change))
    BY <1>15, <2>4, <2>5 DEF signed
  <2> QED BY <1>4, <2>1, <2>6, <2>7 DEF texts, S, change, C
<1> QED BY <1>17, <1>18
LEMMA AnnouncedRead ==
    ASSUME NEW D, NEW operations, Announceable(D, operations)
    PROVE  /\ Flagged(operations) \in Seq(FlagCharacters)
           /\ ChangesIn(Flagged(operations), Arguments(operations)) = operations
<1> DEFINE C == FlagCharacters
           K == Len(operations)
           E == [mode : Flags, add : BOOLEAN, arg : D]
           S == Taking(operations)
           texts == Arguments(operations)
           parts == [n \in DOMAIN operations |-> Signed(operations, n)]
           sign(n) == IF n = 0 THEN TRUE ELSE operations[n].add
           done(n) == PrefixOf(operations, n)
<1>1. K \in Nat /\ DOMAIN operations = 1..K /\ operations \in Seq(E)
      /\ \A k \in 1..K : operations[k] \in E
  <2>1. operations \in Seq(E)
    BY DEF Announceable
  <2> HIDE DEF E
  <2> QED BY <2>1
<1>2. \A n \in 0..K : sign(n) \in BOOLEAN
  <2> TAKE n \in 0..K
  <2>1. CASE n = 0
    BY <2>1
  <2>2. CASE n # 0
    <3>1. n \in 1..K
      BY <1>1, <2>2
    <3>2. operations[n] \in E
      BY <1>1, <3>1
    <3>3. operations[n].add \in BOOLEAN
      BY <3>2
    <3> QED BY <2>2, <3>3
  <2> QED BY <2>1, <2>2
<1>3. texts \in Seq(D) /\ S \subseteq 1..K
  BY ArgumentsListed
<1> DEFINE Signs == Seq(C)
<1>4. \A n \in 1..K : parts[n] = Signed(operations, n) /\ parts[n] \in Seq(C)
  <2> TAKE n \in 1..K
  <2>1. operations[n] \in E
    BY <1>1
  <2>2. operations[n].mode \in C /\ Sign(operations[n]) \in C
    BY <2>1 DEF Sign, FlagCharacters
  <2>3. Signed(operations, n) \in Seq(C)
    <3> HIDE DEF C
    <3> QED BY <2>2 DEF Signed
  <2> QED BY <1>1, <2>3
<1>5. parts \in Seq(Seq(C)) /\ Len(parts) = K
  <2> HIDE DEF C
  <2> QED BY <1>1, <1>4
<1> HIDE DEF parts
<1>6. PICK J \in Joined(C, parts) : FlattenSeq(parts) = J[Len(parts)]
  BY <1>5, FlattenJoined
<1>7. /\ J \in [0..K -> Seq(C)] /\ J[0] = <<>>
      /\ \A n \in 1..K : J[n] = J[n - 1] \o parts[n]
  BY <1>5, <1>6 DEF Joined
<1> DEFINE T == {n \in 0..K : Stands(ParsedAll(J[n], texts), sign(n), Rank(S, n), done(n))}
<1>8. 0 \in T
  <2>1. 0 \in 0..K /\ J[0] \in Seq(C)
    BY <1>1, <1>7
  <2>2. ParsedAll(J[0], texts) = NothingParsed
    <3> DEFINE first == J[0]
    <3>1. first \in Seq(C) /\ first = <<>>
      BY <1>7, <2>1
    <3> HIDE DEF first, texts, C
    <3>2. ParsedAll(first, texts) = NothingParsed
      BY <1>3, <3>1, ParsedNone
    <3> QED BY <3>2 DEF first
  <2>3. done(0) = <<>>
    BY SubSeqEmpty DEF PrefixOf
  <2>4. Rank(S, 0) = 0
    BY <1>1, <1>3, RankEnds
  <2>5. /\ NothingParsed.ok = TRUE /\ NothingParsed.adding = TRUE
        /\ NothingParsed.used = 0 /\ NothingParsed.operations = <<>>
    BY DEF NothingParsed
  <2> HIDE DEF done, S, texts
  <2>6. Stands(NothingParsed, TRUE, Rank(S, 0), done(0))
    BY <2>3, <2>4, <2>5 DEF Stands
  <2>7. sign(0) = TRUE
    OBVIOUS
  <2> HIDE DEF sign
  <2> QED BY <2>1, <2>2, <2>6, <2>7
<1>9. ASSUME NEW n \in 0..(K - 1), n \in T PROVE n + 1 \in T
  <2>1. n + 1 \in 1..K /\ n + 1 \in 0..K /\ (n + 1) - 1 = n /\ n \in 0..K /\ n + 1 # 0
    BY <1>1
  <2>2. J[n] \in Seq(FlagCharacters) /\ J[n + 1] = J[n] \o Signed(operations, n + 1)
    BY <1>4, <1>7, <2>1
  <2>3. Stands(ParsedAll(J[n], texts), sign(n), Rank(S, n), done(n))
    BY <1>9
  <2>4. sign(n) \in BOOLEAN /\ n \in 0..(Len(operations) - 1)
    BY <1>2, <2>1
  <2> DEFINE flags == J[n]
             before == sign(n)
             finished == done(n)
  <2>5. Stands(ParsedAll(flags \o Signed(operations, n + 1), texts),
               operations[n + 1].add, Rank(S, n + 1), Append(finished, operations[n + 1]))
    <3>1. /\ flags \in Seq(FlagCharacters) /\ before \in BOOLEAN
          /\ before = IF n = 0 THEN TRUE ELSE operations[n].add
          /\ Stands(ParsedAll(flags, texts), before, Rank(S, n), finished)
      BY <2>2, <2>3, <2>4
    <3> HIDE DEF flags, before, finished
    <3> QED BY <2>4, <3>1, SignedParsed
  <2>6. done(n + 1) = Append(finished, operations[n + 1])
    BY <1>1, <2>4, PrefixMore
  <2>7. sign(n + 1) = operations[n + 1].add
    BY <2>1
  <2>8. J[n + 1] = flags \o Signed(operations, n + 1)
    BY <2>2
  <2> HIDE DEF flags, before, finished, done, sign, texts, S
  <2> QED BY <2>1, <2>5, <2>6, <2>7, <2>8
<1>10. K \in T /\ K \in 0..K
  <2>1. K \in 0..K
    BY <1>1
  <2> HIDE DEF T, K
  <2>2. \A n \in 0..K : n \in T
    BY <1>1, <1>8, <1>9, InductionUpTo
  <2> QED BY <2>1, <2>2
<1>11. J[K] \in Seq(C) /\ Flagged(operations) = J[K]
  BY <1>5, <1>6, <1>7, <1>10 DEF Flagged, parts
<1>12. Stands(ParsedAll(J[K], texts), sign(K), Rank(S, K), done(K))
  BY <1>10
<1>13. done(K) = operations
  BY <1>1, SubSeqFull DEF PrefixOf
<1> DEFINE flags == J[K]
<1>14. flags \in Seq(C) /\ Stands(ParsedAll(flags, texts), sign(K), Rank(S, K), operations)
  BY <1>11, <1>12, <1>13
<1>15. ChangesIn(flags, texts) = operations
  <2> HIDE DEF flags, texts, sign, S, C
  <2> QED BY <1>3, <1>14, StandsRead
<1> QED BY <1>11, <1>15

-----------------------------------------------------------------------------
(* What validation writes means what the request means.                    *)

(* The characters of all that is sent.                                     *)
Characters ==
    STRING \cup {Digits[d] : d \in 1..10} \cup FlagCharacters
       \cup {Space, ":", "M", "O", "D", "E", "3", "2", "4",
             "P", "R", "I", "V", "S", "G"}

LEMMA DigitsMiddle ==
    ASSUME NEW text \in DigitTexts
    PROVE  IsMiddle(text) /\ text \in Seq(Characters)
<1> DEFINE C == {Digits[d] : d \in 1..10}
<1>1. C = {"0", "1", "2", "3", "4", "5", "6", "7", "8", "9"}
  <2>1. C \subseteq {"0", "1", "2", "3", "4", "5", "6", "7", "8", "9"}
    BY DEF Digits
  <2>2. /\ Digits[1] = "0" /\ Digits[2] = "1" /\ Digits[3] = "2" /\ Digits[4] = "3"
        /\ Digits[5] = "4" /\ Digits[6] = "5" /\ Digits[7] = "6" /\ Digits[8] = "7"
        /\ Digits[9] = "8" /\ Digits[10] = "9"
    BY DEF Digits
  <2> QED BY <2>1, <2>2
<1>2. /\ Space # "0" /\ Space # "1" /\ Space # "2" /\ Space # "3" /\ Space # "4"
      /\ Space # "5" /\ Space # "6" /\ Space # "7" /\ Space # "8" /\ Space # "9"
  BY Zenon DEF Space
<1>3. \A ch \in C : ch # Space /\ ch # ":"
  BY <1>1, <1>2
<1>4. text \in Seq(C) /\ text # <<>> /\ C \subseteq Characters
  BY DEF DigitTexts, Characters
<1> HIDE DEF C
<1>5. Len(text) \in Nat \ {0} /\ DOMAIN text = 1..Len(text)
      /\ \A n \in 1..Len(text) : text[n] \in C
  BY <1>4, EmptySeq, LenProperties
<1>6. text[1] # ":" /\ \A n \in DOMAIN text : text[n] # Space
  BY <1>3, <1>5
<1>7. text \in Seq(Characters)
  BY <1>4, SeqWider
<1> QED BY <1>4, <1>6, <1>7 DEF IsMiddle

LEMMA CanonicalSame ==
    ASSUME NEW change \in [mode : Flags, add : BOOLEAN, arg : Seq(STRING)],
           Acceptable(change)
    PROVE  /\ Canonical(change) \in [mode : Flags, add : BOOLEAN, arg : Seq(Characters)]
           /\ Canonical(change).mode = change.mode /\ Canonical(change).add = change.add
           /\ Meaning(Canonical(change)) = Meaning(change)
           /\ \/ Canonical(change) = change
              \/ IsMiddle(Canonical(change).arg)
                   /\ modeRequiresArgument(change.mode, change.add)
<1>1. PICK mode \in Flags, add \in BOOLEAN, arg \in Seq(STRING) :
        change = [mode |-> mode, add |-> add, arg |-> arg]
  OBVIOUS
<1>2. \A text \in Seq(STRING) : text \in Seq(Characters)
  <2>1. STRING \subseteq Characters
    BY DEF Characters
  <2> QED BY <2>1, SeqWider
<1>3. CASE mode = "o"
  <2>1. PICK c \in Found(arg) : c \in members
    BY <1>1, <1>3 DEF Acceptable
  <2>2. Found(arg) = {c} /\ c \in Clients
    BY <2>1, FoundOne
  <2>3. Found(Nick[c]) = {c}
    BY <2>2, NickFound
  <2>4. (CHOOSE d \in Found(arg) : TRUE) = c
    BY <2>2
  <2>5. (CHOOSE d \in Found(Nick[c]) : TRUE) = c
    BY <2>3
  <2> DEFINE written == [mode |-> mode, add |-> add, arg |-> Nick[c]]
  <2>6. Canonical(change) = written
    BY <1>1, <1>3, <2>4 DEF Canonical
  <2>7. Meaning(change) = [mode |-> mode, add |-> add, arg |-> c]
    BY <1>1, <1>3, <2>4 DEF Meaning
  <2>8. Meaning(written) = [mode |-> mode, add |-> add, arg |-> c]
    BY <1>3, <2>5 DEF Meaning
  <2>9. Nick[c] \in Seq(Characters) /\ IsMiddle(Nick[c])
    BY <1>2, <2>2, NickAssumption
  <2>10. modeRequiresArgument(change.mode, change.add)
    BY <1>1, <1>3 DEF modeRequiresArgument
  <2> QED BY <1>1, <2>6, <2>7, <2>8, <2>9, <2>10
<1>4. CASE mode = "l" /\ add
  <2>1. IsLimit(arg) /\ Number(arg) \in 1..MaxSize
    BY <1>1, <1>4 DEF Acceptable, IsLimit
  <2>2. parsePositiveUserLimit(arg) = Number(arg)
    BY <2>1, LimitExact
  <2> DEFINE n == Number(arg)
             text == formatUserLimit[n]
             written == [mode |-> mode, add |-> add, arg |-> text]
  <2>3. n \in 1..MaxSize /\ n \in 0..MaxSize
    BY <2>1, MaxSizeAssumption
  <2>4. Canonical(change) = written
    BY <1>1, <1>4, <2>2 DEF Canonical
  <2> HIDE DEF n
  <2>5. Number(text) = n /\ text \in DigitTexts
    BY <2>3, FormatWrites
  <2> HIDE DEF text
  <2>6. text \in Seq(Characters) /\ IsMiddle(text)
    BY <2>5, DigitsMiddle
  <2>7. Meaning(change) = [mode |-> mode, add |-> add, arg |-> n]
    BY <1>1, <1>4 DEF Meaning, n
  <2>8. Meaning(written) = [mode |-> mode, add |-> add, arg |-> n]
    BY <1>4, <2>5 DEF Meaning
  <2>9. modeRequiresArgument(change.mode, change.add)
    BY <1>1, <1>4 DEF modeRequiresArgument
  <2> QED BY <1>1, <2>4, <2>6, <2>7, <2>8, <2>9
<1>5. CASE mode # "o" /\ ~ (mode = "l" /\ add)
  <2>1. Canonical(change) = change
    BY <1>1, <1>5 DEF Canonical
  <2> QED BY <1>1, <1>2, <2>1
<1> QED BY <1>3, <1>4, <1>5

(* An accepted request has an argument where one is taken.                 *)
LEMMA AcceptedForm ==
    ASSUME NEW request \in Requests, ~IsQuery(request), Accepted(request),
           NEW texts, texts = SubSeq(request, 3, Len(request)),
           NEW changes, changes = ChangesIn(request[2], texts),
           NEW N, N = Cardinality(Letters(request[2]))
    PROVE  /\ N \in Nat /\ changes = UpTo(changes, N) /\ DOMAIN changes = 1..N
           /\ Parsed[request].operations = changes
           /\ \A n \in 1..N :
                 /\ changes[n] \in [mode : Flags, add : BOOLEAN, arg : Seq(STRING)]
                 /\ Acceptable(changes[n])
                 /\ changes[n].arg = <<>> <=>
                       ~ modeRequiresArgument(changes[n].mode, changes[n].add)
<1> DEFINE flags == request[2]
           L == Letters(flags)
<1>1. /\ Parsed[request].operations = changes
      /\ \A n \in DOMAIN changes :
            /\ Acceptable(changes[n])
            /\ changes[n] \in [mode : Flags, add : BOOLEAN, arg : Seq(STRING)]
  <2>1. Accepted(request) <=> \A n \in DOMAIN changes : Acceptable(changes[n])
    BY AcceptedExact
  <2>2. Accepted(request) =>
          /\ Parsed[request].operations = changes
          /\ \A n \in DOMAIN changes :
                changes[n] \in [mode : Flags, add : BOOLEAN, arg : Seq(STRING)]
    BY AcceptedExact
  <2> QED BY <2>1, <2>2
<1>2. /\ N \in Nat /\ changes = UpTo(changes, N)
      /\ \A n \in 1..N : \E i \in L : changes[n] = ChangeAt(flags, texts, i)
  BY RequestParts, ChangesListed
<1>3. DOMAIN changes = 1..N
  BY <1>2 DEF UpTo
<1> HIDE DEF flags, L
<1>4. ASSUME NEW n \in 1..N
      PROVE  changes[n].arg = <<>> <=>
                ~ modeRequiresArgument(changes[n].mode, changes[n].add)
  <2>1. PICK i \in L : changes[n] = ChangeAt(flags, texts, i)
    BY <1>2
  <2> DEFINE change == ChangeAt(flags, texts, i)
  <2>2. /\ change.mode = flags[i] /\ change.arg = ArgumentAt(flags, texts, i)
        /\ change.add = (SignBefore(flags, i) = "+")
    BY DEF ChangeAt
  <2>3. Acceptable(change) /\ change.mode \in Flags
    BY <1>1, <1>3, <2>1 DEF Acceptable
  <2> HIDE DEF change
  <2>4. TakesArgument(flags, i) <=> modeRequiresArgument(change.mode, change.add)
    BY <2>2 DEF TakesArgument, modeRequiresArgument
  <2>5. ~ TakesArgument(flags, i) => change.arg = <<>>
    BY <2>2 DEF ArgumentAt
  <2>6. modeRequiresArgument(change.mode, change.add) => change.arg # <<>>
    <3>1. change.mode = "o" => change.arg # <<>>
      BY <2>3, NobodyIsEmpty DEF Acceptable
    <3>2. change.mode \in {"k", "l"} /\ change.add => change.arg # <<>>
      BY <2>3 DEF Acceptable, IsLimit
    <3> QED BY <3>1, <3>2 DEF modeRequiresArgument
  <2> QED BY <2>1, <2>4, <2>5, <2>6 DEF change
<1> QED BY <1>1, <1>2, <1>3, <1>4

(* Changes with the same arguments but for words in the place of some.     *)
Respelled(operations, changes) ==
    \A n \in DOMAIN operations :
        /\ operations[n].arg = <<>> <=> changes[n].arg = <<>>
        /\ operations[n] = changes[n] \/ IsMiddle(operations[n].arg)

LEMMA OperationsMeant ==
    ASSUME NEW request \in Requests, ~IsQuery(request), Accepted(request),
           NEW texts, texts = SubSeq(request, 3, Len(request)),
           NEW operations, operations = Operations(request)
    PROVE  /\ Announceable(Seq(Characters), operations)
           /\ DOMAIN operations = 1..Cardinality(Letters(request[2]))
           /\ Respelled(operations, ChangesIn(request[2], texts))
           /\ Meant(Flagged(operations), Arguments(operations)) = Meant(request[2], texts)
<1> DEFINE flags == request[2]
           changes == ChangesIn(flags, texts)
           N == Cardinality(Letters(flags))
           D == Seq(Characters)
<1>1. /\ N \in Nat /\ DOMAIN changes = 1..N
      /\ Parsed[request].operations = changes
      /\ \A n \in 1..N :
            /\ changes[n] \in [mode : Flags, add : BOOLEAN, arg : Seq(STRING)]
            /\ Acceptable(changes[n])
            /\ changes[n].arg = <<>> <=>
                  ~ modeRequiresArgument(changes[n].mode, changes[n].add)
  BY AcceptedForm
<1>2. operations = [n \in DOMAIN changes |-> Canonical(changes[n])]
  BY <1>1 DEF Operations, Validated
<1>3. Meant(flags, texts) = [n \in DOMAIN changes |-> Meaning(changes[n])]
  BY DEF Meant
<1> HIDE DEF changes, N, flags
<1>4. \A n \in 1..N :
        /\ operations[n] \in [mode : Flags, add : BOOLEAN, arg : D]
        /\ operations[n].mode = changes[n].mode /\ operations[n].add = changes[n].add
        /\ Meaning(operations[n]) = Meaning(changes[n])
        /\ operations[n] = changes[n] \/
              (IsMiddle(operations[n].arg)
                 /\ modeRequiresArgument(changes[n].mode, changes[n].add))
  <2> TAKE n \in 1..N
  <2>1. operations[n] = Canonical(changes[n])
    BY <1>1, <1>2
  <2> QED BY <1>1, <2>1, CanonicalSame
<1>5. operations \in Seq([mode : Flags, add : BOOLEAN, arg : D]) /\ DOMAIN operations = 1..N
  <2> DEFINE E == [mode : Flags, add : BOOLEAN, arg : D]
  <2>1. \A n \in 1..N : operations[n] \in E
    BY <1>4
  <2> HIDE DEF E
  <2>2. operations \in [1..N -> E]
    BY <1>1, <1>2, <2>1
  <2>3. operations \in Seq(E)
    BY <1>1, <2>2
  <2> QED BY <1>1, <1>2, <2>3 DEF E
<1>6. \A n \in 1..N : /\ operations[n].arg = <<>> <=> n \notin Taking(operations)
                      /\ operations[n].arg = <<>> <=> changes[n].arg = <<>>
  <2> TAKE n \in 1..N
  <2>1. n \in Taking(operations) <=> modeRequiresArgument(changes[n].mode, changes[n].add)
    BY <1>4, <1>5 DEF Taking
  <2>2. IsMiddle(operations[n].arg) => operations[n].arg # <<>>
    BY DEF IsMiddle
  <2> QED BY <1>1, <1>4, <2>1, <2>2
<1>7. Announceable(D, operations)
  BY <1>5, <1>6 DEF Announceable
<1>8. ChangesIn(Flagged(operations), Arguments(operations)) = operations
  BY <1>7, AnnouncedRead
<1>9. Meant(Flagged(operations), Arguments(operations)) =
         [n \in DOMAIN operations |-> Meaning(operations[n])]
  BY <1>8 DEF Meant
<1>10. Meant(Flagged(operations), Arguments(operations)) = Meant(flags, texts)
  <2>1. Meant(Flagged(operations), Arguments(operations)) =
           [n \in 1..N |-> Meaning(operations[n])]
    BY <1>5, <1>9
  <2>2. Meant(flags, texts) = [n \in 1..N |-> Meaning(changes[n])]
    BY <1>1, <1>3
  <2>3. \A n \in 1..N : Meaning(operations[n]) = Meaning(changes[n])
    BY <1>4
  <2>4. [n \in 1..N |-> Meaning(operations[n])] = [n \in 1..N |-> Meaning(changes[n])]
    BY <2>3
  <2> QED BY <2>1, <2>2, <2>4
<1>11. \A n \in 1..N : operations[n] = changes[n] \/ IsMiddle(operations[n].arg)
  BY <1>4
<1>12. Respelled(operations, changes)
  BY <1>5, <1>6, <1>11 DEF Respelled
<1> QED BY <1>5, <1>7, <1>10, <1>12 DEF flags, N, changes

-----------------------------------------------------------------------------
(* The announcement can be written: what others follow in it is a word,    *)
(* since it was a word in the request or is a nickname or a number.        *)

LEMMA RankLess ==
    ASSUME NEW S, IsFiniteSet(S), S \subseteq Nat, NEW i \in S, NEW j \in S,
           Rank(S, i) < Rank(S, j)
    PROVE  i < j
<1> SUFFICES ASSUME ~ (i < j) PROVE FALSE
  OBVIOUS
<1>1. i \in Nat /\ j \in Nat
  OBVIOUS
<1>2. CASE i = j
  <2>1. Rank(S, i) \in Nat
    <3>1. Rank(S, i) \in 1..Cardinality(S) /\ Cardinality(S) \in Nat
      BY RankRange, FS_CardinalityType
    <3> QED BY <3>1
  <2> QED BY <1>2, <2>1
<1>3. CASE j < i
  <2>1. Rank(S, j) \in Nat /\ Rank(S, i) \in Nat /\ Rank(S, j) < Rank(S, i)
    BY <1>1, <1>3, RankGrows
  <2> QED BY <2>1
<1> QED BY <1>1, <1>2, <1>3

(* Of two letters that take an argument the first has not the last one.    *)
LEMMA EarlierArgument ==
    ASSUME NEW C, NEW D, NEW flags \in Seq(C), NEW texts \in Seq(D),
           NEW changes, changes = ChangesIn(flags, texts),
           NEW n \in 1..Cardinality(Letters(flags)),
           NEW m \in 1..Cardinality(Letters(flags)), n < m,
           changes[n].arg # <<>>, changes[m].arg # <<>>
    PROVE  \E r \in 1..(Len(texts) - 1) : changes[n].arg = texts[r]
<1> DEFINE L == Letters(flags)
           N == Cardinality(L)
           A == Takers(flags)
           order == InOrder(L)
<1>1. /\ L \subseteq 1..Len(flags) /\ A \subseteq 1..Len(flags) /\ Len(flags) \in Nat
  BY ChangesListed
<1>2. IsFiniteSet(L) /\ L \subseteq Nat /\ IsFiniteSet(A) /\ A \subseteq Nat
  BY <1>1, RankEnds
<1>3. A = {j \in L : TakesArgument(flags, j)}
  BY DEF Takers
<1> HIDE DEF A
<1>4. \A i \in L : changes[Rank(L, i)] = ChangeAt(flags, texts, i)
  BY ChangesListed
<1> HIDE DEF L, order, N
<1>5. /\ order \in [1..N -> L] /\ \A k \in 1..N : Rank(L, order[k]) = k
  BY <1>2, InOrderLists DEF order, N
<1>6. n \in 1..N /\ m \in 1..N
  BY DEF N, L
<1> DEFINE i == order[n]
           j == order[m]
<1>7. i \in L /\ j \in L /\ Rank(L, i) = n /\ Rank(L, j) = m
  BY <1>5, <1>6
<1> HIDE DEF i, j
<1>8. i < j
  BY <1>2, <1>7, RankLess
<1>9. \A k \in L : ChangeAt(flags, texts, k).arg = ArgumentAt(flags, texts, k)
  BY DEF ChangeAt
<1>10. changes[n].arg = ArgumentAt(flags, texts, i)
       /\ changes[m].arg = ArgumentAt(flags, texts, j)
  BY <1>4, <1>7, <1>9
<1>11. \A k \in L : ArgumentAt(flags, texts, k) # <<>> =>
          /\ k \in A /\ Rank(A, k) <= Len(texts)
          /\ ArgumentAt(flags, texts, k) = texts[Rank(A, k)]
  BY <1>3 DEF ArgumentAt, Takers, L
<1>12. /\ i \in A /\ changes[n].arg = texts[Rank(A, i)]
       /\ j \in A /\ Rank(A, j) <= Len(texts)
  BY <1>7, <1>10, <1>11
<1>13. Rank(A, i) \in Nat /\ Rank(A, j) \in Nat /\ Rank(A, i) < Rank(A, j)
  BY <1>2, <1>8, <1>12, RankGrows
<1>14. Rank(A, i) \in 1..Cardinality(A)
  BY <1>2, <1>12, RankRange
<1>15. Rank(A, i) >= 1
  <2>1. Cardinality(A) \in Nat
    BY <1>2, FS_CardinalityType
  <2> QED BY <1>14, <2>1
<1>16. Rank(A, i) \in 1..(Len(texts) - 1)
  <2>1. Len(texts) \in Nat
    OBVIOUS
  <2> QED BY <1>12, <1>13, <1>15, <2>1
<1> QED BY <1>12, <1>16

LEMMA ArgumentsMiddle ==
    ASSUME NEW request \in Requests, ~IsQuery(request), Accepted(request),
           NEW operations, operations = Operations(request),
           NEW k \in 1..(Len(Arguments(operations)) - 1)
    PROVE  IsMiddle(Arguments(operations)[k])
<1> DEFINE flags == request[2]
           texts == SubSeq(request, 3, Len(request))
           changes == ChangesIn(flags, texts)
           N == Cardinality(Letters(flags))
           S == Taking(operations)
           n == InOrder(S)[k]
           m == InOrder(S)[k + 1]
           M == Cardinality(S)
<1>1. /\ Announceable(Seq(Characters), operations)
      /\ DOMAIN operations = 1..N
      /\ \A i \in DOMAIN operations :
            /\ operations[i].arg = <<>> <=> changes[i].arg = <<>>
            /\ operations[i] = changes[i] \/ IsMiddle(operations[i].arg)
  <2>1. texts = SubSeq(request, 3, Len(request))
    OBVIOUS
  <2> HIDE DEF texts
  <2>2. Announceable(Seq(Characters), operations)
    BY <2>1, OperationsMeant
  <2>3. DOMAIN operations = 1..Cardinality(Letters(request[2]))
    BY <2>1, OperationsMeant
  <2>4. Respelled(operations, ChangesIn(request[2], texts))
    BY <2>1, OperationsMeant
  <2> QED BY <2>2, <2>3, <2>4 DEF Respelled
<1>2. /\ S \subseteq 1..Len(operations) /\ M \in Nat
      /\ Len(Arguments(operations)) = M
      /\ \A i \in 1..M :
            /\ InOrder(S)[i] \in S /\ Rank(S, InOrder(S)[i]) = i
            /\ Arguments(operations)[i] = operations[InOrder(S)[i]].arg
  <2> DEFINE D == Seq(Characters)
  <2>1. Announceable(D, operations) /\ S = Taking(operations)
    BY <1>1
  <2> HIDE DEF D, S
  <2> QED BY <2>1, ArgumentsListed
<1> HIDE DEF M
<1>4. k \in 1..M /\ k + 1 \in 1..M
  BY <1>2
<1>5. /\ n \in S /\ m \in S /\ Rank(S, n) = k /\ Rank(S, m) = k + 1
      /\ Arguments(operations)[k] = operations[n].arg
  BY <1>2, <1>4
<1> HIDE DEF n, m
<1>6. n < m
  <2>1. IsFiniteSet(S) /\ S \subseteq Nat
    <3>1. operations \in Seq([mode : Flags, add : BOOLEAN, arg : Seq(Characters)])
      BY <1>1 DEF Announceable
    <3>2. Len(operations) \in Nat
      BY <3>1, LenProperties
    <3> QED BY <1>2, <3>2, RankEnds
  <2>2. Rank(S, n) < Rank(S, m)
    BY <1>4, <1>5
  <2> QED BY <1>5, <2>1, <2>2, RankLess
<1>7. n \in 1..N /\ m \in 1..N
  BY <1>1, <1>5 DEF Taking
<1>8. CASE IsMiddle(operations[n].arg)
  BY <1>5, <1>8
<1>9. CASE ~ IsMiddle(operations[n].arg)
  <2>1. operations[n] = changes[n]
    BY <1>1, <1>7, <1>9
  <2>2. operations[n].arg # <<>> /\ operations[m].arg # <<>>
    BY <1>1, <1>5, <1>7 DEF Announceable
  <2>3. \E r \in 1..(Len(texts) - 1) : changes[n].arg = texts[r]
    <3>1. changes[n].arg # <<>> /\ changes[m].arg # <<>>
      BY <1>1, <1>7, <2>2
    <3>2. flags \in Seq(STRING) /\ texts \in Seq(Seq(STRING))
      BY RequestParts
    <3> HIDE DEF flags, texts, changes
    <3> QED BY <1>6, <1>7, <3>1, <3>2, EarlierArgument DEF N, changes
  <2>4. PICK r \in 1..(Len(texts) - 1) : changes[n].arg = texts[r]
    BY <2>3
  <2>5. IsMiddle(texts[r])
    <3>1. PICK line \in RequestLines : request = params(line)
      BY DEF Requests
    <3>2. line \in Seq(STRING)
      BY LinesAssumption
    <3>3. request \in Seq(Seq(STRING)) /\ Len(request) >= 2
      BY <3>1, <3>2, ParamsType DEF IsQuery
    <3> DEFINE D == Seq(STRING)
    <3>4. /\ Len(request) \in Nat /\ 3 \in Int
          /\ \A i \in 3..Len(request) : request[i] \in D
      <4> HIDE DEF D
      <4> QED BY <3>3 DEF D
    <3>5. /\ Len(texts) = IF 3 <= Len(request) THEN Len(request) - 3 + 1 ELSE 0
          /\ \A i \in 1..(Len(request) - 3 + 1) : texts[i] = request[3 + i - 1]
      <4> HIDE DEF D
      <4> QED BY <3>4, SubSeqProperties
    <3> HIDE DEF texts
    <3>6. texts[r] = request[3 + r - 1] /\ 3 + r - 1 \in 1..(Len(request) - 1)
      <4>1. r \in 1..(Len(request) - 3 + 1) /\ r < Len(request) - 2
        BY <3>3, <3>4, <3>5
      <4> QED BY <3>4, <3>5, <4>1
    <3>7. \A i \in 1..(Len(params(line)) - 1) : IsMiddle(params(line)[i])
      BY <3>2, ParamsMiddle
    <3> QED BY <3>1, <3>6, <3>7
  <2> QED BY <1>5, <2>1, <2>4, <2>5
<1> QED BY <1>8, <1>9

-----------------------------------------------------------------------------
(* The announcement as it is sent and read.                                *)

AnnouncedTexts(operations) ==
    <<Channel, Flagged(operations)>> \o Arguments(operations)

AnnouncementFits(c, operations) ==
    Len(LineOf(Nick[c], <<"M", "O", "D", "E">>, AnnouncedTexts(operations), FALSE))
        <= MaxLine

LEMMA LettersMiddle ==
    ASSUME NEW flags \in Seq(FlagCharacters), flags # <<>>
    PROVE  IsMiddle(flags)
<1>1. Len(flags) \in Nat \ {0} /\ DOMAIN flags = 1..Len(flags)
      /\ \A n \in 1..Len(flags) : flags[n] \in FlagCharacters
  BY EmptySeq, LenProperties
<1>2. /\ Space # "i" /\ Space # "t" /\ Space # "k" /\ Space # "l" /\ Space # "o"
      /\ Space # "+" /\ Space # "-"
  BY Zenon DEF Space
<1>3. \A ch \in FlagCharacters : ch # Space /\ ch # ":"
  BY <1>2 DEF FlagCharacters, Flags
<1> QED BY <1>1, <1>3 DEF IsMiddle

LEMMA FlagsMiddle ==
    ASSUME NEW D, NEW operations, Announceable(D, operations), operations # <<>>
    PROVE  IsMiddle(Flagged(operations))
<1> DEFINE flags == Flagged(operations)
           texts == Arguments(operations)
<1>1. flags \in Seq(FlagCharacters) /\ ChangesIn(flags, texts) = operations
  BY AnnouncedRead
<1>2. /\ operations \in Seq([mode : Flags, add : BOOLEAN, arg : D])
  BY DEF Announceable
<1> HIDE DEF flags, texts
<1>3. flags # <<>>
  <2> SUFFICES ASSUME flags = <<>> PROVE FALSE
    OBVIOUS
  <2>1. Letters(flags) \subseteq 1..Len(flags)
        /\ operations = UpTo(operations, Cardinality(Letters(flags)))
    BY <1>1, ChangesListed
  <2>2. Len(flags) = 0
    OBVIOUS
  <2>3. Letters(flags) = {}
    BY <2>1, <2>2
  <2>4. Cardinality(Letters(flags)) = 0
    BY <2>3, FS_EmptySet
  <2>5. DOMAIN operations = {}
    BY <2>1, <2>4 DEF UpTo
  <2>6. Len(operations) = 0
    BY <1>2, <2>5, LenProperties
  <2> QED BY <1>2, <2>6, EmptySeq
<1> QED BY <1>1, <1>3, LettersMiddle DEF flags

LEMMA SentCharacters ==
    /\ Space \in Characters /\ ":" \in Characters
    /\ Terminator \in Seq(Characters)
    /\ \A c \in Clients : Nick[c] \in Seq(Characters)
    /\ Channel \in Seq(Characters) /\ Server \in Seq(Characters)
    /\ \A text \in Seq(STRING) : text \in Seq(Characters)
<1>1. STRING \subseteq Characters
  BY DEF Characters
<1>2. \A text \in Seq(STRING) : text \in Seq(Characters)
  BY <1>1, SeqWider
<1>3. Space \in Characters /\ ":" \in Characters
  BY DEF Characters
<1> QED BY <1>2, <1>3, LineAssumption, NickAssumption, NamesAssumption

LEMMA FlagsWider ==
    ASSUME NEW flags \in Seq(FlagCharacters)
    PROVE  flags \in Seq(Characters)
<1>1. FlagCharacters \subseteq Characters
  BY DEF Characters
<1> QED BY <1>1, SeqWider

LEMMA CommandMiddle ==
    LET command == <<"M", "O", "D", "E">>
    IN  command \in Seq(Characters) /\ IsMiddle(command)
<1> DEFINE command == <<"M", "O", "D", "E">>
<1>1. "M" \in Characters /\ "O" \in Characters /\ "D" \in Characters /\ "E" \in Characters
  BY DEF Characters
<1>2. command \in Seq(Characters)
  <2> HIDE DEF Characters
  <2> QED BY <1>1
<1>3. Space # "M" /\ Space # "O" /\ Space # "D" /\ Space # "E"
  BY Zenon DEF Space
<1>4. /\ command # <<>> /\ command[1] # ":" /\ DOMAIN command = 1..4
      /\ command[1] # Space /\ command[2] # Space /\ command[3] # Space /\ command[4] # Space
  BY <1>3
<1>5. \A n \in 1..4 : n = 1 \/ n = 2 \/ n = 3 \/ n = 4
  OBVIOUS
<1> HIDE DEF command
<1>6. IsMiddle(command)
  BY <1>4, <1>5 DEF IsMiddle
<1> QED BY <1>2, <1>6 DEF command

LEMMA AnnouncementHeard ==
    ASSUME NEW request \in Requests, ~IsQuery(request), Accepted(request), NEW c \in Clients,
           NEW operations, operations = Operations(request), operations # <<>>,
           AnnouncementFits(c, operations),
           NEW line, line = Announcement(c, operations)
    PROVE  /\ line # Throws
           /\ Heard(line)[2] = Flagged(operations)
           /\ SubSeq(Heard(line), 3, Len(Heard(line))) = Arguments(operations)
<1> DEFINE C == Characters
           D == Seq(C)
           command == <<"M", "O", "D", "E">>
           nick == Nick[c]
           flags == Flagged(operations)
           values == Arguments(operations)
           front == <<Channel, flags>>
           texts == AnnouncedTexts(operations)
           colon == FALSE
           whole == LineOf(nick, command, texts, colon)
<1>1. Announceable(D, operations)
  BY OperationsMeant
<1>2. flags \in D /\ IsMiddle(flags)
  <2>1. flags \in Seq(FlagCharacters)
    BY <1>1, AnnouncedRead
  <2> QED BY <1>1, <2>1, FlagsMiddle, FlagsWider
<1>3. values \in Seq(D)
  <2> HIDE DEF D
  <2> QED BY <1>1, ArgumentsListed
<1>4. \A k \in 1..(Len(values) - 1) : IsMiddle(values[k])
  BY ArgumentsMiddle
<1>5. Channel \in D /\ IsMiddle(Channel)
  BY SentCharacters, NamesAssumption
<1>6. texts = front \o values
  BY DEF AnnouncedTexts
<1> HIDE DEF flags, values, texts
<1>7. front \in Seq(D) /\ Len(front) = 2 /\ front[1] = Channel /\ front[2] = flags
  <2> HIDE DEF D
  <2> QED BY <1>2, <1>5
<1> HIDE DEF front
<1>8. /\ texts \in Seq(D) /\ Len(values) \in Nat /\ Len(texts) = 2 + Len(values)
      /\ \A k \in 1..2 : texts[k] = front[k]
      /\ \A k \in 3..(2 + Len(values)) : texts[k] = values[k - 2]
  <2> HIDE DEF D
  <2>1. /\ Len(values) \in Nat
        /\ front \o values \in Seq(D) /\ Len(front \o values) = Len(front) + Len(values)
        /\ \A i \in 1..Len(front) : (front \o values)[i] = front[i]
        /\ \A i \in (Len(front) + 1)..(Len(front) + Len(values)) :
              (front \o values)[i] = values[i - Len(front)]
    BY <1>3, <1>7, CharacterAt
  <2> QED BY <1>6, <1>7, <2>1
<1>9. ~ Unwritable(texts)
  <2> SUFFICES ASSUME NEW n \in 1..(Len(texts) - 1) PROVE IsMiddle(texts[n])
    BY DEF Unwritable
  <2>1. n = 1 \/ n = 2 \/ (n \in 3..(2 + Len(values)) /\ n - 2 \in 1..(Len(values) - 1))
    BY <1>8
  <2>2. CASE n \in {1, 2}
    <3>1. texts[n] = front[n]
      BY <1>8, <2>2
    <3> QED BY <1>2, <1>5, <1>7, <2>2, <3>1
  <2>3. CASE n \in 3..(2 + Len(values)) /\ n - 2 \in 1..(Len(values) - 1)
    BY <1>4, <1>8, <2>3
  <2> QED BY <2>1, <2>2, <2>3
<1>10. SubSeq(texts, 3, Len(texts)) = values
  <2> HIDE DEF D
  <2>1. SubSeq(front \o values, Len(front) + 1, Len(front \o values)) = values
    BY <1>3, <1>7, SubSeqAdded
  <2>2. Len(front) + 1 = 3
    BY <1>7
  <2> QED BY <1>6, <2>1, <2>2
<1>11. texts[2] = flags
  BY <1>7, <1>8
<1>12. line = serialize(nick, command, texts, colon)
  BY DEF Announcement, AnnouncedTexts, texts, Flagged
<1>13. Len(whole) <= MaxLine
  BY DEF AnnouncementFits, texts
<1>14. /\ nick \in Seq(C) /\ \A i \in DOMAIN nick : nick[i] # Space
       /\ command \in Seq(C) /\ IsMiddle(command)
       /\ Space \in C /\ ":" \in C /\ Terminator \in Seq(C)
  BY SentCharacters, CommandMiddle, NickAssumption DEF IsMiddle
<1> HIDE DEF nick, command, whole, C, colon
<1>15. line # Throws
  <2>1. /\ serialize(nick, command, texts, colon) =
              IF Unwritable(texts) \/ Len(whole) > MaxLine THEN Throws ELSE whole
        /\ whole # Throws /\ whole \in Seq(C)
    BY <1>8, <1>14, LineWritten DEF whole
  <2>2. Len(whole) \in Nat
    BY <2>1, LenProperties
  <2>3. ~ (Len(whole) > MaxLine)
    BY <1>13, <2>2, LineAssumption
  <2> QED BY <1>9, <1>12, <2>1, <2>3
<1>16. Heard(line) = texts
  <2>1. params(SubSeq(line, 1, Len(line) - 2)) = texts
    BY <1>8, <1>12, <1>14, <1>15, ReadBack
  <2> QED BY <2>1 DEF Heard
<1> QED BY <1>10, <1>11, <1>15, <1>16 DEF flags, values

-----------------------------------------------------------------------------
(* The reply to a query is read as the modes that are in force.            *)

MeantOf(operations) == [n \in DOMAIN operations |-> Meaning(operations[n])]

Additions == [mode : Flags, add : {TRUE}, arg : Seq(Characters)]

(* The modes that a change adds to.                                        *)
Adding(m, flag, value) ==
    [inviteOnly |-> IF flag = "i" THEN TRUE ELSE m.inviteOnly,
     topicRestricted |-> IF flag = "t" THEN TRUE ELSE m.topicRestricted,
     key |-> IF flag = "k" THEN value ELSE m.key,
     limit |-> IF flag = "l" THEN Number(value) ELSE m.limit]

LEMMA MeantMore ==
    ASSUME NEW done \in Seq(Additions), NEW flag \in Flags \ {"o"},
           NEW value \in Seq(Characters),
           NEW change, change = [mode |-> flag, add |-> TRUE, arg |-> value]
    PROVE  ModesAfter(MeantOf(Append(done, change)), NewModes) =
              Adding(ModesAfter(MeantOf(done), NewModes), flag, value)
<1> DEFINE more == Append(done, change)
           n == Len(done)
           r == MeantOf(done)
           q == MeantOf(more)
           before == ModesAfter(r, NewModes)
           after == ModesAfter(q, NewModes)
<1>1. change \in Additions
  BY DEF Additions
<1>2. /\ n \in Nat /\ more \in Seq(Additions) /\ Len(more) = n + 1
      /\ \A k \in 1..n : more[k] = done[k]
      /\ more[n + 1] = change
  <2> HIDE DEF Additions
  <2> QED BY <1>1, AppendIs
<1>3. DOMAIN done = 1..n /\ DOMAIN more = 1..(n + 1)
  BY <1>2, LenProperties
<1> HIDE DEF more, n
<1>4. OneMore(r, q, n)
  <2>1. DOMAIN r = 1..n /\ DOMAIN q = 1..(n + 1)
    BY <1>3 DEF MeantOf
  <2>2. \A k \in 1..n : k \in 1..(n + 1)
    BY <1>2
  <2>3. \A k \in 1..n : q[k] = r[k]
    BY <1>2, <1>3, <2>2 DEF MeantOf
  <2> QED BY <2>1, <2>3 DEF OneMore
<1>5. q[n + 1] = Meaning(change)
  <2>1. n + 1 \in 1..(n + 1)
    BY <1>2
  <2> QED BY <1>2, <1>3, <2>1 DEF MeantOf
<1>6. /\ q[n + 1].mode = flag /\ q[n + 1].add = TRUE
      /\ flag # "l" => q[n + 1].arg = value
      /\ flag = "l" => q[n + 1].arg = Number(value)
  <2>1. CASE flag = "l"
    <3>1. Meaning(change) = [mode |-> flag, add |-> TRUE, arg |-> Number(value)]
      BY <2>1 DEF Meaning
    <3> QED BY <1>5, <2>1, <3>1
  <2>2. CASE flag # "l"
    <3>1. Meaning(change) = change
      BY <2>2 DEF Meaning
    <3> QED BY <1>5, <2>2, <3>1
  <2> QED BY <2>1, <2>2
<1> HIDE DEF r, q
<1>7. \A f, old : FlagAfter(q, f, old) =
         IF q[n + 1].mode = f THEN q[n + 1].add ELSE FlagAfter(r, f, old)
  BY <1>2, <1>4, FlagOneMore
<1>8. \A f, unset, old : ArgAfter(q, f, unset, old) =
         IF q[n + 1].mode = f
         THEN IF q[n + 1].add THEN q[n + 1].arg ELSE unset
         ELSE ArgAfter(r, f, unset, old)
  BY <1>2, <1>4, ArgOneMore
<1>9. /\ before.inviteOnly = FlagAfter(r, "i", NewModes.inviteOnly)
      /\ before.topicRestricted = FlagAfter(r, "t", NewModes.topicRestricted)
      /\ before.key = ArgAfter(r, "k", NoKey, NewModes.key)
      /\ before.limit = ArgAfter(r, "l", NoLimit, NewModes.limit)
  BY DEF ModesAfter
<1>10. after = [inviteOnly |-> FlagAfter(q, "i", NewModes.inviteOnly),
                topicRestricted |-> FlagAfter(q, "t", NewModes.topicRestricted),
                key |-> ArgAfter(q, "k", NoKey, NewModes.key),
                limit |-> ArgAfter(q, "l", NoLimit, NewModes.limit)]
  BY DEF ModesAfter
<1> HIDE DEF before, after
<1>11. FlagAfter(q, "i", NewModes.inviteOnly) =
          IF flag = "i" THEN TRUE ELSE before.inviteOnly
  <2>1. FlagAfter(q, "i", NewModes.inviteOnly) =
          IF q[n + 1].mode = "i" THEN q[n + 1].add
          ELSE FlagAfter(r, "i", NewModes.inviteOnly)
    BY <1>7
  <2> QED BY <1>6, <1>9, <2>1
<1>12. FlagAfter(q, "t", NewModes.topicRestricted) =
          IF flag = "t" THEN TRUE ELSE before.topicRestricted
  <2>1. FlagAfter(q, "t", NewModes.topicRestricted) =
          IF q[n + 1].mode = "t" THEN q[n + 1].add
          ELSE FlagAfter(r, "t", NewModes.topicRestricted)
    BY <1>7
  <2> QED BY <1>6, <1>9, <2>1
<1>13. ArgAfter(q, "k", NoKey, NewModes.key) =
          IF flag = "k" THEN value ELSE before.key
  <2>1. ArgAfter(q, "k", NoKey, NewModes.key) =
          IF q[n + 1].mode = "k"
          THEN IF q[n + 1].add THEN q[n + 1].arg ELSE NoKey
          ELSE ArgAfter(r, "k", NoKey, NewModes.key)
    BY <1>8
  <2>2. "k" # "l"
    OBVIOUS
  <2> QED BY <1>6, <1>9, <2>1, <2>2
<1>14. ArgAfter(q, "l", NoLimit, NewModes.limit) =
          IF flag = "l" THEN Number(value) ELSE before.limit
  <2>1. ArgAfter(q, "l", NoLimit, NewModes.limit) =
          IF q[n + 1].mode = "l"
          THEN IF q[n + 1].add THEN q[n + 1].arg ELSE NoLimit
          ELSE ArgAfter(r, "l", NoLimit, NewModes.limit)
    BY <1>8
  <2> QED BY <1>6, <1>9, <2>1
<1>15. after = Adding(before, flag, value)
  BY <1>10, <1>11, <1>12, <1>13, <1>14 DEF Adding
<1> QED BY <1>15 DEF after, before, q, r, more

(* A mode string so far tells of these modes and has used so many values.  *)
Told(text, values, used, m) ==
    /\ text \in Seq(FlagCharacters) /\ text # <<>>
    /\ \E done \in Seq(Additions) :
          /\ Stands(ParsedAll(text, values), TRUE, used, done)
          /\ ModesAfter(MeantOf(done), NewModes) = m

LEMMA ToldSign ==
    ASSUME NEW D, NEW values \in Seq(D)
    PROVE  Told(<<"+">>, values, 0, NewModes)
<1> DEFINE C == FlagCharacters
           none == <<>>
           plus == "+"
           sign == Append(none, plus)
<1>1. none \in Seq(C) /\ plus \in C /\ plus \in {"+", "-"}
  BY DEF FlagCharacters
<1>2. ParsedAll(none, values) = NothingParsed
  <2>1. none = <<>>
    OBVIOUS
  <2> HIDE DEF none, C
  <2> QED BY <1>1, <2>1, ParsedNone
<1>3. sign = <<"+">> /\ sign \in Seq(C) /\ sign # <<>>
  BY <1>1
<1>4. /\ NothingParsed.ok = TRUE /\ NothingParsed.adding = TRUE
      /\ NothingParsed.used = 0 /\ NothingParsed.operations = none
  BY DEF NothingParsed
<1>5. none \in Seq(Additions) /\ DOMAIN none = {}
  OBVIOUS
<1>6. plus = "+"
  OBVIOUS
<1> HIDE DEF none, plus, C
<1>7. Stands(ParsedAll(none, values), TRUE, 0, none)
  BY <1>2, <1>4 DEF Stands
<1>8. Stands(ParsedAll(sign, values), plus = "+", 0, none)
  <2> DEFINE adding == TRUE
  <2>1. adding \in BOOLEAN /\ Stands(ParsedAll(none, values), adding, 0, none)
    BY <1>7
  <2> HIDE DEF adding
  <2> QED BY <1>1, <2>1, SignParsed
<1> HIDE DEF sign
<1>9. Stands(ParsedAll(sign, values), TRUE, 0, none)
  BY <1>6, <1>8 DEF Stands
<1>10. ModesAfter(MeantOf(none), NewModes) = NewModes
  <2>1. DOMAIN MeantOf(none) = {}
    BY <1>5 DEF MeantOf
  <2>2. \A flag : Concerning(MeantOf(none), flag) = {}
    BY <2>1 DEF Concerning
  <2>3. ModesAfter(MeantOf(none), NewModes) =
          [inviteOnly |-> NewModes.inviteOnly, topicRestricted |-> NewModes.topicRestricted,
           key |-> NewModes.key, limit |-> NewModes.limit]
    BY <2>2 DEF ModesAfter, FlagAfter, ArgAfter
  <2> QED BY <2>3 DEF NewModes
<1>11. Told(sign, values, 0, NewModes)
  BY <1>3, <1>5, <1>9, <1>10 DEF Told, C
<1> QED BY <1>3, <1>11

LEMMA ToldMore ==
    ASSUME NEW text, NEW values \in Seq(Seq(Characters)), NEW used \in Nat, NEW m,
           Told(text, values, used, m), NEW flag \in Flags \ {"o"},
           flag \in {"k", "l"} => used < Len(values) /\ values[used + 1] # <<>>
    PROVE  Told(Append(text, flag), values,
                IF flag \in {"k", "l"} THEN used + 1 ELSE used,
                Adding(m, flag, values[used + 1]))
<1> DEFINE C == FlagCharacters
           D == Seq(Characters)
           takes == flag \in {"k", "l"}
           value == IF takes THEN values[used + 1] ELSE <<>>
           change == [mode |-> flag, add |-> TRUE, arg |-> value]
           next == IF takes THEN used + 1 ELSE used
<1>1. PICK done \in Seq(Additions) :
        /\ Stands(ParsedAll(text, values), TRUE, used, done)
        /\ ModesAfter(MeantOf(done), NewModes) = m
  BY DEF Told
<1>2. text \in Seq(C) /\ flag \in C /\ flag \in Flags
  BY DEF Told, FlagCharacters
<1>3. modeRequiresArgument(flag, TRUE) <=> takes
  BY DEF modeRequiresArgument
<1>4. value \in D
  <2>1. CASE takes
    <3>1. used + 1 \in 1..Len(values) /\ Len(values) \in Nat
      BY <2>1
    <3>2. values[used + 1] \in D
      <4> HIDE DEF D
      <4> QED BY <3>1, ElementOfSeq DEF D
    <3> QED BY <2>1, <3>2
  <2>2. CASE ~ takes
    BY <2>2, EmptySeq
  <2> QED BY <2>1, <2>2
<1>5. change \in Additions
  BY <1>4 DEF Additions
<1>6. Stands(ParsedAll(Append(text, flag), values), TRUE, next, Append(done, change))
  <2> DEFINE adding == TRUE
  <2>1. /\ adding \in BOOLEAN /\ Stands(ParsedAll(text, values), adding, used, done)
        /\ modeRequiresArgument(flag, adding) <=> takes
    BY <1>1, <1>3
  <2>2. change = [mode |-> flag, add |-> adding,
                  arg |-> IF modeRequiresArgument(flag, adding)
                          THEN values[used + 1] ELSE <<>>]
    BY <2>1
  <2>3. modeRequiresArgument(flag, adding) =>
           used < Len(values) /\ values[used + 1] # <<>>
    BY <2>1
  <2>4. values \in Seq(D)
    OBVIOUS
  <2> HIDE DEF adding, change, takes, D, C
  <2>5. Stands(ParsedAll(Append(text, flag), values), adding,
               IF modeRequiresArgument(flag, adding) THEN used + 1 ELSE used,
               Append(done, change))
    BY <1>2, <2>1, <2>2, <2>3, <2>4, LetterParsed
  <2> QED BY <2>1, <2>5 DEF adding
<1>7. ModesAfter(MeantOf(Append(done, change)), NewModes) = Adding(m, flag, value)
  <2>1. change = [mode |-> flag, add |-> TRUE, arg |-> value]
    OBVIOUS
  <2>2. value \in Seq(Characters)
    BY <1>4
  <2> HIDE DEF change, value
  <2> QED BY <1>1, <2>1, <2>2, MeantMore
<1>8. Adding(m, flag, value) = Adding(m, flag, values[used + 1])
  BY DEF Adding
<1>9. /\ Append(text, flag) \in Seq(C) /\ Append(text, flag) # <<>>
      /\ Append(done, change) \in Seq(Additions)
  <2> HIDE DEF change, C
  <2>1. Append(text, flag) \in Seq(C) /\ Append(done, change) \in Seq(Additions)
    BY <1>2, <1>5
  <2>2. Len(Append(text, flag)) = Len(text) + 1 /\ Len(text) \in Nat
    BY <1>2, AppendIs
  <2>3. Len(Append(text, flag)) # 0
    BY <2>2
  <2> QED BY <2>1, <2>3, EmptySeq
<1> HIDE DEF value, change, takes
<1>10. Told(Append(text, flag), values, next, Adding(m, flag, value))
  BY <1>6, <1>7, <1>9 DEF Told, C
<1> QED BY <1>8, <1>10 DEF takes
(* The letters and the values of the reply to a query.                     *)
ReplyFlags(m) ==
    <<"+">> \o (IF m.inviteOnly THEN <<"i">> ELSE <<>>)
            \o (IF m.topicRestricted THEN <<"t">> ELSE <<>>)
            \o (IF m.key # NoKey THEN <<"k">> ELSE <<>>)
            \o (IF m.limit # NoLimit THEN <<"l">> ELSE <<>>)

ReplyValues(m) ==
    (IF m.key # NoKey THEN <<m.key>> ELSE <<>>)
       \o (IF m.limit # NoLimit THEN <<formatUserLimit[m.limit]>> ELSE <<>>)

KeysTold(m) == IF m.key # NoKey THEN 1 ELSE 0

LEMMA ToldMaybe ==
    ASSUME NEW text, NEW values \in Seq(Seq(Characters)), NEW used \in Nat, NEW m,
           Told(text, values, used, m), NEW flag \in Flags \ {"o"}, NEW yes \in BOOLEAN,
           yes /\ flag \in {"k", "l"} => used < Len(values) /\ values[used + 1] # <<>>
    PROVE  Told(text \o (IF yes THEN <<flag>> ELSE <<>>), values,
                IF yes /\ flag \in {"k", "l"} THEN used + 1 ELSE used,
                IF yes THEN Adding(m, flag, values[used + 1]) ELSE m)
<1> DEFINE C == FlagCharacters
<1>1. text \in Seq(C) /\ flag \in C
  BY DEF Told, FlagCharacters
<1>2. text \o <<flag>> = Append(text, flag) /\ text \o <<>> = text
  <2> HIDE DEF C
  <2> QED BY <1>1
<1>3. CASE yes
  <2>1. Told(Append(text, flag), values,
             IF flag \in {"k", "l"} THEN used + 1 ELSE used,
             Adding(m, flag, values[used + 1]))
    BY <1>3, ToldMore
  <2> QED BY <1>2, <1>3, <2>1
<1>4. CASE ~ yes
  BY <1>2, <1>4
<1> QED BY <1>3, <1>4

LEMMA ReplyValuesAre ==
    ASSUME NEW m, ModesType(m), NEW values, values = ReplyValues(m)
    PROVE  /\ values \in Seq(Seq(Characters))
           /\ m.key # NoKey => /\ 0 < Len(values) /\ values[1] = m.key
                               /\ values[1] # <<>>
           /\ m.limit # NoLimit =>
                 /\ KeysTold(m) < Len(values)
                 /\ values[KeysTold(m) + 1] = formatUserLimit[m.limit]
                 /\ values[KeysTold(m) + 1] # <<>>
                 /\ Number(values[KeysTold(m) + 1]) = m.limit
<1> DEFINE D == Seq(Characters)
           key == m.key
           digits == formatUserLimit[m.limit]
<1>1. key \in D
  BY SentCharacters DEF ModesType
<1>2. digits \in DigitTexts /\ Number(digits) = m.limit
  BY FormatWrites DEF ModesType
<1>3. digits \in D /\ digits # <<>>
  BY <1>2, DigitsMiddle DEF IsMiddle
<1>4. key # NoKey => key # <<>>
  BY NoKeyIsEmpty
<1>5. values = (IF key # NoKey THEN <<key>> ELSE <<>>)
                  \o (IF m.limit # NoLimit THEN <<digits>> ELSE <<>>)
  BY DEF ReplyValues
<1>6. KeysTold(m) = IF key # NoKey THEN 1 ELSE 0
  BY DEF KeysTold
<1> HIDE DEF key, digits, D
<1>7. CASE key # NoKey /\ m.limit # NoLimit
  <2>1. values = <<key>> \o <<digits>>
    BY <1>5, <1>7
  <2>3. <<key>> \in Seq(D) /\ <<digits>> \in Seq(D)
    BY <1>1, <1>3
  <2>2. values \in Seq(D) /\ Len(values) = 2 /\ values[1] = key /\ values[2] = digits
    <3> DEFINE one == <<key>>
               two == <<digits>>
    <3>1. /\ one \in Seq(D) /\ Len(one) = 1 /\ one[1] = key
          /\ two \in Seq(D) /\ Len(two) = 1 /\ two[1] = digits
      BY <2>3
    <3> HIDE DEF one, two
    <3>2. one \o two \in Seq(D) /\ Len(one \o two) = 2
      BY <3>1, ConcatProperties
    <3>3. (one \o two)[1] = one[1] /\ (one \o two)[2] = two[1]
      BY <3>1, ConcatProperties
    <3> QED BY <2>1, <3>1, <3>2, <3>3 DEF one, two
  <2> QED BY <1>2, <1>3, <1>4, <1>6, <1>7, <2>2 DEF key, digits, D
<1>8. CASE key # NoKey /\ m.limit = NoLimit
  <2>1. values = <<key>>
    BY <1>5, <1>8
  <2>2. values \in Seq(D) /\ Len(values) = 1 /\ values[1] = key
    BY <1>1, <2>1
  <2> QED BY <1>4, <1>8, <2>2 DEF key, D
<1>9. CASE key = NoKey /\ m.limit # NoLimit
  <2>1. values = <<digits>>
    BY <1>5, <1>9
  <2>2. values \in Seq(D) /\ Len(values) = 1 /\ values[1] = digits
    BY <1>3, <2>1
  <2> QED BY <1>2, <1>3, <1>6, <1>9, <2>2 DEF key, digits, D
<1>10. CASE key = NoKey /\ m.limit = NoLimit
  <2>1. values = <<>>
    BY <1>5, <1>10
  <2> QED BY <1>10, <2>1 DEF key, D
<1> QED BY <1>7, <1>8, <1>9, <1>10

LEMMA ReplyTold ==
    ASSUME NEW m, ModesType(m), NEW values, values = ReplyValues(m),
           NEW text, text = ReplyFlags(m)
    PROVE  \E used : Told(text, values, used, m)
<1> DEFINE d == Seq(Seq(Characters))
           plus == <<"+">>
           a == IF m.inviteOnly THEN <<"i">> ELSE <<>>
           b == IF m.topicRestricted THEN <<"t">> ELSE <<>>
           e == IF m.key # NoKey THEN <<"k">> ELSE <<>>
           f == IF m.limit # NoLimit THEN <<"l">> ELSE <<>>
           m1 == [inviteOnly |-> m.inviteOnly, topicRestricted |-> FALSE,
                  key |-> NoKey, limit |-> NoLimit]
           m2 == [inviteOnly |-> m.inviteOnly, topicRestricted |-> m.topicRestricted,
                  key |-> NoKey, limit |-> NoLimit]
           m3 == [inviteOnly |-> m.inviteOnly, topicRestricted |-> m.topicRestricted,
                  key |-> m.key, limit |-> NoLimit]
           m4 == [inviteOnly |-> m.inviteOnly, topicRestricted |-> m.topicRestricted,
                  key |-> m.key, limit |-> m.limit]
<1>1. text = (((plus \o a) \o b) \o e) \o f
  BY DEF ReplyFlags
<1>2. m.inviteOnly \in BOOLEAN /\ m.topicRestricted \in BOOLEAN /\ m = m4
  BY DEF ModesType, ModesForm
<1>3. /\ values \in d
      /\ m.key # NoKey => 0 < Len(values) /\ values[1] = m.key /\ values[1] # <<>>
      /\ m.limit # NoLimit =>
            /\ KeysTold(m) < Len(values)
            /\ values[KeysTold(m) + 1] # <<>>
            /\ Number(values[KeysTold(m) + 1]) = m.limit
  BY ReplyValuesAre
<1>4. "i" \in Flags \ {"o"} /\ "t" \in Flags \ {"o"} /\ "k" \in Flags \ {"o"}
      /\ "l" \in Flags \ {"o"}
  BY DEF Flags
<1>5. KeysTold(m) = IF m.key # NoKey THEN 1 ELSE 0
  BY DEF KeysTold
<1>6. Told(plus, values, 0, NewModes)
  <2> DEFINE D == Seq(Characters)
  <2>1. values \in Seq(D)
    BY <1>3
  <2> HIDE DEF D
  <2> QED BY <2>1, ToldSign
<1> HIDE DEF plus
<1>7. Told(plus \o a, values, 0, m1)
  <2> DEFINE yes == m.inviteOnly
             flag == "i"
             used == 0
             more == IF yes THEN Adding(NewModes, flag, values[used + 1]) ELSE NewModes
  <2>1. yes \in BOOLEAN /\ flag \in Flags \ {"o"} /\ used \in Nat
        /\ flag \notin {"k", "l"} /\ Told(plus, values, used, NewModes)
    BY <1>2, <1>4, <1>6
  <2>2. more = m1
    <3>1. CASE yes
      BY <1>2, <3>1 DEF Adding, NewModes
    <3>2. CASE ~ yes
      BY <1>2, <3>2 DEF NewModes
    <3> QED BY <3>1, <3>2
  <2>3. a = IF yes THEN <<flag>> ELSE <<>>
    OBVIOUS
  <2> HIDE DEF yes, flag, used
  <2>4. Told(plus \o (IF yes THEN <<flag>> ELSE <<>>), values,
             IF yes /\ flag \in {"k", "l"} THEN used + 1 ELSE used, more)
    BY <1>3, <2>1, ToldMaybe
  <2> HIDE DEF a, m1, more
  <2>5. Told(plus \o a, values, used, m1)
    BY <2>1, <2>2, <2>3, <2>4
  <2> QED BY <2>5 DEF used
<1>8. Told((plus \o a) \o b, values, 0, m2)
  <2> DEFINE yes == m.topicRestricted
             flag == "t"
             used == 0
             more == IF yes THEN Adding(m1, flag, values[used + 1]) ELSE m1
  <2>1. yes \in BOOLEAN /\ flag \in Flags \ {"o"} /\ used \in Nat
        /\ flag \notin {"k", "l"} /\ Told(plus \o a, values, used, m1)
    BY <1>2, <1>4, <1>7
  <2>2. more = m2
    <3>1. CASE yes
      BY <1>2, <3>1 DEF Adding
    <3>2. CASE ~ yes
      BY <1>2, <3>2
    <3> QED BY <3>1, <3>2
  <2>3. b = IF yes THEN <<flag>> ELSE <<>>
    OBVIOUS
  <2> HIDE DEF yes, flag, used, a, m1
  <2>4. Told((plus \o a) \o (IF yes THEN <<flag>> ELSE <<>>), values,
             IF yes /\ flag \in {"k", "l"} THEN used + 1 ELSE used, more)
    BY <1>3, <2>1, ToldMaybe
  <2> HIDE DEF b, m2, more
  <2>5. Told((plus \o a) \o b, values, used, m2)
    BY <2>1, <2>2, <2>3, <2>4
  <2> QED BY <2>5 DEF used
<1>9. Told(((plus \o a) \o b) \o e, values, KeysTold(m), m3)
  <2> DEFINE yes == (m.key # NoKey)
             flag == "k"
             used == 0
             more == IF yes THEN Adding(m2, flag, values[used + 1]) ELSE m2
  <2>1. yes \in BOOLEAN /\ flag \in Flags \ {"o"} /\ used \in Nat
        /\ flag \in {"k", "l"} /\ Told((plus \o a) \o b, values, used, m2)
        /\ (yes => used < Len(values) /\ values[used + 1] # <<>>)
        /\ KeysTold(m) = IF yes THEN used + 1 ELSE used
    BY <1>3, <1>4, <1>5, <1>8
  <2>2. more = m3
    <3>1. CASE yes
      BY <1>3, <3>1 DEF Adding
    <3>2. CASE ~ yes
      BY <3>2
    <3> QED BY <3>1, <3>2
  <2>3. e = IF yes THEN <<flag>> ELSE <<>>
    OBVIOUS
  <2> HIDE DEF yes, flag, used, a, b, m2
  <2>4. Told(((plus \o a) \o b) \o (IF yes THEN <<flag>> ELSE <<>>), values,
             IF yes /\ flag \in {"k", "l"} THEN used + 1 ELSE used, more)
    BY <1>3, <2>1, ToldMaybe
  <2> HIDE DEF e, m3, more
  <2> QED BY <2>1, <2>2, <2>3, <2>4
<1>10. \E used : Told((((plus \o a) \o b) \o e) \o f, values, used, m4)
  <2> DEFINE yes == (m.limit # NoLimit)
             flag == "l"
             used == KeysTold(m)
             more == IF yes THEN Adding(m3, flag, values[used + 1]) ELSE m3
  <2>1. yes \in BOOLEAN /\ flag \in Flags \ {"o"} /\ used \in Nat
        /\ flag \in {"k", "l"} /\ Told(((plus \o a) \o b) \o e, values, used, m3)
        /\ (yes => used < Len(values) /\ values[used + 1] # <<>>)
    BY <1>3, <1>4, <1>5, <1>9
  <2>2. more = m4
    <3>1. CASE yes
      BY <1>3, <3>1 DEF Adding
    <3>2. CASE ~ yes
      BY <3>2
    <3> QED BY <3>1, <3>2
  <2>3. f = IF yes THEN <<flag>> ELSE <<>>
    OBVIOUS
  <2> HIDE DEF yes, flag, used, a, b, e, m3
  <2>4. Told((((plus \o a) \o b) \o e) \o (IF yes THEN <<flag>> ELSE <<>>), values,
             IF yes /\ flag \in {"k", "l"} THEN used + 1 ELSE used, more)
    BY <1>3, <2>1, ToldMaybe
  <2> HIDE DEF f, m4, more
  <2> QED BY <2>1, <2>2, <2>3, <2>4
<1> QED BY <1>1, <1>2, <1>10
(* Read as changes to a new channel, they are the modes.                   *)
LEMMA ReplyRead ==
    ASSUME NEW m, ModesType(m), NEW values, values = ReplyValues(m),
           NEW text, text = ReplyFlags(m)
    PROVE  /\ text \in Seq(FlagCharacters) /\ text # <<>>
           /\ ModesAfter(Meant(text, values), NewModes) = m
<1>1. PICK used : Told(text, values, used, m)
  BY ReplyTold
<1>2. /\ text \in Seq(FlagCharacters) /\ text # <<>>
  BY <1>1 DEF Told
<1>3. PICK done \in Seq(Additions) :
        /\ Stands(ParsedAll(text, values), TRUE, used, done)
        /\ ModesAfter(MeantOf(done), NewModes) = m
  BY <1>1 DEF Told
<1>4. ChangesIn(text, values) = done
  <2> DEFINE D == Seq(Characters)
             C == FlagCharacters
             adding == TRUE
  <2>1. values \in Seq(D) /\ text \in Seq(C)
        /\ Stands(ParsedAll(text, values), adding, used, done)
    BY <1>2, <1>3, ReplyValuesAre
  <2> HIDE DEF C, D, adding
  <2> QED BY <2>1, StandsRead
<1>5. Meant(text, values) = MeantOf(done)
  BY <1>4 DEF Meant, MeantOf
<1> QED BY <1>2, <1>3, <1>5

LEMMA NumberMiddle ==
    LET command == <<"3", "2", "4">>
    IN  command \in Seq(Characters) /\ IsMiddle(command)
<1> DEFINE command == <<"3", "2", "4">>
<1>1. "3" \in Characters /\ "2" \in Characters /\ "4" \in Characters
  BY DEF Characters
<1>2. command \in Seq(Characters)
  <2> HIDE DEF Characters
  <2> QED BY <1>1
<1>3. Space # "3" /\ Space # "2" /\ Space # "4"
  BY Zenon DEF Space
<1>4. /\ command # <<>> /\ command[1] # ":" /\ DOMAIN command = 1..3
      /\ command[1] # Space /\ command[2] # Space /\ command[3] # Space
  BY <1>3
<1>5. \A n \in 1..3 : n = 1 \/ n = 2 \/ n = 3
  OBVIOUS
<1> HIDE DEF command
<1>6. IsMiddle(command)
  BY <1>4, <1>5 DEF IsMiddle
<1> QED BY <1>2, <1>6 DEF command

(* The reply that a client gets names the modes that are in force.         *)
LEMMA ReplyHeard ==
    ASSUME ModesType(modes), NEW c \in Clients, NEW line, line = ModeIs(c), line # Throws
    PROVE  /\ Heard(line)[3] = ReplyFlags(modes)
           /\ SubSeq(Heard(line), 4, Len(Heard(line))) = ReplyValues(modes)
<1> DEFINE C == Characters
           D == Seq(C)
           command == <<"3", "2", "4">>
           flags == ReplyFlags(modes)
           values == ReplyValues(modes)
           front == <<Nick[c], Channel, flags>>
           texts == front \o values
           colon == FALSE
<1>1. flags \in D
  <2>1. flags \in Seq(FlagCharacters)
    BY ReplyRead
  <2> QED BY <2>1, FlagsWider
<1>2. values \in Seq(D)
  BY ReplyValuesAre
<1>3. Nick[c] \in D /\ Channel \in D
  BY SentCharacters
<1>4. line = serialize(Server, command, texts, colon)
  BY DEF ModeIs, ReplyFlags, ReplyValues
<1> HIDE DEF flags, values
<1>5. front \in Seq(D) /\ Len(front) = 3 /\ front[3] = flags
  <2> HIDE DEF D
  <2> QED BY <1>1, <1>3
<1> HIDE DEF front
<1>6. texts \in Seq(D) /\ texts[3] = front[3]
  <2> HIDE DEF D
  <2>1. /\ front \o values \in Seq(D)
        /\ \A i \in 1..Len(front) : (front \o values)[i] = front[i]
    BY <1>2, <1>5, CharacterAt
  <2>2. 3 \in 1..Len(front)
    BY <1>5
  <2>3. (front \o values)[3] = front[3]
    BY <2>1, <2>2
  <2> QED BY <2>1, <2>3
<1>7. SubSeq(texts, 4, Len(texts)) = values
  <2> HIDE DEF D
  <2>1. SubSeq(front \o values, Len(front) + 1, Len(front \o values)) = values
    BY <1>2, <1>5, SubSeqAdded
  <2>2. Len(front) + 1 = 4
    BY <1>5
  <2> QED BY <2>1, <2>2
<1>8. /\ Server \in Seq(C) /\ \A i \in DOMAIN Server : Server[i] # Space
      /\ command \in Seq(C) /\ IsMiddle(command)
      /\ Space \in C /\ ":" \in C /\ Terminator \in Seq(C)
  BY SentCharacters, NumberMiddle, NamesAssumption DEF IsMiddle
<1> HIDE DEF command, C, colon, texts
<1>9. Heard(line) = texts
  <2>1. params(SubSeq(line, 1, Len(line) - 2)) = texts
    BY <1>4, <1>6, <1>8, ReadBack
  <2> QED BY <2>1 DEF Heard
<1> QED BY <1>5, <1>6, <1>7, <1>9 DEF flags, values

LEMMA ReplyShows ==
    ASSUME ModesType(modes), NEW c \in Clients, ModeIs(c) # Throws, NEW picture
    PROVE  ReadsReply(picture, ModeIs(c)) = [picture EXCEPT !.modes = <<modes>>]
<1> DEFINE heard == Heard(ModeIs(c))
<1>1. heard[3] = ReplyFlags(modes) /\ SubSeq(heard, 4, Len(heard)) = ReplyValues(modes)
  BY ReplyHeard
<1>2. ModesAfter(Meant(ReplyFlags(modes), ReplyValues(modes)), NewModes) = modes
  BY ReplyRead
<1> QED BY <1>1, <1>2 DEF ReadsReply

-----------------------------------------------------------------------------
(* Nothing that is done leaves a picture wrong.                            *)

(* The lines that announce what may be changed now are not too long.       *)
AnnouncementsFit ==
    \A c \in Clients, request \in Requests :
        MayChange(c, request) /\ Accepted(request) =>
            AnnouncementFits(c, Operations(request))

LEMMA ScreensInit == Init => ScreensRight
BY DEF Init, ScreensRight

LEMMA ScreensThrow ==
    ASSUME Inv, ScreensRight, NEW c \in Clients, Throw(c),
           UNCHANGED <<members, operators, modes>>
    PROVE  ScreensRight'
<1>1. \A d \in Clients \ {c} : screen'[d] = screen[d]
  BY DEF Throw, Inv
<1>2. marked' = marked \cup {c} /\ members \subseteq Clients
  BY DEF Throw, Inv
<1>3. \A d \in members' \ marked' : d \in Clients \ {c} /\ d \in members \ marked
  BY <1>2
<1> QED BY <1>1, <1>3 DEF ScreensRight

LEMMA ScreensQuery ==
    ASSUME Inv, ScreensRight, NEW c \in Clients, NEW request \in Requests,
           QueryModes(c, request)
    PROVE  ScreensRight'
<1>1. UNCHANGED <<members, operators, modes>> /\ ModesType(modes)
      /\ members \subseteq Clients
  BY DEF QueryModes, Inv
<1>2. CASE ModeIs(c) = Throws
  <2>1. Throw(c)
    BY <1>2 DEF QueryModes
  <2> QED BY <1>1, <2>1, ScreensThrow
<1>3. CASE ModeIs(c) # Throws
  <2> DEFINE picture == ReadsReply(screen[c], ModeIs(c))
  <2>1. marked' = marked
        /\ screen' = IF c \in members THEN [screen EXCEPT ![c] = picture] ELSE screen
    BY <1>3 DEF QueryModes
  <2>2. picture = [screen[c] EXCEPT !.modes = <<modes>>]
    BY <1>1, <1>3, ReplyShows
  <2>3. picture.operators = screen[c].operators /\ picture.modes = <<modes>>
    <3>1. screen[c] = [operators |-> screen[c].operators, modes |-> screen[c].modes]
      BY DEF Inv, Picture
    <3> QED BY <2>2, <3>1
  <2> HIDE DEF picture
  <2>4. \A d \in members : screen'[d] = screen[d] \/ (d = c /\ screen'[d] = picture)
    BY <1>1, <2>1 DEF Inv
  <2>5. \A d \in members \ marked : screen'[d].operators = operators
           /\ screen'[d].modes \in {Unknown, <<modes>>}
    BY <2>3, <2>4 DEF ScreensRight
  <2> QED BY <1>1, <2>1, <2>5 DEF ScreensRight
<1> QED BY <1>2, <1>3

LEMMA ScreensChange ==
    ASSUME Inv, ScreensRight, NEW c \in Clients, NEW request \in Requests,
           Change(c, request), AnnouncementFits(c, Operations(request))
    PROVE  ScreensRight'
<1> DEFINE operations == Operations(request)
           texts == SubSeq(request, 3, Len(request))
           channel == applyChannelModeOperations(operations)
           line == Announcement(c, operations)
           heard == Heard(line)
           changes == Meant(heard[2], SubSeq(heard, 3, Len(heard)))
           meant == Meant(request[2], texts)
<1>1. /\ ~IsQuery(request) /\ Accepted(request) /\ operations # <<>>
      /\ AnnouncementFits(c, operations)
  BY DEF Change, MayChange
<1>2. /\ line # Throws
      /\ heard[2] = Flagged(operations)
      /\ SubSeq(heard, 3, Len(heard)) = Arguments(operations)
  <2> HIDE DEF operations
  <2>1. operations = Operations(request)
    BY DEF operations
  <2> HIDE DEF line
  <2>2. line = Announcement(c, operations)
    BY DEF line
  <2> QED BY <1>1, <2>1, <2>2, AnnouncementHeard
<1>3. Meant(Flagged(operations), Arguments(operations)) = meant
  BY <1>1, OperationsMeant
<1>4. changes = meant
  BY <1>2, <1>3
<1>5. /\ channel.modes = ModesAfter(meant, modes)
      /\ channel.operators = OperatorsAfter(meant, members, operators)
  <2>1. operators \subseteq members /\ ModesForm(modes)
    BY DEF Inv, ModesType
  <2> QED BY <1>1, <2>1, AcceptedDoes
<1>6. /\ modes' = channel.modes /\ operators' = channel.operators /\ members' = members
      /\ screen' = [d \in Clients |->
            IF d \in members \ marked THEN Reads(screen[d], changes) ELSE screen[d]]
      /\ marked' = marked
  BY <1>2 DEF Change, Audience
<1> HIDE DEF channel, line, heard, changes, meant
<1>7. members \subseteq Clients
  BY DEF Inv
<1> SUFFICES ASSUME NEW d \in members \ marked
             PROVE  /\ screen'[d].operators = operators'
                    /\ screen'[d].modes \in {Unknown, <<modes'>>}
  BY <1>6 DEF ScreensRight
<1>8. screen'[d] = Reads(screen[d], meant)
  BY <1>4, <1>6, <1>7
<1>9. screen[d].operators = operators /\ screen[d].modes \in {Unknown, <<modes>>}
  BY DEF ScreensRight
<1>10. screen'[d].operators = operators'
  BY <1>5, <1>6, <1>8, <1>9 DEF Reads
<1>11. screen'[d].modes =
         IF screen[d].modes = Unknown THEN Unknown
         ELSE <<ModesAfter(meant, screen[d].modes[1])>>
  BY <1>8 DEF Reads
<1>12. screen'[d].modes \in {Unknown, <<modes'>>}
  BY <1>5, <1>6, <1>9, <1>11
<1> QED BY <1>10, <1>12

(* A change whose announcement is too long for a line.                     *)
ChangedInSilence ==
    \E c \in Clients, request \in Requests :
        Change(c, request) /\ ~AnnouncementFits(c, Operations(request))

LEMMA ScreensNext ==
    Inv /\ ScreensRight /\ [Next]_vars => ScreensRight' \/ ChangedInSilence
<1> SUFFICES ASSUME Inv, ScreensRight, [Next]_vars, ~ChangedInSilence PROVE ScreensRight'
  OBVIOUS
<1>1. CASE UNCHANGED vars
  BY <1>1 DEF vars, ScreensRight
<1>2. ASSUME NEW c \in Clients, NEW request \in Requests, handleMode(c, request)
      PROVE  ScreensRight'
  <2>1. CASE QueryModes(c, request)
    BY <2>1, ScreensQuery
  <2>2. CASE NoSuchChannel(c, request)
    <3>1. Throw(c) /\ UNCHANGED <<members, operators, modes>>
      BY <2>2 DEF NoSuchChannel
    <3> QED BY <3>1, ScreensThrow
  <2>3. CASE RefuseChange(c, request)
    <3>1. Throw(c) /\ UNCHANGED <<members, operators, modes>>
      BY <2>3 DEF RefuseChange
    <3> QED BY <3>1, ScreensThrow
  <2>4. CASE Change(c, request)
    <3>1. AnnouncementFits(c, Operations(request))
      BY <2>4 DEF ChangedInSilence
    <3> QED BY <2>4, <3>1, ScreensChange
  <2> QED BY <1>2, <2>1, <2>2, <2>3, <2>4 DEF handleMode
<1> QED BY <1>1, <1>2 DEF Next

LEMMA NoSilence == AnnouncementsFit => ~ChangedInSilence
BY DEF AnnouncementsFit, ChangedInSilence, Change

(* No other step misleads anybody: screens that are right become wrong by  *)
(* a change whose announcement is too long for a line, whatever keys,      *)
(* names and limits are (notifyChannelModeChanges, sendChannelModeIs).     *)
OnlySilenceMisleads == [][ScreensRight => ScreensRight' \/ ChangedInSilence]_vars

THEOREM MisledBySilenceOnly == Spec => OnlySilenceMisleads
<1>1. Inv /\ [Next]_vars => [ScreensRight => ScreensRight' \/ ChangedInSilence]_vars
  BY ScreensNext
<1> QED BY <1>1, InvInit, InvNext, PTL DEF Spec, OnlySilenceMisleads

(* As long as the announcement of what may be changed is a line that fits, *)
(* every member shows the operators and, once it has asked, the modes that *)
(* the channel has: an announcement is read back as the changes that were  *)
(* applied, and a reply as the modes in force                              *)
(* (notifyChannelModeChanges, sendChannelModeIs, MessageParser::parse).    *)
THEOREM ScreensStayRight == Spec /\ []AnnouncementsFit => []ScreensRight
BY InvInit, InvNext, ScreensInit, ScreensNext, NoSilence, PTL DEF Spec

-----------------------------------------------------------------------------
(* What the bot says fits.                                                 *)

LEMMA SayingMiddle ==
    LET command == <<"P", "R", "I", "V", "M", "S", "G">>
    IN  command \in Seq(Characters) /\ IsMiddle(command) /\ Len(command) = 7
<1> DEFINE command == <<"P", "R", "I", "V", "M", "S", "G">>
<1>1. /\ "P" \in Characters /\ "R" \in Characters /\ "I" \in Characters
      /\ "V" \in Characters /\ "M" \in Characters /\ "S" \in Characters
      /\ "G" \in Characters
  BY DEF Characters
<1>2. command \in Seq(Characters)
  <2> HIDE DEF Characters
  <2> QED BY <1>1
<1>3. /\ Space # "P" /\ Space # "R" /\ Space # "I" /\ Space # "V" /\ Space # "M"
      /\ Space # "S" /\ Space # "G"
  BY Zenon DEF Space
<1>4. /\ command # <<>> /\ command[1] # ":" /\ DOMAIN command = 1..7
      /\ command[1] # Space /\ command[2] # Space /\ command[3] # Space
      /\ command[4] # Space /\ command[5] # Space /\ command[6] # Space
      /\ command[7] # Space /\ Len(command) = 7
  BY <1>3
<1>5. \A n \in 1..7 : n = 1 \/ n = 2 \/ n = 3 \/ n = 4 \/ n = 5 \/ n = 6 \/ n = 7
  OBVIOUS
<1> HIDE DEF command
<1>6. IsMiddle(command)
  BY <1>4, <1>5 DEF IsMiddle
<1> QED BY <1>2, <1>4, <1>6 DEF command

(* The length of a line that carries one text to a target.                 *)
SaidLong(line, prefix, command, target, text) ==
    Len(line) = Len(prefix) + Len(command) + Len(target) + 7 + Len(text)

LEMMA SaidLength ==
    ASSUME NEW C, Space \in C, ":" \in C, Terminator \in Seq(C),
           NEW prefix \in Seq(C), prefix # <<>>, NEW command \in Seq(C),
           NEW target \in Seq(C), IsMiddle(target), NEW text \in Seq(C),
           NEW texts, texts = <<target, text>>, NEW trailing, trailing = TRUE
    PROVE  /\ texts \in Seq(Seq(C)) /\ ~Unwritable(texts)
           /\ SaidLong(LineOf(prefix, command, texts, trailing),
                       prefix, command, target, text)
<1> DEFINE D == Seq(C)
           parts == PartsOf(texts, trailing)
           space == <<Space>>
           mark == <<Space, ":">>
           one == space \o target
           two == mark \o text
           whole == LineOf(prefix, command, texts, trailing)
<1>1. texts \in Seq(D) /\ Len(texts) = 2 /\ texts[1] = target /\ texts[2] = text
      /\ DOMAIN texts = 1..2
  <2> HIDE DEF D
  <2>1. target \in D /\ text \in D
    BY DEF D
  <2> QED BY <2>1
<1>2. ~Unwritable(texts)
  BY <1>1 DEF Unwritable
<1>3. parts \in Seq(D) /\ Len(parts) = 2
  BY <1>1, PartsType
<1>4. parts[1] = one /\ parts[2] = two
  BY <1>1 DEF PartsOf, Written
<1>5. /\ space \in Seq(C) /\ Len(space) = 1 /\ mark \in Seq(C) /\ Len(mark) = 2
      /\ Len(target) \in Nat /\ Len(text) \in Nat
  OBVIOUS
<1> HIDE DEF parts, space, mark
<1>6. one \in Seq(C) /\ Len(one) = 1 + Len(target)
  <2>1. Concatenated(C, space, target)
    BY <1>5, Concatenation
  <2> QED BY <1>5, <2>1 DEF Concatenated
<1>7. two \in Seq(C) /\ Len(two) = 2 + Len(text)
  <2>1. Concatenated(C, mark, text)
    BY <1>5, Concatenation
  <2> QED BY <1>5, <2>1 DEF Concatenated
<1> HIDE DEF one, two, whole
<1>8. PICK J \in Joined(C, parts) : FlattenSeq(parts) = J[Len(parts)]
  BY <1>3, FlattenJoined
<1>9. /\ J[0] = <<>> /\ J[1] = J[0] \o parts[1] /\ J[2] = J[1] \o parts[2]
      /\ J[1] \in Seq(C)
  <2>1. /\ J \in [0..2 -> Seq(C)] /\ J[0] = <<>>
        /\ \A n \in 1..2 : J[n] = J[n - 1] \o parts[n]
    BY <1>3, <1>8 DEF Joined
  <2>2. 1 \in 1..2 /\ 2 \in 1..2
    OBVIOUS
  <2>4. J[1] = J[1 - 1] \o parts[1]
    BY <2>1, <2>2
  <2>5. J[2] = J[2 - 1] \o parts[2]
    BY <2>1, <2>2
  <2>3. 1 - 1 = 0 /\ 2 - 1 = 1 /\ 1 \in 0..2
    OBVIOUS
  <2> QED BY <2>1, <2>3, <2>4, <2>5
<1>10. Len(J[1]) = 1 + Len(target)
  <2>1. <<>> \in Seq(C) /\ Len(<<>>) = 0
    OBVIOUS
  <2>2. J[1] = <<>> \o one
    BY <1>4, <1>9
  <2>3. Concatenated(C, <<>>, one)
    BY <1>6, <2>1, Concatenation
  <2> QED BY <1>5, <1>6, <2>1, <2>2, <2>3 DEF Concatenated
<1>11. Len(FlattenSeq(parts)) = Len(target) + Len(text) + 3
  <2>1. FlattenSeq(parts) = J[1] \o two
    BY <1>3, <1>4, <1>8, <1>9
  <2>2. Concatenated(C, J[1], two)
    BY <1>7, <1>9, Concatenation
  <2> QED BY <1>5, <1>7, <1>10, <2>1, <2>2 DEF Concatenated
<1>12. Len(HeadOf(prefix, command)) = Len(prefix) + Len(command) + 2
  BY HeadType
<1>13. Len(whole) = Len(HeadOf(prefix, command)) + Len(FlattenSeq(parts)) + 2
  <2>1. texts \in Seq(Seq(C))
    BY <1>1
  <2>2. AsLong(LineOf(prefix, command, texts, trailing), HeadOf(prefix, command),
               FlattenSeq(PartsOf(texts, trailing)))
    BY <2>1, LineWritten
  <2> QED BY <2>2 DEF whole, parts, AsLong
<1>14. Len(prefix) \in Nat /\ Len(command) \in Nat
  OBVIOUS
<1>15. Len(whole) = Len(prefix) + Len(command) + Len(target) + 7 + Len(text)
  BY <1>5, <1>11, <1>12, <1>13, <1>14
<1> QED BY <1>1, <1>2, <1>15 DEF whole, SaidLong

SayingTakes(length, prefix, command, target, text) ==
    length = Len(prefix) + Len(command) + Len(target) + 7 + Len(text)

Says(line, prefix, command, target, text) ==
    line = serialize(prefix, command, <<target, text>>, TRUE)

SaidAs(line, length, target, text) ==
    /\ line # Throws /\ Len(line) = length
    /\ params(SubSeq(line, 1, Len(line) - 2)) = <<target, text>>

(* The line of one text: an exception when it is too long, and otherwise   *)
(* read back.                                                              *)
LEMMA SaidRead ==
    ASSUME NEW C, Space \in C, ":" \in C, Terminator \in Seq(C),
           NEW prefix \in Seq(C), prefix # <<>>,
           \A i \in DOMAIN prefix : prefix[i] # Space,
           NEW command \in Seq(C), IsMiddle(command),
           NEW target \in Seq(C), IsMiddle(target), NEW text \in Seq(C),
           NEW length, SayingTakes(length, prefix, command, target, text),
           NEW line, Says(line, prefix, command, target, text)
    PROVE  /\ length > MaxLine => line = Throws
           /\ length <= MaxLine => SaidAs(line, length, target, text)
<1> DEFINE texts == <<target, text>>
           trailing == TRUE
           whole == LineOf(prefix, command, texts, trailing)
<1>1. line = serialize(prefix, command, texts, trailing) /\ trailing = TRUE
      /\ texts = <<target, text>> /\ whole = LineOf(prefix, command, texts, trailing)
  BY DEF Says
<1> HIDE DEF texts, trailing, whole
<1>2. texts \in Seq(Seq(C)) /\ ~Unwritable(texts) /\ Len(whole) = length
  <2>1. texts = <<target, text>> /\ trailing = TRUE
    BY <1>1
  <2>2. texts \in Seq(Seq(C)) /\ ~Unwritable(texts)
    BY <2>1, SaidLength
  <2>3. SaidLong(LineOf(prefix, command, texts, trailing), prefix, command, target, text)
    BY <2>1, SaidLength
  <2> QED BY <1>1, <2>2, <2>3 DEF SaidLong, SayingTakes
<1>3. /\ line = IF Unwritable(texts) \/ Len(whole) > MaxLine THEN Throws ELSE whole
      /\ whole # Throws
  <2>1. texts \in Seq(Seq(C))
    BY <1>2
  <2>2. serialize(prefix, command, texts, trailing) =
          IF Unwritable(texts) \/ Len(whole) > MaxLine THEN Throws ELSE whole
    BY <2>1, LineWritten DEF whole
  <2>3. whole # Throws
    BY <2>1, LineWritten DEF whole
  <2> QED BY <1>1, <2>2, <2>3
<1>4. length \in Nat /\ MaxLine \in Nat
  BY LineAssumption DEF SayingTakes
<1>5. line # Throws => params(SubSeq(line, 1, Len(line) - 2)) = texts
  BY <1>1, <1>2, ReadBack
<1>6. length > MaxLine <=> ~ (length <= MaxLine)
  BY <1>4
<1> QED BY <1>1, <1>2, <1>3, <1>5, <1>6 DEF SaidAs
LEMMA WholePart ==
    ASSUME NEW C, NEW text \in Seq(C)
    PROVE  SubSeq(text, 1, Len(text)) = text
<1> DEFINE n == Len(text)
           part == SubSeq(text, 1, n)
<1>1. n \in Nat /\ \A k \in 1..n : text[k] \in C
  BY ElementOfSeq
<1>2. /\ part \in Seq(C) /\ Len(part) = (IF 1 <= n THEN n - 1 + 1 ELSE 0)
      /\ \A k \in 1..(n - 1 + 1) : part[k] = text[1 + k - 1]
  BY <1>1, SubSeqProperties
<1>3. n - 1 + 1 = n /\ \A k \in 1..n : 1 + k - 1 = k
  BY <1>1
<1> HIDE DEF part
<1>4. Len(part) = n /\ \A k \in 1..n : part[k] = text[k]
  BY <1>1, <1>2, <1>3
<1>5. part = text
  BY <1>2, <1>4, SeqEqual
<1> QED BY <1>5 DEF part

LEMMA FirstPart ==
    ASSUME NEW C, NEW text \in Seq(C), NEW k \in 0..Len(text)
    PROVE  SubSeq(text, 1, k) \in Seq(C) /\ Len(SubSeq(text, 1, k)) = k
<1>1. Len(text) \in Nat /\ \A i \in 1..k : text[i] \in C
  BY ElementOfSeq
<1> QED BY <1>1, SubSeqProperties

(* Wherever clipTrailing() cuts.                                           *)
LEMMA AnswerFitsAnyone ==
    ASSUME NEW target \in Seq(Characters), IsMiddle(target)
    PROVE  AnswerFits(target)
<1> SUFFICES ASSUME NEW prefix \in BotPrefixes, NEW text \in Sayings
             PROVE  LET command == <<"P", "R", "I", "V", "M", "S", "G">>
                        line == sendText(prefix, command, target, text)
                        heard == params(SubSeq(line, 1, Len(line) - 2))
                    IN  IF line = Silence
                        THEN \/ text = <<>>
                             \/ serialize(prefix, command, <<target, <<Head(text)>>>>,
                                          TRUE) = Throws
                        ELSE /\ line # Throws
                             /\ heard[1] = target /\ Len(heard) = 2
                             /\ IsPrefix(heard[2], text)
                             /\ heard[2] # text => Len(line) = MaxLine
  BY DEF AnswerFits
<1> DEFINE C == Characters
           command == <<"P", "R", "I", "V", "M", "S", "G">>
           line == sendText(prefix, command, target, text)
           heard == params(SubSeq(line, 1, Len(line) - 2))
           overhead == Len(prefix) + Len(command) + Len(target) + 7
           room == MaxLine - overhead
           k == Min({Len(text), room})
           clipped == IF overhead >= MaxLine THEN <<>> ELSE SubSeq(text, 1, k)
<1>1. /\ prefix \in Seq(C) /\ prefix # <<>> /\ \A i \in DOMAIN prefix : prefix[i] # Space
      /\ text \in Seq(C)
  <2>1. prefix \in Seq(STRING) /\ text \in Seq(STRING)
    BY BotAssumption
  <2>2. prefix \in Seq(Characters) /\ text \in Seq(Characters)
    BY <2>1, SentCharacters
  <2> QED BY <2>2, BotAssumption
<1>2. command \in Seq(C) /\ IsMiddle(command)
  BY SayingMiddle
<1>3. Space \in C /\ ":" \in C /\ Terminator \in Seq(C) /\ target \in Seq(C)
  BY SentCharacters
<1>4. clipped = clipTrailing(prefix, command, target, text)
  BY DEF clipTrailing, Overhead
<1>5. line = IF clipped = <<>> THEN Silence
             ELSE serialize(prefix, command, <<target, clipped>>, TRUE)
  BY <1>4 DEF sendText
<1> HIDE DEF C, command, line
<1>6. overhead \in Nat /\ MaxLine \in Nat /\ Len(text) \in Nat
  BY <1>1, <1>2, <1>3, LineAssumption
<1> HIDE DEF overhead, k
<1>7. ~ (overhead >= MaxLine) =>
        /\ k \in 0..Len(text) /\ k <= room /\ k \in {Len(text), room} /\ room \in Nat \ {0}
  <2> HAVE ~ (overhead >= MaxLine)
  <2>1. room \in Nat \ {0}
    BY <1>6
  <2> DEFINE S == {Len(text), room}
  <2>2. S \subseteq Nat /\ S # {}
    BY <1>6, <2>1
  <2> HIDE DEF S, room
  <2>3. Min(S) \in S /\ \A s \in S : Min(S) <= s
    BY <2>2, MinIsIn
  <2>4. k = Min(S)
    BY DEF k, S
  <2>5. k \in {Len(text), room} /\ k <= Len(text) /\ k <= room
    BY <2>3, <2>4 DEF S
  <2> QED BY <1>6, <2>1, <2>5
<1>8. CASE clipped = <<>>
  <2>1. line = Silence
    BY <1>5, <1>8
  <2>2. ASSUME text # <<>>
        PROVE  serialize(prefix, command, <<target, <<Head(text)>>>>, TRUE) = Throws
    <3> DEFINE one == <<Head(text)>>
               length == Len(prefix) + Len(command) + Len(target) + 7 + Len(one)
               said == serialize(prefix, command, <<target, one>>, TRUE)
    <3>1. Len(text) # 0 /\ Head(text) \in C
      BY <1>1, <2>2, EmptySeq
    <3>2. one \in Seq(C) /\ Len(one) = 1
      BY <3>1
    <3>3. overhead >= MaxLine
      <4> SUFFICES ASSUME ~ (overhead >= MaxLine) PROVE FALSE
        OBVIOUS
      <4>1. k \in 0..Len(text) /\ k # 0
        BY <1>6, <1>7, <3>1
      <4>2. Len(SubSeq(text, 1, k)) = k
        BY <1>1, <4>1, FirstPart
      <4>3. SubSeq(text, 1, k) = <<>>
        BY <1>8
      <4>4. Len(<<>>) = 0
        OBVIOUS
      <4> QED BY <4>1, <4>2, <4>3, <4>4
    <3> HIDE DEF one
    <3>4. length > MaxLine
      BY <1>6, <3>2, <3>3 DEF overhead
    <3> HIDE DEF length
    <3>5. said = Throws
      <4>1. SayingTakes(length, prefix, command, target, one)
        BY DEF length, SayingTakes
      <4>2. Says(said, prefix, command, target, one)
        BY DEF Says
      <4> HIDE DEF said
      <4> QED BY <1>1, <1>2, <1>3, <3>2, <3>4, <4>1, <4>2, SaidRead
    <3> QED BY <3>5 DEF one
  <2> QED BY <2>1, <2>2 DEF command, line
<1>9. CASE clipped # <<>>
  <2> DEFINE length == Len(prefix) + Len(command) + Len(target) + 7 + Len(clipped)
  <2>1. ~ (overhead >= MaxLine) /\ clipped = SubSeq(text, 1, k)
    BY <1>9
  <2>2. clipped \in Seq(C) /\ Len(clipped) = k
    BY <1>1, <1>7, <2>1, FirstPart
  <2>3. line = serialize(prefix, command, <<target, clipped>>, TRUE)
    BY <1>5, <1>9
  <2> HIDE DEF clipped
  <2>4. length = overhead + k
    BY <2>2 DEF overhead
  <2>5. length <= MaxLine
    BY <1>6, <1>7, <2>1, <2>4
  <2>6. SayingTakes(length, prefix, command, target, clipped)
    BY DEF SayingTakes
  <2> HIDE DEF length
  <2>7. /\ line # Throws /\ Len(line) = length
        /\ params(SubSeq(line, 1, Len(line) - 2)) = <<target, clipped>>
    <3>1. Says(line, prefix, command, target, clipped)
      BY <2>3 DEF Says
    <3>2. SaidAs(line, length, target, clipped)
      BY <1>1, <1>2, <1>3, <2>2, <2>5, <2>6, <3>1, SaidRead
    <3> QED BY <3>2 DEF SaidAs
  <2>8. line # Silence
    <3>1. length # 1
      BY <1>1, <1>2, <1>3, <2>2, <2>6 DEF SayingTakes
    <3>2. Len(Silence) = 1
      BY DEF Silence
    <3> QED BY <2>7, <3>1, <3>2, Zenon
  <2>9. heard[1] = target /\ Len(heard) = 2 /\ heard[2] = clipped
    BY <2>7
  <2>10. IsPrefix(clipped, text)
    <3>1. SubSeq(clipped, 1, Len(clipped)) = clipped
      BY <2>2, WholePart
    <3>2. Len(clipped) <= Len(text)
      BY <1>6, <1>7, <2>1, <2>2
    <3> QED BY <2>1, <2>2, <3>1, <3>2 DEF IsPrefix
  <2>11. clipped # text => Len(line) = MaxLine
    <3>1. k = Len(text) => clipped = text
      BY <1>1, <2>1, WholePart
    <3>2. k = room => length = MaxLine
      BY <1>6, <2>4
    <3> QED BY <1>7, <2>1, <2>7, <3>1, <3>2
  <2> HIDE DEF heard
  <2>12. IF line = Silence
         THEN \/ text = <<>>
              \/ serialize(prefix, command, <<target, <<Head(text)>>>>, TRUE) = Throws
         ELSE /\ line # Throws
              /\ heard[1] = target /\ Len(heard) = 2
              /\ IsPrefix(heard[2], text)
              /\ heard[2] # text => Len(line) = MaxLine
    BY <2>7, <2>8, <2>9, <2>10, <2>11
  <2> QED BY <2>12 DEF heard, line, command
<1> QED BY <1>8, <1>9

(* Whatever the bot wants to say, in the channel or to a member, it says   *)
(* in a line that carries as much of it as fits, for every length of the   *)
(* line, the bot's prefix and the name (Bot::clipTrailing, Bot::sendText). *)
THEOREM AnswersAlwaysFit == Spec => []AnswersFit
<1>1. Inv => AnswersFit
  <2> SUFFICES ASSUME Inv PROVE AnswersFit
    OBVIOUS
  <2>1. AnswerFits(Channel)
    BY SentCharacters, NamesAssumption, AnswerFitsAnyone
  <2>2. \A c \in Clients : AnswerFits(Nick[c])
    BY SentCharacters, NickAssumption, AnswerFitsAnyone
  <2>3. members \subseteq Clients
    BY DEF Inv
  <2> QED BY <2>1, <2>2, <2>3 DEF AnswersFit, Answered
<1> QED BY <1>1, InvAlways, PTL
=============================================================================
