----------------------------- MODULE WireProofs -----------------------------
(***************************************************************************)
(* Theorems about Wire: Credentials for every name and every password,     *)
(* RequestStream for every request and every way the bytes may arrive, and *)
(* Framing for every reply of Protocol.cpp, lists of any length included.  *)
(*                                                                         *)
(* The third part has three layers: what the recursive definitions of      *)
(* Framing compute (Digits, NumberAt, EntriesEnd, FlattenSeq), by          *)
(* induction; from these, for each response, that a client finds its end   *)
(* whatever follows it; and the invariant of the stream that this keeps.   *)
(***************************************************************************)
EXTENDS Wire, WellFoundedInduction, TLAPS

\* The classes of the first n characters.
ClassesOf(text, n) == {text[k] : k \in 1..n}

\* The counters and flags say what the walk has passed.
SeenSoFar ==
    pc \in {"password", "username"} => seen = ClassesOf(Walked, i - 1)

\* What is known of the password when its walk is over, and of the name.
DecidedSoFar ==
    /\ pc \in {"password", "username", "database"} => reply = None
    /\ pc \in {"username", "database"} => PasswordPolicy(password)
    /\ pc = "database" => username # <<>> /\ username[1] \in Letters
    /\ pc = "done" =>
          \/ reply = 1 /\ ~PasswordPolicy(password)
          \/ /\ reply = 3 /\ PasswordPolicy(password)
             /\ ~(username # <<>> /\ username[1] \in Letters)
          \/ /\ reply \in {0, 4} /\ PasswordPolicy(password)
             /\ username # <<>> /\ username[1] \in Letters

Inv == TypeOK /\ SeenSoFar /\ DecidedSoFar
-----------------------------------------------------------------------------
\* After the last character nothing is left out.
LEMMA AllClasses ==
    ASSUME NEW text \in Seq(Class)
    PROVE  ClassesOf(text, Len(text)) = ToSet(text)
BY DEF ClassesOf, ToSet

LEMMA OneMore ==
    ASSUME NEW text, NEW n \in Nat
    PROVE  ClassesOf(text, n + 1) = ClassesOf(text, n) \cup {text[n + 1]}
  <1>1. 1..(n + 1) = (1..n) \cup {n + 1}
    OBVIOUS
  <1> QED BY <1>1 DEF ClassesOf

LEMMA NothingYet ==
    ASSUME NEW text
    PROVE  ClassesOf(text, 1 - 1) = {}
BY DEF ClassesOf

LEMMA InitInv == CredentialsAssumption /\ Init => Inv
  <1> SUFFICES ASSUME CredentialsAssumption, Init PROVE Inv
    OBVIOUS
  <1>1. username \in Seq(Class) /\ password \in Seq(Class)
    BY DEF CredentialsAssumption, Init
  <1>2. TypeOK
    <2>1. i \in 1..(Len(Walked) + 1)
      BY <1>1 DEF Walked, Init
    <2> QED BY <1>1, <2>1 DEF TypeOK, Init
  <1>3. SeenSoFar
    BY NothingYet DEF SeenSoFar, Init
  <1>4. DecidedSoFar
    BY DEF DecidedSoFar, Init
  <1> QED BY <1>2, <1>3, <1>4 DEF Inv

LEMMA LookInv == ASSUME Inv, Look PROVE Inv'
  <1>0. TypeOK /\ SeenSoFar /\ DecidedSoFar
    BY DEF Inv
  <1>1. /\ pc \in {"password", "username"} /\ i \in 1..Len(Walked)
        /\ seen' = seen \cup {Walked[i]} /\ i' = i + 1
        /\ UNCHANGED <<username, password, pc, added, reply>>
        /\ Walked' = Walked
    BY <1>0 DEF Look, TypeOK, Counted, NextIndex, Walked
  <1>2. Walked \in Seq(Class)
    BY <1>0 DEF TypeOK, Walked
  <1>3. TypeOK'
    BY <1>0, <1>1, <1>2 DEF TypeOK
  <1>4. SeenSoFar'
    <2>1. i - 1 \in Nat /\ (i - 1) + 1 = i /\ i' - 1 = i
      BY <1>1, <1>2
    <2>2. ClassesOf(Walked, (i - 1) + 1)
             = ClassesOf(Walked, i - 1) \cup {Walked[(i - 1) + 1]}
      BY <2>1, OneMore
    <2>3. seen' = ClassesOf(Walked, i)
      BY <1>0, <1>1, <2>1, <2>2 DEF SeenSoFar
    <2>4. seen' = ClassesOf(Walked', i' - 1)
      BY <1>1, <2>1, <2>3
    <2> QED BY <2>4 DEF SeenSoFar
  <1>5. DecidedSoFar'
    BY <1>0, <1>1 DEF DecidedSoFar
  <1> QED BY <1>3, <1>4, <1>5 DEF Inv

\* At the end of its walk the whole text has been seen.
LEMMA WholeText ==
    ASSUME Inv, pc \in {"password", "username"}, i > Len(Walked)
    PROVE  seen = ToSet(Walked)
  <1>1. /\ Walked \in Seq(Class) /\ i \in 1..(Len(Walked) + 1)
        /\ seen = ClassesOf(Walked, i - 1)
    BY DEF Inv, TypeOK, SeenSoFar, Walked
  <1>2. i - 1 = Len(Walked)
    BY <1>1
  <1> QED BY <1>1, <1>2, AllClasses

LEMMA PasswordInv == ASSUME Inv, PasswordChecked PROVE Inv'
  <1>0. TypeOK /\ DecidedSoFar
    BY DEF Inv
  <1>1. /\ pc = "password" /\ i' = 1 /\ seen' = {}
        /\ UNCHANGED <<username, password, added>>
        /\ \/ PasswordValid /\ pc' = "username" /\ reply' = reply
           \/ ~PasswordValid /\ pc' = "done" /\ reply' = 1
    BY DEF PasswordChecked, Replied
  <1>2. seen = ToSet(password)
    BY <1>1, WholeText DEF PasswordChecked, Walked
  <1>3. PasswordValid <=> PasswordPolicy(password)
    BY <1>2 DEF PasswordValid, PasswordPolicy
  <1>4. TypeOK'
    BY <1>0, <1>1 DEF TypeOK, Walked
  <1>5. SeenSoFar'
    BY <1>1, NothingYet DEF SeenSoFar
  <1>6. DecidedSoFar'
    BY <1>0, <1>1, <1>3 DEF DecidedSoFar, PasswordPolicy
  <1> QED BY <1>4, <1>5, <1>6 DEF Inv

LEMMA UserNameInv == ASSUME Inv, UserNameChecked PROVE Inv'
  <1>0. TypeOK /\ DecidedSoFar
    BY DEF Inv
  <1>1. /\ pc = "username" /\ i' = 1 /\ seen' = {}
        /\ UNCHANGED <<username, password, added>>
        /\ \/ UserNameValid /\ pc' = "database" /\ reply' = reply
           \/ ~UserNameValid /\ pc' = "done" /\ reply' = 3
    BY DEF UserNameChecked, Replied
  <1>2. seen = ToSet(username)
    BY <1>1, WholeText DEF UserNameChecked, Walked
  \* The first letter is among the characters and is no space.
  <1>3. UserNameValid <=> username # <<>> /\ username[1] \in Letters
    <2>1. ASSUME username # <<>>, username[1] \in Letters
          PROVE  seen \ {"space"} # {}
      <3>1. username[1] \in ToSet(username)
        BY <1>0, <2>1 DEF TypeOK, ToSet
      <3>2. username[1] # "space"
        BY <2>1 DEF Letters
      <3> QED BY <1>2, <3>1, <3>2
    <2> QED BY <2>1 DEF UserNameValid
  <1>4. TypeOK'
    BY <1>0, <1>1 DEF TypeOK, Walked
  <1>5. SeenSoFar'
    BY <1>1, NothingYet DEF SeenSoFar
  <1>6. DecidedSoFar'
    BY <1>0, <1>1, <1>3 DEF DecidedSoFar, PasswordPolicy
  <1> QED BY <1>4, <1>5, <1>6 DEF Inv

LEMMA AddInv == ASSUME Inv, AddNewUser PROVE Inv'
  BY DEF Inv, AddNewUser, Replied, TypeOK, Walked, SeenSoFar, DecidedSoFar, PasswordPolicy

LEMMA StepInv == Inv /\ [Next]_vars => Inv'
  <1> SUFFICES ASSUME Inv, [Next]_vars PROVE Inv'
    OBVIOUS
  <1>1. CASE UNCHANGED vars
    BY <1>1 DEF vars, Inv, TypeOK, Walked, SeenSoFar, DecidedSoFar, PasswordPolicy
  <1> QED BY <1>1, LookInv, PasswordInv, UserNameInv, AddInv DEF Next
-----------------------------------------------------------------------------
\* A walk never leaves its text: the loop variable of either predicate stays
\* between the first character and the place after the last.
THEOREM SignupTypeCorrect == CredentialsAssumption /\ Spec => []TypeOK
  <1> SUFFICES ASSUME CredentialsAssumption PROVE Spec => []TypeOK
    OBVIOUS
  <1>1. Init => Inv
    BY InitInv
  <1>2. Inv => TypeOK
    BY DEF Inv
  <1> QED BY <1>1, <1>2, StepInv, PTL DEF Spec

\* A sign-up is refused for its password exactly if that breaks the policy of
\* Validator.h; it is never refused for a name that keeps it, and every name let
\* through begins with a letter, whatever the loop of isUserNameValid finds.
THEOREM SignupsAreDecided ==
    CredentialsAssumption /\ Spec => []SignupDecision
  <1> SUFFICES ASSUME CredentialsAssumption PROVE Spec => []SignupDecision
    OBVIOUS
  <1>1. Init => Inv
    BY InitInv
  <1>2. ASSUME Inv PROVE SignupDecision
    <2>1. None \notin 0..4
      BY DEF CredentialsAssumption
    <2>2. PasswordsByPolicy
      <3>1. PasswordPolicy(password) \in BOOLEAN
        BY DEF PasswordPolicy
      <3>2. pc # "password" => (reply # 1 <=> PasswordPolicy(password))
        <4>1. None # 1
          BY <2>1
        <4> QED BY <1>2, <4>1 DEF Inv, TypeOK, DecidedSoFar
      <3> QED BY <3>1, <3>2, Zenon DEF PasswordsByPolicy
    <2>3. NamesNotMisjudged
      <3>1. username # <<>> => Head(username) = username[1]
        BY <1>2 DEF Inv, TypeOK
      <3> QED BY <1>2, <3>1
          DEF Inv, DecidedSoFar, NamesNotMisjudged, NamePolicy, Accepted
    <2> QED BY <2>2, <2>3 DEF SignupDecision
  <1> QED BY <1>1, <1>2, StepInv, PTL DEF Spec
-----------------------------------------------------------------------------
(* RequestStream.  The argument: what has been read of the request that is *)
(* being built, and what has not been received, make up what was sent.     *)

\* Two sequences one after the other, taken apart again.
LEMMA Apart ==
    ASSUME NEW S, NEW a \in Seq(S), NEW b \in Seq(S)
    PROVE  /\ a \o b \in Seq(S)
           /\ Len(a \o b) = Len(a) + Len(b)
           /\ SubSeq(a \o b, 1, Len(a)) = a
           /\ SubSeq(a \o b, Len(a) + 1, Len(a \o b)) = b
  <1>1. a \o b \in Seq(S) /\ Len(a \o b) = Len(a) + Len(b)
    OBVIOUS
  <1>2. SubSeq(a \o b, 1, Len(a)) = a
    OBVIOUS
  <1>3. SubSeq(a \o b, Len(a) + 1, Len(a \o b)) = b
    <2>1. \A j \in 1..Len(b) : (a \o b)[Len(a) + j] = b[j]
      OBVIOUS
    <2> DEFINE c == a \o b
    <2>2. c \in Seq(S) /\ Len(c) = Len(a) + Len(b) /\ \A j \in 1..Len(b) : c[Len(a) + j] = b[j]
      BY <1>1, <2>1
    <2> HIDE DEF c
    <2>3. /\ SubSeq(c, Len(a) + 1, Len(c)) \in Seq(S)
          /\ Len(SubSeq(c, Len(a) + 1, Len(c))) = Len(b)
          /\ \A j \in 1..Len(b) : SubSeq(c, Len(a) + 1, Len(c))[j] = c[Len(a) + j]
      BY <2>2
    <2> DEFINE d == SubSeq(c, Len(a) + 1, Len(c))
    <2>4. d \in Seq(S) /\ Len(d) = Len(b) /\ \A j \in 1..Len(d) : d[j] = b[j]
      BY <2>2, <2>3
    <2> HIDE DEF d
    <2>5. d = b
      BY <2>4
    <2> QED BY <2>5 DEF c, d
  <1> QED BY <1>1, <1>2, <1>3

\* The recursive function of AtoI, for the first n characters, all digits.
ValueOf(s, n) == CHOOSE v : v = [k \in 0..n |->
                                    IF k = 0 THEN 0 ELSE 10 * v[k - 1] + s[k]]

LEMMA ValueIs ==
    ASSUME NEW s, NEW n \in 0..3, \A j \in 1..n : s[j] \in 0..9
    PROVE  /\ n = 0 => ValueOf(s, n)[n] = 0
           /\ n = 1 => ValueOf(s, n)[n] = s[1]
           /\ n = 2 => ValueOf(s, n)[n] = 10 * s[1] + s[2]
           /\ n = 3 => ValueOf(s, n)[n] = 10 * (10 * s[1] + s[2]) + s[3]
  <1> DEFINE v(k) == IF k = 0 THEN 0
                     ELSE IF k = 1 THEN s[1]
                     ELSE IF k = 2 THEN 10 * s[1] + s[2]
                     ELSE 10 * (10 * s[1] + s[2]) + s[3]
             w == [k \in 0..n |-> v(k)]
             IsValue(x) == x = [k \in 0..n |-> IF k = 0 THEN 0 ELSE 10 * x[k - 1] + s[k]]
  <1>1. /\ n >= 1 => s[1] \in 0..9
        /\ n >= 2 => s[2] \in 0..9
        /\ n >= 3 => s[3] \in 0..9
    OBVIOUS
  <1>2. ASSUME NEW k \in 0..n PROVE v(k) = IF k = 0 THEN 0 ELSE 10 * w[k - 1] + s[k]
    <2>1. CASE k = 0
      BY <2>1
    <2>2. CASE k = 1
      <3>1. w[0] = 0 /\ s[1] \in 0..9
        BY <1>1, <2>2
      <3> QED BY <2>2, <3>1
    <2>3. CASE k = 2
      <3>1. w[1] = s[1] /\ s[1] \in 0..9 /\ s[2] \in 0..9
        BY <1>1, <2>3
      <3> QED BY <2>3, <3>1
    <2>4. CASE k = 3
      <3>1. w[2] = 10 * s[1] + s[2] /\ s[1] \in 0..9 /\ s[2] \in 0..9 /\ s[3] \in 0..9
        BY <1>1, <2>4
      <3> QED BY <2>4, <3>1
    <2> QED BY <2>1, <2>2, <2>3, <2>4
  <1>3. IsValue(w)
    <2> HIDE DEF v
    <2>1. \A k \in 0..n : v(k) = IF k = 0 THEN 0 ELSE 10 * w[k - 1] + s[k]
      BY <1>2
    <2>2. w = [k \in 0..n |-> IF k = 0 THEN 0 ELSE 10 * w[k - 1] + s[k]]
      BY <2>1, Zenon
    <2> QED BY <2>2
  <1> DEFINE value == CHOOSE x : IsValue(x)
  <1>4. ValueOf(s, n) = value
    BY DEF ValueOf
  <1>5. IsValue(value)
    <2> HIDE DEF IsValue, w
    <2> QED BY <1>3
  <1> HIDE DEF value
  <1>6. /\ value[0] = 0
        /\ n >= 1 => value[1] = 10 * value[0] + s[1]
        /\ n >= 2 => value[2] = 10 * value[1] + s[2]
        /\ n >= 3 => value[3] = 10 * value[2] + s[3]
    <2>1. \A k \in 0..n : value[k] = IF k = 0 THEN 0 ELSE 10 * value[k - 1] + s[k]
      BY <1>5, Zenon
    <2> QED BY <2>1
  <1>7. n = 0 \/ n = 1 \/ n = 2 \/ n = 3
    OBVIOUS
  <1> HIDE DEF IsValue
  <1> QED BY <1>1, <1>4, <1>6, <1>7

\* What atoi makes of a short buffer, digits or not, and of one that is filled
\* with digits.
IsBuffer(s) == s \in Seq(R!Char) /\ Len(s) \in 0..3

LEMMA AtoIShort ==
    ASSUME NEW s, IsBuffer(s)
    PROVE  /\ R!AtoI(s) \in 0..999
           /\ Len(s) = 2 /\ (\A j \in 1..2 : s[j] \in 0..9) =>
                  R!AtoI(s) = 10 * s[1] + s[2]
           /\ Len(s) = 3 /\ (\A j \in 1..3 : s[j] \in 0..9) =>
                  R!AtoI(s) = 10 * (10 * s[1] + s[2]) + s[3]
  <1>1. Len(s) \in 0..3
    BY DEF IsBuffer
  <1> DEFINE IsLength(k) == /\ \A j \in 1..k : s[j] \in 0..9
                            /\ k < Len(s) => s[k + 1] \notin 0..9
             n == CHOOSE k \in 0..Len(s) : IsLength(k)
  <1>2. R!AtoI(s) = ValueOf(s, n)[n]
    BY DEF R!AtoI, ValueOf
  <1>3. \E k \in 0..Len(s) : IsLength(k)
    <2>1. CASE Len(s) = 0 \/ (Len(s) > 0 /\ s[1] \notin 0..9)
      <3>1. 0 \in 0..Len(s) /\ IsLength(0)
        BY <1>1, <2>1
      <3> QED BY <3>1
    <2>2. CASE Len(s) > 0 /\ s[1] \in 0..9 /\ (Len(s) = 1 \/ s[2] \notin 0..9)
      <3>1. 1 \in 0..Len(s) /\ IsLength(1)
        BY <1>1, <2>2
      <3> QED BY <3>1
    <2>3. CASE /\ Len(s) > 1 /\ s[1] \in 0..9 /\ s[2] \in 0..9
               /\ Len(s) = 2 \/ s[3] \notin 0..9
      <3>1. 2 \in 0..Len(s) /\ IsLength(2)
        BY <1>1, <2>3
      <3> QED BY <3>1
    <2>4. CASE Len(s) = 3 /\ s[1] \in 0..9 /\ s[2] \in 0..9 /\ s[3] \in 0..9
      <3>1. 3 \in 0..Len(s) /\ IsLength(3)
        BY <2>4
      <3> QED BY <3>1
    <2> QED BY <1>1, <2>1, <2>2, <2>3, <2>4
  <1>4. n \in 0..Len(s) /\ IsLength(n)
    <2> HIDE DEF IsLength
    <2> QED BY <1>3
  <1> HIDE DEF n
  <1>5. n \in 0..3 /\ \A j \in 1..n : s[j] \in 0..9
    <2> DEFINE m == Len(s)
    <2>1. m \in 0..3 /\ n \in 0..m
      BY <1>1, <1>4
    <2> HIDE DEF m
    <2>2. n \in 0..3
      BY <2>1
    <2> QED BY <2>2, <1>4
  <1>6. /\ n = 0 => ValueOf(s, n)[n] = 0
        /\ n = 1 => ValueOf(s, n)[n] = s[1] /\ s[1] \in 0..9
        /\ n = 2 => /\ ValueOf(s, n)[n] = 10 * s[1] + s[2]
                    /\ s[1] \in 0..9 /\ s[2] \in 0..9
        /\ n = 3 => /\ ValueOf(s, n)[n] = 10 * (10 * s[1] + s[2]) + s[3]
                    /\ s[1] \in 0..9 /\ s[2] \in 0..9 /\ s[3] \in 0..9
    BY <1>5, ValueIs
  <1>7. n = 0 \/ n = 1 \/ n = 2 \/ n = 3
    BY <1>5
  <1>8. R!AtoI(s) \in 0..999
    <2> DEFINE v == ValueOf(s, n)[n]
    <2>1. CASE n = 0
      BY <1>2, <1>6, <2>1
    <2>2. CASE n = 1
      <3>1. v = s[1] /\ s[1] \in 0..9
        BY <1>6, <2>2
      <3> QED BY <1>2, <3>1
    <2>3. CASE n = 2
      <3>1. v = 10 * s[1] + s[2] /\ s[1] \in 0..9 /\ s[2] \in 0..9
        BY <1>6, <2>3
      <3>2. PICK a, b \in 0..9 : a = s[1] /\ b = s[2]
        BY <3>1, Zenon
      <3> DEFINE k == 10 * a + b
      <3>3. k \in 0..999
        OBVIOUS
      <3>4. R!AtoI(s) = k
        BY <1>2, <3>1, <3>2, Zenon
      <3> HIDE DEF k
      <3> QED BY <3>3, <3>4
    <2>4. CASE n = 3
      <3>1. /\ v = 10 * (10 * s[1] + s[2]) + s[3]
            /\ s[1] \in 0..9 /\ s[2] \in 0..9 /\ s[3] \in 0..9
        BY <1>6, <2>4
      <3>2. PICK a, b, c \in 0..9 : a = s[1] /\ b = s[2] /\ c = s[3]
        BY <3>1, Zenon
      <3> DEFINE k == 10 * (10 * a + b) + c
      <3>3. k \in 0..999
        OBVIOUS
      <3>4. R!AtoI(s) = k
        BY <1>2, <3>1, <3>2, Zenon
      <3> HIDE DEF k
      <3> QED BY <3>3, <3>4
    <2> QED BY <1>7, <2>1, <2>2, <2>3, <2>4
  <1>9. Len(s) = 2 /\ (\A j \in 1..2 : s[j] \in 0..9) => n = 2
    BY <1>4, <1>7
  <1>10. Len(s) = 3 /\ (\A j \in 1..3 : s[j] \in 0..9) => n = 3
    BY <1>4, <1>7
  <1> QED BY <1>2, <1>6, <1>8, <1>9, <1>10

\* One sequence before another.
Cat(a, b) == a \o b

LEMMA CatIn ==
    ASSUME NEW S, NEW a \in Seq(S), NEW b \in Seq(S)
    PROVE  Cat(a, b) \in Seq(S)
BY DEF Cat

LEMMA CatEmpty ==
    ASSUME NEW S, NEW a \in Seq(S)
    PROVE  Cat(a, <<>>) = a /\ Cat(<<>>, a) = a
BY DEF Cat

LEMMA CatAssociates ==
    ASSUME NEW S, NEW a \in Seq(S), NEW b \in Seq(S), NEW c \in Seq(S)
    PROVE  Cat(Cat(a, b), c) = Cat(a, Cat(b, c))
BY DEF Cat

\* At most four sequences one after the other, from the kth on.
At(q, n, k) == IF k \in 1..n THEN q[k] ELSE <<>>
From(q, n, k) ==
    CASE k = 1 -> Cat(At(q, n, 1), Cat(At(q, n, 2), Cat(At(q, n, 3), At(q, n, 4))))
      [] k = 2 -> Cat(At(q, n, 2), Cat(At(q, n, 3), At(q, n, 4)))
      [] k = 3 -> Cat(At(q, n, 3), At(q, n, 4))
      [] k = 4 -> At(q, n, 4)
      [] OTHER -> <<>>

LEMMA FromAt ==
    ASSUME NEW S, NEW n \in 0..4, NEW q, \A k \in 1..n : q[k] \in Seq(S)
    PROVE  /\ \A k \in 1..5 : From(q, n, k) \in Seq(S)
           /\ \A k \in 1..n : From(q, n, k) = Cat(q[k], From(q, n, k + 1))
           /\ From(q, n, n + 1) = <<>>
  <1>1. \A k \in 1..4 : At(q, n, k) \in Seq(S)
    BY DEF At
  <1>2. \A k \in 1..n : At(q, n, k) = q[k]
    BY DEF At
  <1>3. \A k \in 1..4 : k > n => At(q, n, k) = <<>>
    BY DEF At
  <1>4. /\ From(q, n, 1) = Cat(At(q, n, 1), From(q, n, 2))
        /\ From(q, n, 2) = Cat(At(q, n, 2), From(q, n, 3))
        /\ From(q, n, 3) = Cat(At(q, n, 3), From(q, n, 4))
        /\ From(q, n, 4) = At(q, n, 4)
        /\ From(q, n, 5) = <<>>
    BY DEF From
  <1>5. /\ From(q, n, 5) \in Seq(S) /\ From(q, n, 4) \in Seq(S)
        /\ From(q, n, 4) = Cat(At(q, n, 4), From(q, n, 5))
    <2>1. <<>> \in Seq(S) /\ At(q, n, 4) \in Seq(S)
      BY <1>1
    <2> QED BY <1>4, <2>1, CatEmpty, Zenon
  <1>6. From(q, n, 3) \in Seq(S) /\ From(q, n, 2) \in Seq(S) /\ From(q, n, 1) \in Seq(S)
    <2>1. At(q, n, 1) \in Seq(S) /\ At(q, n, 2) \in Seq(S) /\ At(q, n, 3) \in Seq(S)
      BY <1>1
    <2>2. From(q, n, 3) \in Seq(S)
      BY <1>4, <1>5, <2>1, CatIn, Zenon
    <2>3. From(q, n, 2) \in Seq(S)
      BY <1>4, <2>2, <2>1, CatIn, Zenon
    <2>4. From(q, n, 1) \in Seq(S)
      BY <1>4, <2>3, <2>1, CatIn, Zenon
    <2> QED BY <2>2, <2>3, <2>4
  <1>7. ASSUME NEW k \in 1..5 PROVE From(q, n, k) \in Seq(S)
    <2>1. k = 1 \/ k = 2 \/ k = 3 \/ k = 4 \/ k = 5
      OBVIOUS
    <2> QED BY <2>1, <1>5, <1>6, Zenon
  <1>8. ASSUME NEW k \in 1..n PROVE From(q, n, k) = Cat(q[k], From(q, n, k + 1))
    <2>1. k = 1 \/ k = 2 \/ k = 3 \/ k = 4
      OBVIOUS
    <2>2. 1 + 1 = 2 /\ 2 + 1 = 3 /\ 3 + 1 = 4 /\ 4 + 1 = 5
      OBVIOUS
    <2> QED BY <2>1, <2>2, <1>2, <1>4, <1>5, Zenon
  <1>9. From(q, n, n + 1) = <<>>
    <2>1. Cat(<<>>, <<>>) = <<>>
      <3>1. <<>> \in Seq(S)
        OBVIOUS
      <3> QED BY <3>1, CatEmpty, Zenon
    <2>2. n < 4 => From(q, n, 4) = <<>>
      BY <1>3, <1>4
    <2>3. n < 3 => From(q, n, 3) = <<>>
      BY <1>3, <1>4, <2>1, <2>2
    <2>4. n < 2 => From(q, n, 2) = <<>>
      BY <1>3, <1>4, <2>1, <2>3
    <2>5. n < 1 => From(q, n, 1) = <<>>
      BY <1>3, <1>4, <2>1, <2>4
    <2>6. n = 0 \/ n = 1 \/ n = 2 \/ n = 3 \/ n = 4
      OBVIOUS
    <2> QED BY <1>4, <2>2, <2>3, <2>4, <2>5, <2>6
  <1> QED BY <1>7, <1>8, <1>9

\* What FlattenSeq makes of them.
Flattened(q, n) ==
    CHOOSE f : f = [x \in 1..n |-> IF x = 1 THEN q[x] ELSE Cat(f[x - 1], q[x])]

LEMMA FlattenedIs ==
    ASSUME NEW n \in 1..4, NEW q
    PROVE  /\ n = 1 => Flattened(q, n)[n] = q[1]
           /\ n = 2 => Flattened(q, n)[n] = Cat(q[1], q[2])
           /\ n = 3 => Flattened(q, n)[n] = Cat(Cat(q[1], q[2]), q[3])
           /\ n = 4 => Flattened(q, n)[n] = Cat(Cat(Cat(q[1], q[2]), q[3]), q[4])
  <1> DEFINE v(k) == IF k = 1 THEN q[1]
                     ELSE IF k = 2 THEN Cat(q[1], q[2])
                     ELSE IF k = 3 THEN Cat(Cat(q[1], q[2]), q[3])
                     ELSE Cat(Cat(Cat(q[1], q[2]), q[3]), q[4])
             w == [k \in 1..n |-> v(k)]
             IsValue(x) == x = [k \in 1..n |-> IF k = 1 THEN q[k] ELSE Cat(x[k - 1], q[k])]
  <1>1. ASSUME NEW k \in 1..n PROVE v(k) = IF k = 1 THEN q[k] ELSE Cat(w[k - 1], q[k])
    <2>1. CASE k = 1
      BY <2>1
    <2>2. CASE k = 2
      <3>1. w[1] = q[1]
        BY <2>2
      <3> QED BY <2>2, <3>1
    <2>3. CASE k = 3
      <3>1. w[2] = Cat(q[1], q[2])
        BY <2>3
      <3> QED BY <2>3, <3>1
    <2>4. CASE k = 4
      <3>1. w[3] = Cat(Cat(q[1], q[2]), q[3])
        BY <2>4
      <3> QED BY <2>4, <3>1
    <2> QED BY <2>1, <2>2, <2>3, <2>4
  <1>2. IsValue(w)
    <2> HIDE DEF v
    <2>1. \A k \in 1..n : v(k) = IF k = 1 THEN q[k] ELSE Cat(w[k - 1], q[k])
      BY <1>1
    <2> QED BY <2>1, Zenon
  <1> DEFINE value == CHOOSE x : IsValue(x)
  <1>3. Flattened(q, n) = value
    BY DEF Flattened
  <1>4. IsValue(value)
    <2> HIDE DEF IsValue, w
    <2> QED BY <1>2
  <1> HIDE DEF value
  <1>5. /\ n >= 1 => value[1] = q[1]
        /\ n >= 2 => value[2] = Cat(value[1], q[2])
        /\ n >= 3 => value[3] = Cat(value[2], q[3])
        /\ n >= 4 => value[4] = Cat(value[3], q[4])
    <2>1. \A k \in 1..n : value[k] = IF k = 1 THEN q[k] ELSE Cat(value[k - 1], q[k])
      BY <1>4, Zenon
    <2> QED BY <2>1
  <1>6. n = 1 \/ n = 2 \/ n = 3 \/ n = 4
    OBVIOUS
  <1> HIDE DEF IsValue
  <1> QED BY <1>3, <1>5, <1>6

LEMMA FunctionLen ==
    ASSUME NEW S, NEW n \in Nat, NEW q \in [1..n -> S]
    PROVE  q \in Seq(S) /\ Len(q) = n
OBVIOUS

LEMMA FlattenSeqIs ==
    ASSUME NEW S, NEW n \in 0..4, NEW q \in [1..n -> Seq(S)]
    PROVE  R!FlattenSeq(q) = From(q, n, 1)
  <1>1. n = 0 \/ n = 1 \/ n = 2 \/ n = 3 \/ n = 4
    OBVIOUS
  <1>2. Len(q) = n
    BY FunctionLen
  <1>3. /\ From(q, n, n + 1) = <<>>
        /\ \A k \in 1..n : From(q, n, k) = Cat(q[k], From(q, n, k + 1))
    BY FromAt
  <1>4. CASE n = 0
    <2>1. R!FlattenSeq(q) = q
      BY <1>2, <1>4 DEF R!FlattenSeq
    <2>2. q = <<>>
      BY <1>4
    <2>3. From(q, n, 1) = <<>>
      BY <1>3, <1>4
    <2> QED BY <2>1, <2>2, <2>3
  <1>5. CASE n # 0
    <2>1. R!FlattenSeq(q) = Flattened(q, n)[n]
      BY <1>2, <1>5, Zenon DEF R!FlattenSeq, Flattened, Cat
    <2>2. n \in 1..4 /\ \A k \in 1..n : q[k] \in Seq(S)
      BY <1>5
    <2>3. CASE n = 1
      <3>1. /\ q[1] \in Seq(S) /\ From(q, n, 2) = <<>>
            /\ From(q, n, 1) = Cat(q[1], From(q, n, 2))
        BY <1>3, <2>2, <2>3
      <3>2. Flattened(q, n)[n] = q[1]
        BY <2>2, <2>3, FlattenedIs
      <3> QED BY <2>1, <3>1, <3>2, CatEmpty, Zenon
    <2>4. CASE n = 2
      <3>1. /\ q[1] \in Seq(S) /\ q[2] \in Seq(S) /\ From(q, n, 3) = <<>>
            /\ From(q, n, 1) = Cat(q[1], From(q, n, 2))
            /\ From(q, n, 2) = Cat(q[2], From(q, n, 3))
        BY <1>3, <2>2, <2>4
      <3>2. Flattened(q, n)[n] = Cat(q[1], q[2])
        BY <2>2, <2>4, FlattenedIs
      <3>3. Cat(q[2], <<>>) = q[2]
        BY <3>1, CatEmpty, Zenon
      <3> QED BY <2>1, <3>1, <3>2, <3>3, Zenon
    <2>5. CASE n = 3
      <3>1. /\ q[1] \in Seq(S) /\ q[2] \in Seq(S) /\ q[3] \in Seq(S)
            /\ From(q, n, 4) = <<>>
            /\ From(q, n, 1) = Cat(q[1], From(q, n, 2))
            /\ From(q, n, 2) = Cat(q[2], From(q, n, 3))
            /\ From(q, n, 3) = Cat(q[3], From(q, n, 4))
        BY <1>3, <2>2, <2>5
      <3>2. Flattened(q, n)[n] = Cat(Cat(q[1], q[2]), q[3])
        BY <2>2, <2>5, FlattenedIs
      <3>3. Cat(q[3], <<>>) = q[3] /\ Cat(Cat(q[1], q[2]), q[3]) = Cat(q[1], Cat(q[2], q[3]))
        BY <3>1, CatEmpty, CatAssociates
      <3> QED BY <2>1, <3>1, <3>2, <3>3, Zenon
    <2>6. CASE n = 4
      <3>1. /\ q[1] \in Seq(S) /\ q[2] \in Seq(S) /\ q[3] \in Seq(S) /\ q[4] \in Seq(S)
            /\ From(q, n, 5) = <<>>
            /\ From(q, n, 1) = Cat(q[1], From(q, n, 2))
            /\ From(q, n, 2) = Cat(q[2], From(q, n, 3))
            /\ From(q, n, 3) = Cat(q[3], From(q, n, 4))
            /\ From(q, n, 4) = Cat(q[4], From(q, n, 5))
        BY <1>3, <2>2, <2>6
      <3>2. Flattened(q, n)[n] = Cat(Cat(Cat(q[1], q[2]), q[3]), q[4])
        BY <2>2, <2>6, FlattenedIs
      <3>3. /\ Cat(q[4], <<>>) = q[4] /\ Cat(q[1], q[2]) \in Seq(S) /\ Cat(q[3], q[4]) \in Seq(S)
        BY <3>1, CatEmpty, CatIn, Zenon
      <3>4. Cat(Cat(Cat(q[1], q[2]), q[3]), q[4]) = Cat(Cat(q[1], q[2]), Cat(q[3], q[4]))
        BY <3>1, <3>3, CatAssociates
      <3>5. Cat(Cat(q[1], q[2]), Cat(q[3], q[4])) = Cat(q[1], Cat(q[2], Cat(q[3], q[4])))
        BY <3>1, <3>3, CatAssociates
      <3> QED BY <2>1, <3>1, <3>2, <3>3, <3>4, <3>5, Zenon
    <2> QED BY <1>1, <1>5, <2>3, <2>4, <2>5, <2>6
  <1> QED BY <1>4, <1>5

\* The codes, and what is read for each.
Codes == {200, 201, 203, 205, 207, 209, 211, 213, 215, 217, 219, 222, 223, 225}
Digits(c) == <<c \div 100, (c \div 10) % 10, c % 10>>

LEMMA CodeDigits ==
    ASSUME NEW c \in Codes
    PROVE  /\ c \in 0..999
           /\ c \div 100 \in 0..9 /\ (c \div 10) % 10 \in 0..9 /\ c % 10 \in 0..9
           /\ 10 * (10 * (c \div 100) + ((c \div 10) % 10)) + (c % 10) = c
  <1>1. c \in 0..999
    BY DEF Codes
  <1>2. c \div 100 \in 0..9 /\ (c \div 10) % 10 \in 0..9 /\ c % 10 \in 0..9
    BY <1>1
  <1>3. 10 * (10 * (c \div 100) + ((c \div 10) % 10)) + (c % 10) = c
    BY <1>1
  <1> QED BY <1>1, <1>2, <1>3

LEMMA LayoutIs ==
    /\ DOMAIN R!Layout = Codes
    /\ \A c \in Codes : R!Layout[c] \in Seq(Nat) /\ Len(R!Layout[c]) <= 4
  <1>1. DOMAIN R!Layout = Codes
    BY DEF R!Layout, Codes
  <1>2. ASSUME NEW c \in Codes PROVE R!Layout[c] \in Seq(Nat) /\ Len(R!Layout[c]) <= 4
    <2> DEFINE l == R!Layout[c]
    <2>1. \/ l = <<R!Text, R!Text>>
          \/ l = <<R!Text, R!Text, R!Text>>
          \/ l = <<4>>
          \/ l = <<R!Text, 1, 2, 2>>
          \/ l = <<1, 2>>
          \/ l = <<>>
      BY DEF R!Layout, Codes
    <2>2. R!Text \in Nat
      BY DEF R!Text
    <2> HIDE DEF l
    <2>3. \A a, b, e, d \in Nat : /\ <<a, b>> \in Seq(Nat) /\ Len(<<a, b>>) <= 4
                                   /\ <<a>> \in Seq(Nat) /\ Len(<<a>>) <= 4
      OBVIOUS
    <2>4. \A a, b, e, d \in Nat : /\ <<a, b, e>> \in Seq(Nat) /\ Len(<<a, b, e>>) <= 4
                                   /\ <<a, b, e, d>> \in Seq(Nat) /\ Len(<<a, b, e, d>>) <= 4
      OBVIOUS
    <2>5. <<>> \in Seq(Nat) /\ Len(<<>>) <= 4
      OBVIOUS
    <2>6. l \in Seq(Nat) /\ Len(l) <= 4
      BY <2>1, <2>2, <2>3, <2>4, <2>5
    <2> QED BY <2>6 DEF l
  <1> QED BY <1>1, <1>2

LEMMA DigitsAre ==
    ASSUME NEW c \in Codes
    PROVE  /\ Digits(c) \in Seq(R!Char) /\ Len(Digits(c)) = 3
           /\ R!AtoI(Digits(c)) = c
  <1> DEFINE d == Digits(c)
  <1>1. /\ d[1] = c \div 100 /\ d[2] = (c \div 10) % 10 /\ d[3] = c % 10
        /\ Len(d) = 3
    BY DEF Digits
  <1>2. d[1] \in 0..9 /\ d[2] \in 0..9 /\ d[3] \in 0..9
    BY <1>1, CodeDigits
  <1>3. c \div 100 \in R!Char /\ (c \div 10) % 10 \in R!Char /\ c % 10 \in R!Char
    BY CodeDigits DEF R!Char
  <1>4. d \in Seq(R!Char)
    BY <1>3 DEF Digits
  <1>5. IsBuffer(d)
    BY <1>1, <1>4 DEF IsBuffer
  <1> HIDE DEF d
  <1>6. \A j \in 1..3 : d[j] \in 0..9
    BY <1>2
  <1>7. R!AtoI(d) = 10 * (10 * d[1] + d[2]) + d[3]
    BY <1>1, <1>5, <1>6, AtoIShort
  <1>8. R!AtoI(d) = c
    BY <1>1, <1>7, CodeDigits
  <1> QED BY <1>1, <1>4, <1>8 DEF d

LEMMA LengthDigits ==
    ASSUME NEW n \in 0..99
    PROVE  /\ R!TwoDigits(n) \in Seq(R!Char) /\ Len(R!TwoDigits(n)) = 2
           /\ R!TwoDigits(n)[1] \in 0..9 /\ R!TwoDigits(n)[2] \in 0..9
           /\ 10 * R!TwoDigits(n)[1] + R!TwoDigits(n)[2] = n
  <1>1. n \div 10 \in 0..9 /\ n % 10 \in 0..9 /\ 10 * (n \div 10) + (n % 10) = n
    OBVIOUS
  <1>2. n \div 10 \in R!Char /\ n % 10 \in R!Char
    BY <1>1 DEF R!Char
  <1> QED BY <1>1, <1>2 DEF R!TwoDigits
-----------------------------------------------------------------------------
\* What the assumption says of a request.
Shaped(r) ==
    /\ r = [code |-> r.code, params |-> r.params]
    /\ r.code \in Codes
    /\ r.params \in Seq(R!String)
    /\ R!Layout[r.code] \in Seq(Nat)
    /\ Len(R!Layout[r.code]) = Len(r.params)
    /\ Len(r.params) \in 0..4
    /\ \A j \in 1..Len(r.params) :
          /\ r.params[j] \in R!String
          /\ R!Layout[r.code][j] \in Nat
          /\ R!Layout[r.code][j] = R!Text => Len(r.params[j]) \in 0..99
          /\ R!Layout[r.code][j] # R!Text => Len(r.params[j]) = R!Layout[r.code][j]

LEMMA RequestsAreShaped ==
    ASSUME R!RequestStreamAssumption, NEW r \in Requests
    PROVE  Shaped(r)
  <1>1. /\ r \in [code : Nat, params : Seq(R!String)]
        /\ r.code \in DOMAIN R!Layout
        /\ Len(r.params) = Len(R!Layout[r.code])
        /\ \A j \in DOMAIN r.params :
              IF R!Layout[r.code][j] = R!Text THEN Len(r.params[j]) \in 0..99
              ELSE Len(r.params[j]) = R!Layout[r.code][j]
    BY DEF R!RequestStreamAssumption, R!Message
  <1>2. r = [code |-> r.code, params |-> r.params] /\ r.params \in Seq(R!String)
    BY <1>1
  <1>3. /\ r.code \in Codes
        /\ R!Layout[r.code] \in Seq(Nat) /\ Len(R!Layout[r.code]) <= 4
    BY <1>1, LayoutIs, Zenon
  <1>4. Len(r.params) \in 0..4
    <2> DEFINE m == Len(r.params)
    <2>1. m \in Nat /\ m <= 4
      BY <1>1, <1>2, <1>3
    <2> HIDE DEF m
    <2>2. m \in 0..4
      BY <2>1
    <2> QED BY <2>2 DEF m
  <1>5. DOMAIN r.params = 1..Len(r.params)
    BY <1>2
  <1>6. ASSUME NEW j \in 1..Len(r.params)
        PROVE  r.params[j] \in R!String /\ R!Layout[r.code][j] \in Nat
    BY <1>1, <1>2, <1>3
  <1> QED BY <1>1, <1>2, <1>3, <1>4, <1>5, <1>6 DEF Shaped

\* The field of a parameter, and the fields from the kth on.
Field(r, j) == IF R!Layout[r.code][j] = R!Text
               THEN Cat(R!TwoDigits(Len(r.params[j])), r.params[j]) ELSE r.params[j]
FieldsFrom(r, k) == From([j \in DOMAIN r.params |-> Field(r, j)], Len(r.params), k)

LEMMA FieldsAre ==
    ASSUME NEW r, Shaped(r)
    PROVE  /\ \A k \in 1..Len(r.params) + 1 : FieldsFrom(r, k) \in R!String
           /\ \A k \in 1..Len(r.params) :
                 /\ Field(r, k) \in R!String
                 /\ FieldsFrom(r, k) = Cat(Field(r, k), FieldsFrom(r, k + 1))
           /\ FieldsFrom(r, Len(r.params) + 1) = <<>>
           /\ R!Bytes(r) = Cat(Digits(r.code), FieldsFrom(r, 1))
           /\ R!Bytes(r) \in R!String
  <1> DEFINE n == Len(r.params)
             q == [j \in DOMAIN r.params |-> Field(r, j)]
  <1>1. n \in 0..4 /\ DOMAIN r.params = 1..n /\ r.code \in Codes
    BY DEF Shaped
  <1>2. ASSUME NEW j \in 1..n PROVE Field(r, j) \in Seq(R!Char)
    <2>1. r.params[j] \in Seq(R!Char)
      BY DEF Shaped, R!String
    <2>2. CASE R!Layout[r.code][j] = R!Text
      <3>1. Len(r.params[j]) \in 0..99
        BY <2>2 DEF Shaped
      <3>2. R!TwoDigits(Len(r.params[j])) \in Seq(R!Char)
        BY <3>1, LengthDigits
      <3> QED BY <2>1, <2>2, <3>2, CatIn DEF Field
    <2> QED BY <2>1, <2>2 DEF Field
  <1>3. q \in [1..n -> Seq(R!Char)] /\ \A j \in 1..n : q[j] = Field(r, j)
    BY <1>1, <1>2, Zenon
  <1>4. R!Bytes(r) = Digits(r.code) \o R!FlattenSeq(q)
    BY Zenon DEF R!Bytes, Digits, Field, Cat
  <1>5. \A k : FieldsFrom(r, k) = From(q, n, k)
    BY DEF FieldsFrom
  <1> HIDE DEF n, q
  <1>6. R!FlattenSeq(q) = From(q, n, 1)
    BY <1>1, <1>3, FlattenSeqIs
  <1>7. /\ \A k \in 1..5 : From(q, n, k) \in Seq(R!Char)
        /\ \A k \in 1..n : From(q, n, k) = Cat(q[k], From(q, n, k + 1))
        /\ From(q, n, n + 1) = <<>>
    <2>1. \A k \in 1..n : q[k] \in Seq(R!Char)
      BY <1>3
    <2> QED BY <1>1, <2>1, FromAt
  <1>8. \A k \in 1..n + 1 : FieldsFrom(r, k) \in R!String
    <2>1. \A k \in 1..n + 1 : k \in 1..5
      BY <1>1
    <2> QED BY <1>5, <1>7, <2>1 DEF R!String
  <1>9. \A k \in 1..n : /\ Field(r, k) \in R!String
                        /\ FieldsFrom(r, k) = Cat(Field(r, k), FieldsFrom(r, k + 1))
    BY <1>2, <1>3, <1>5, <1>7 DEF R!String
  <1>10. FieldsFrom(r, n + 1) = <<>>
    BY <1>5, <1>7
  <1>11. R!Bytes(r) = Cat(Digits(r.code), FieldsFrom(r, 1))
    BY <1>4, <1>5, <1>6 DEF Cat
  <1>12. R!Bytes(r) \in R!String
    <2>1. Digits(r.code) \in Seq(R!Char)
      BY <1>1, DigitsAre
    <2>2. FieldsFrom(r, 1) \in Seq(R!Char)
      BY <1>5, <1>7
    <2> QED BY <1>11, <2>1, <2>2, CatIn DEF R!String
  <1> QED BY <1>8, <1>9, <1>10, <1>11, <1>12 DEF n

-----------------------------------------------------------------------------
\* A receive: at most what is there, and the buffer it leaves.
LEMMA ReceivedTyped ==
    ASSUME R!TypeOK, NEW n \in Nat, NEW k \in R!Receivable(n), NEW s \in R!Strings(n, k)
    PROVE  /\ k \in 0..n /\ k <= Len(wire)
           /\ s \in R!String /\ Len(s) <= n
           /\ SubSeq(wire, k + 1, Len(wire)) \in R!String
  <1>1. wire \in Seq(R!Char)
    BY DEF R!TypeOK, R!String
  <1>2. k \in 0..n /\ k <= Len(wire)
    BY <1>1 DEF R!Receivable
  <1> DEFINE got == SubSeq(wire, 1, k)
  <1>3. got \in Seq(R!Char) /\ Len(got) = k
    BY <1>1, <1>2
  <1>4. SubSeq(wire, k + 1, Len(wire)) \in R!String
    BY <1>1, <1>2 DEF R!String
  <1>5. s = got \/ \E c \in {1, R!Letter} : s = got \o [j \in 1..(n - k) |-> c]
    BY DEF R!Strings
  <1> HIDE DEF got
  <1>6. s \in R!String /\ Len(s) <= n
    <2>1. CASE s = got
      BY <1>2, <1>3, <2>1 DEF R!String
    <2>2. CASE \E c \in {1, R!Letter} : s = got \o [j \in 1..(n - k) |-> c]
      <3>1. PICK c \in {1, R!Letter} : s = got \o [j \in 1..(n - k) |-> c]
        BY <2>2
      <3>2. c \in R!Char /\ n - k \in Nat
        BY <1>2 DEF R!Char
      <3> DEFINE rest == [j \in 1..(n - k) |-> c]
      <3>3. rest \in Seq(R!Char) /\ Len(rest) = n - k
        BY <3>2
      <3> HIDE DEF rest
      <3>4. s = got \o rest
        BY <3>1 DEF rest
      <3>5. s \in Seq(R!Char) /\ Len(s) = Len(got) + Len(rest)
        BY <1>3, <3>3, <3>4, Apart
      <3>6. Len(s) = k + (n - k)
        BY <1>3, <3>3, <3>5
      <3>7. Len(s) <= n
        BY <1>2, <3>6
      <3> QED BY <3>5, <3>7 DEF R!String
    <2> QED BY <1>5, <2>1, <2>2
  <1> QED BY <1>2, <1>4, <1>6

LEMMA IsShort ==
    ASSUME NEW s \in R!String, NEW n \in 0..3, Len(s) <= n
    PROVE  IsBuffer(s)
  <1> DEFINE m == Len(s)
  <1>1. m \in Nat /\ m <= n
    BY DEF R!String
  <1> HIDE DEF m
  <1>2. m \in 0..3
    BY <1>1
  <1> QED BY <1>2 DEF m, IsBuffer, R!String

\* A receive that fills the buffer takes the field that is first.
LEMMA ReceivedWhole ==
    ASSUME NEW a \in R!String, NEW b \in R!String, wire = Cat(a, b),
           NEW n, n = Len(a), NEW s \in R!Strings(n, n)
    PROVE  s = a /\ SubSeq(wire, n + 1, Len(wire)) = b
  <1>1. a \in Seq(R!Char) /\ b \in Seq(R!Char) /\ wire = a \o b
    BY DEF Cat, R!String
  <1>2. SubSeq(wire, 1, n) = a /\ SubSeq(wire, n + 1, Len(wire)) = b
    BY <1>1, Apart
  <1>3. s = a \/ \E c \in {1, R!Letter} : s = a \o [j \in 1..(n - n) |-> c]
    BY <1>2 DEF R!Strings
  <1>4. ASSUME NEW c PROVE a \o [j \in 1..(n - n) |-> c] = a
    <2>1. [j \in 1..(n - n) |-> c] = <<>>
      BY <1>1
    <2>2. a \o <<>> = a
      BY <1>1
    <2> QED BY <2>1, <2>2
  <1> QED BY <1>2, <1>3, <1>4

\* What is read for a code is made of numbers, whatever the code.
LEMMA ReadsTyped == ASSUME NEW c PROVE R!Reads(c) \in Seq(Nat)
BY LayoutIs DEF R!Reads

LEMMA RequestInit == R!Init => R!TypeOK
  <1> SUFFICES ASSUME R!Init PROVE R!TypeOK
    OBVIOUS
  <1>1. /\ <<>> \in Seq(Requests) /\ <<>> \in R!String /\ <<>> \in Seq(R!String)
        /\ <<>> \in Seq(R!Message \cup {<<>>})
    BY DEF R!String
  <1>2. <<3>> \in Seq(Nat)
    OBVIOUS
  <1>3. sent \in Seq(Requests) /\ wire \in R!String /\ params \in Seq(R!String)
    BY <1>1, Zenon DEF R!Init
  <1>4. built \in Seq(R!Message \cup {<<>>}) /\ reads \in Seq(Nat)
    BY <1>1, <1>2, Zenon DEF R!Init
  <1>5. msgCode \in 0..R!NoCode
    BY DEF R!Init, R!NoCode
  <1>6. closed \in BOOLEAN /\ whole \in BOOLEAN /\ fault \in BOOLEAN
    BY Zenon DEF R!Init
  <1> QED BY <1>3, <1>4, <1>5, <1>6, Zenon DEF R!TypeOK

LEMMA RequestStep == R!RequestStreamAssumption /\ R!TypeOK /\ [R!Next]_(R!vars) => R!TypeOK'
  <1> SUFFICES ASSUME R!RequestStreamAssumption, R!TypeOK, [R!Next]_(R!vars)
               PROVE  R!TypeOK'
    OBVIOUS
  <1>1. /\ sent \in Seq(Requests) /\ wire \in R!String /\ closed \in BOOLEAN
        /\ msgCode \in 0..R!NoCode /\ reads \in Seq(Nat) /\ params \in Seq(R!String)
        /\ built \in Seq(R!Message \cup {<<>>}) /\ whole \in BOOLEAN /\ fault \in BOOLEAN
    BY DEF R!TypeOK
  <1>2. CASE R!Send
    <2>1. PICK r \in Requests : sent' = Append(sent, r) /\ wire' = wire \o R!Bytes(r)
      BY <1>2 DEF R!Send
    <2>2. R!Bytes(r) \in R!String
      BY RequestsAreShaped, FieldsAre
    <2>3. wire' \in R!String
      BY <1>1, <2>1, <2>2 DEF R!String
    <2>4. sent' \in Seq(Requests)
      BY <1>1, <2>1
    <2> QED BY <1>1, <1>2, <2>3, <2>4 DEF R!Send, R!TypeOK
  <1>3. CASE R!Close
    BY <1>1, <1>3 DEF R!Close, R!TypeOK
  <1>4. CASE R!GetMessageTypeCode
    <2>1. PICK k \in R!Receivable(3) :
             /\ R!Received(3, k)
             /\ msgCode' \in {R!AtoI(s) : s \in R!Strings(3, k)}
             /\ reads' = R!Reads(msgCode')
      BY <1>4 DEF R!GetMessageTypeCode
    <2>2. PICK s \in R!Strings(3, k) : msgCode' = R!AtoI(s)
      BY <2>1
    <2>3. s \in R!String /\ Len(s) <= 3 /\ SubSeq(wire, k + 1, Len(wire)) \in R!String
      BY ReceivedTyped
    <2>4. IsBuffer(s)
      BY <2>3, IsShort
    <2>5. msgCode' \in 0..999
      BY <2>2, <2>4, AtoIShort
    <2>6. msgCode' \in 0..R!NoCode
      BY <2>5 DEF R!NoCode
    <2>7. reads' \in Seq(Nat)
      BY <2>1, ReadsTyped
    <2>8. wire' \in R!String /\ whole' \in BOOLEAN
      BY <1>1, <2>1, <2>3 DEF R!Received
    <2> QED BY <1>1, <1>4, <2>6, <2>7, <2>8 DEF R!GetMessageTypeCode, R!TypeOK
  <1>5. CASE R!GetLength
    <2>1. PICK k \in R!Receivable(2) :
             /\ R!Received(2, k)
             /\ \E n \in {R!AtoI(s) : s \in R!Strings(2, k)} :
                   \/ n = 0 /\ fault' = TRUE /\ UNCHANGED reads
                   \/ n # 0 /\ reads' = R!TextOf(n) \o Tail(reads) /\ UNCHANGED fault
      BY <1>5 DEF R!GetLength
    <2>2. PICK s \in R!Strings(2, k) :
             \/ R!AtoI(s) = 0 /\ fault' = TRUE /\ UNCHANGED reads
             \/ R!AtoI(s) # 0 /\ reads' = <<R!AtoI(s)>> \o Tail(reads) /\ UNCHANGED fault
      BY <2>1 DEF R!TextOf
    <2>3. s \in R!String /\ Len(s) <= 2 /\ SubSeq(wire, k + 1, Len(wire)) \in R!String
      BY ReceivedTyped
    <2>4. IsBuffer(s)
      BY <2>3, IsShort
    <2>5. R!AtoI(s) \in Nat
      <3>1. R!AtoI(s) \in 0..999
        BY <2>4, AtoIShort
      <3> QED BY <3>1
    <2>6. reads # <<>>
      BY <1>5 DEF R!GetLength, R!Building
    <2>7. reads' \in Seq(Nat) /\ fault' \in BOOLEAN
      <3>1. Tail(reads) \in Seq(Nat) /\ <<R!AtoI(s)>> \in Seq(Nat)
        BY <1>1, <2>5, <2>6
      <3>2. <<R!AtoI(s)>> \o Tail(reads) \in Seq(Nat)
        BY <3>1
      <3> QED BY <1>1, <2>2, <3>2
    <2>8. wire' \in R!String /\ whole' \in BOOLEAN
      BY <1>1, <2>1, <2>3 DEF R!Received
    <2> QED BY <1>1, <1>5, <2>7, <2>8 DEF R!GetLength, R!TypeOK
  <1>6. CASE R!GetStringPart
    <2>1. PICK k \in R!Receivable(Head(reads)) :
             /\ R!Received(Head(reads), k)
             /\ \E s \in R!Strings(Head(reads), k) : params' = Append(params, s)
      BY <1>6 DEF R!GetStringPart
    <2>2. PICK s \in R!Strings(Head(reads), k) : params' = Append(params, s)
      BY <2>1
    <2>3. reads # <<>> /\ reads' = Tail(reads)
      BY <1>6 DEF R!GetStringPart, R!Building
    <2>4. Head(reads) \in Nat /\ reads' \in Seq(Nat)
      BY <1>1, <2>3
    <2>5. s \in R!String /\ SubSeq(wire, k + 1, Len(wire)) \in R!String
      BY <2>4, ReceivedTyped
    <2>6. params' \in Seq(R!String)
      BY <1>1, <2>2, <2>5
    <2>7. wire' \in R!String /\ whole' \in BOOLEAN
      BY <1>1, <2>1, <2>4, <2>5 DEF R!Received
    <2> QED BY <1>1, <1>6, <2>4, <2>6, <2>7 DEF R!GetStringPart, R!TypeOK
  <1>7. CASE R!Build
    <2>1. /\ built' = Append(built, IF msgCode \in DOMAIN R!Layout
                                    THEN [code |-> msgCode, params |-> params] ELSE <<>>)
          /\ msgCode' = R!NoCode /\ reads' = <<3>> /\ params' = <<>>
          /\ UNCHANGED <<sent, wire, closed, whole, fault>>
      BY <1>7 DEF R!Build
    <2>2. msgCode \in Nat
      BY <1>1 DEF R!NoCode
    <2>3. [code |-> msgCode, params |-> params] \in R!Message
      BY <1>1, <2>2 DEF R!Message
    <2>4. built' \in Seq(R!Message \cup {<<>>})
      BY <1>1, <2>1, <2>3
    <2>5. msgCode' \in 0..R!NoCode /\ reads' \in Seq(Nat) /\ params' \in Seq(R!String)
      BY <2>1 DEF R!NoCode
    <2> QED BY <1>1, <2>1, <2>4, <2>5 DEF R!TypeOK
  <1>8. CASE UNCHANGED R!vars
    BY <1>8 DEF R!vars, R!TypeOK
  <1> QED BY <1>2, <1>3, <1>4, <1>5, <1>6, <1>7, <1>8 DEF R!Next, R!Server

-----------------------------------------------------------------------------
\* tails[j]: what the client has sent after its first j requests.
Tails(tails) ==
    /\ tails \in [0..Len(sent) -> R!String]
    /\ tails[Len(sent)] = <<>>
    /\ \A j \in 1..Len(sent) : tails[j - 1] = Cat(R!Bytes(sent[j]), tails[j])

\* Between two requests.
AtCode(t) == msgCode = R!NoCode /\ reads = <<3>> /\ params = <<>> /\ wire = t

\* Before a field of r, or before its text once its length is known.
AtField(r, t) ==
    /\ reads[1] = R!Layout[r.code][Len(params) + 1]
    /\ wire = Cat(FieldsFrom(r, Len(params) + 1), t)
AtText(r, t) ==
    /\ R!Layout[r.code][Len(params) + 1] = R!Text
    /\ reads[1] = Len(r.params[Len(params) + 1])
    /\ reads[1] # 0
    /\ wire = Cat(r.params[Len(params) + 1], Cat(FieldsFrom(r, Len(params) + 2), t))

\* In r: its code and its first parameters have been read, the others are
\* still to be read and are first in what has not been received.
InRequest(r, t) ==
    /\ msgCode = r.code
    /\ Len(params) <= Len(r.params)
    /\ \A j \in 1..Len(params) : params[j] = r.params[j]
    /\ Len(reads) = Len(r.params) - Len(params)
    /\ \A j \in 2..Len(reads) : reads[j] = R!Layout[r.code][Len(params) + j]
    /\ reads = <<>> => wire = t
    /\ reads # <<>> => AtField(r, t) \/ AtText(r, t)

EmptyTextSent == \E j \in 1..Len(sent) : <<>> \in R!ToSet(sent[j].params)

InStep ==
    \E tails :
       /\ Tails(tails)
       /\ Len(built) <= Len(sent)
       /\ \A j \in 1..Len(built) : built[j] = sent[j]
       /\ \/ fault /\ EmptyTextSent
          \/ ~fault /\ AtCode(tails[Len(built)])
          \/ /\ ~fault /\ Len(built) < Len(sent)
             /\ InRequest(sent[Len(built) + 1], tails[Len(built) + 1])
-----------------------------------------------------------------------------
\* The client sends another request while the thread is in r.
LEMMA SendInRequest ==
    ASSUME R!TypeOK, NEW r, Shaped(r), NEW t \in R!String, NEW b \in R!String,
           InRequest(r, t), wire' = Cat(wire, b), UNCHANGED <<msgCode, reads, params>>
    PROVE  InRequest(r, Cat(t, b))'
  <1> DEFINE m == Len(params)
  <1>1. params \in Seq(R!String) /\ reads \in Seq(Nat)
    BY DEF R!TypeOK
  <1>2. reads = <<>> => wire' = Cat(t, b)
    BY DEF InRequest
  <1>3. ASSUME AtField(r, t), reads # <<>> PROVE AtField(r, Cat(t, b))'
    <2>1. m + 1 \in 1..Len(r.params)
      BY <1>1, <1>3 DEF InRequest, Shaped
    <2>2. FieldsFrom(r, m + 1) \in R!String
      BY <2>1, FieldsAre, m + 1 \in 1..Len(r.params) + 1
    <2>3. wire' = Cat(FieldsFrom(r, m + 1), Cat(t, b))
      BY <1>3, <2>2, CatAssociates DEF AtField, R!String
    <2> QED BY <1>3, <2>3 DEF AtField
  <1>4. ASSUME AtText(r, t), reads # <<>> PROVE AtText(r, Cat(t, b))'
    <2>1. m + 1 \in 1..Len(r.params)
      BY <1>1, <1>4 DEF InRequest, Shaped
    <2>2. m + 2 \in 1..Len(r.params) + 1
      BY <2>1
    <2>3. FieldsFrom(r, m + 2) \in R!String /\ r.params[m + 1] \in R!String
      BY <2>1, <2>2, FieldsAre DEF Shaped
    <2>4. Cat(FieldsFrom(r, m + 2), t) \in R!String
      BY <2>3, CatIn DEF R!String
    <2>5. wire' = Cat(r.params[m + 1], Cat(Cat(FieldsFrom(r, m + 2), t), b))
      BY <1>4, <2>3, <2>4, CatAssociates DEF AtText, R!String
    <2>6. Cat(Cat(FieldsFrom(r, m + 2), t), b) = Cat(FieldsFrom(r, m + 2), Cat(t, b))
      BY <2>3, CatAssociates DEF R!String
    <2>7. wire' = Cat(r.params[m + 1], Cat(FieldsFrom(r, m + 2), Cat(t, b)))
      BY <2>5, <2>6
    <2> QED BY <1>4, <2>7 DEF AtText
  <1> QED BY <1>2, <1>3, <1>4 DEF InRequest

\* The code of r is read.
LEMMA CodeIsRead ==
    ASSUME R!TypeOK, NEW r, Shaped(r), NEW t \in R!String,
           wire = Cat(R!Bytes(r), t), params = <<>>, R!GetMessageTypeCode, whole'
    PROVE  InRequest(r, t)'
  <1>1. PICK k \in R!Receivable(3) :
           /\ R!Received(3, k)
           /\ msgCode' \in {R!AtoI(s) : s \in R!Strings(3, k)}
           /\ reads' = R!Reads(msgCode')
    BY DEF R!GetMessageTypeCode
  <1>2. k = 3 /\ wire' = SubSeq(wire, 3 + 1, Len(wire)) /\ params' = <<>>
    BY <1>1 DEF R!Received, R!GetMessageTypeCode
  <1>3. PICK s \in R!Strings(3, 3) : msgCode' = R!AtoI(s)
    BY <1>1, <1>2
  <1>4. /\ r.code \in Codes
        /\ Digits(r.code) \in R!String /\ Len(Digits(r.code)) = 3
        /\ R!AtoI(Digits(r.code)) = r.code
    BY DigitsAre DEF Shaped, R!String
  <1>5. /\ R!Bytes(r) = Cat(Digits(r.code), FieldsFrom(r, 1))
        /\ FieldsFrom(r, 1) \in R!String
        /\ FieldsFrom(r, Len(r.params) + 1) = <<>>
    <2>1. 1 \in 1..Len(r.params) + 1
      BY DEF Shaped
    <2> QED BY <2>1, FieldsAre
  <1>6. /\ wire = Cat(Digits(r.code), Cat(FieldsFrom(r, 1), t))
        /\ Cat(FieldsFrom(r, 1), t) \in R!String
    BY <1>4, <1>5, CatAssociates, CatIn DEF R!String
  <1>7. msgCode' = r.code /\ wire' = Cat(FieldsFrom(r, 1), t)
    <2> DEFINE a == Digits(r.code)
               b == Cat(FieldsFrom(r, 1), t)
    <2>1. a \in R!String /\ b \in R!String /\ wire = Cat(a, b) /\ 3 = Len(a)
      BY <1>4, <1>6
    <2> HIDE DEF a, b
    <2>2. s = a /\ SubSeq(wire, 3 + 1, Len(wire)) = b
      BY <2>1, ReceivedWhole
    <2> QED BY <1>2, <1>3, <1>4, <2>2 DEF a, b
  <1>8. reads' = R!Layout[r.code]
    BY <1>1, <1>4, <1>7, LayoutIs DEF R!Reads
  <1>9. reads' \in Seq(Nat) /\ Len(reads') = Len(r.params) /\ Len(r.params) \in Nat
    BY <1>8 DEF Shaped
  <1>10. Len(params') = 0
    BY <1>2
  <1>11. reads' = <<>> => wire' = t
    <2> SUFFICES ASSUME reads' = <<>> PROVE wire' = t
      OBVIOUS
    <2>1. Len(r.params) = 0
      BY <1>9
    <2>2. FieldsFrom(r, 1) = <<>>
      BY <1>5, <2>1
    <2> QED BY <1>7, <2>2, CatEmpty DEF R!String
  <1>12. AtField(r, t)'
    BY <1>7, <1>8, <1>10 DEF AtField
  <1>13. \A j \in 2..Len(reads') : reads'[j] = R!Layout[r.code][Len(params') + j]
    BY <1>8, <1>9, <1>10
  <1> QED BY <1>7, <1>9, <1>10, <1>11, <1>12, <1>13 DEF InRequest

\* The length of a text of r is read; a text of length 0 kills the process.
LEMMA LengthIsRead ==
    ASSUME R!TypeOK, NEW r, Shaped(r), NEW t \in R!String,
           InRequest(r, t), R!GetLength, whole'
    PROVE  \/ fault' /\ \E j \in 1..Len(r.params) : r.params[j] = <<>>
           \/ UNCHANGED fault /\ InRequest(r, t)'
  <1> DEFINE m == Len(params)
             l == Len(r.params[m + 1])
             rest == Cat(FieldsFrom(r, m + 2), t)
  <1>1. /\ params \in Seq(R!String) /\ reads \in Seq(Nat) /\ reads # <<>>
        /\ reads[1] = R!Text /\ UNCHANGED <<msgCode, params>>
    BY DEF R!TypeOK, R!GetLength, R!Building
  <1>2. m + 1 \in 1..Len(r.params) /\ m + 2 \in 1..Len(r.params) + 1
    BY <1>1 DEF InRequest, Shaped
  <1>3. AtField(r, t)
    BY <1>1 DEF InRequest, AtText, R!Text
  <1>4. R!Layout[r.code][m + 1] = R!Text
    BY <1>1, <1>3 DEF AtField
  <1>5. r.params[m + 1] \in R!String /\ l \in 0..99
    BY <1>2, <1>4 DEF Shaped
  <1>6. /\ R!TwoDigits(l) \in R!String /\ Len(R!TwoDigits(l)) = 2
        /\ rest \in R!String
        /\ Cat(r.params[m + 1], rest) \in R!String
        /\ wire = Cat(R!TwoDigits(l), Cat(r.params[m + 1], rest))
    <2>2. R!TwoDigits(l) \in R!String /\ Len(R!TwoDigits(l)) = 2
      <3> HIDE DEF l
      <3> QED BY <1>5, LengthDigits DEF R!String
    <2>3. FieldsFrom(r, m + 2) \in R!String
      BY <1>2, FieldsAre
    <2>4. rest \in R!String
      BY <2>3, CatIn DEF R!String
    <2>5. Cat(r.params[m + 1], rest) \in R!String
      BY <1>5, <2>4, CatIn DEF R!String
    <2>6. FieldsFrom(r, m + 1) = Cat(Cat(R!TwoDigits(l), r.params[m + 1]), FieldsFrom(r, m + 2))
      <3>1. FieldsFrom(r, m + 1) = Cat(Field(r, m + 1), FieldsFrom(r, (m + 1) + 1))
        BY <1>2, FieldsAre
      <3>2. (m + 1) + 1 = m + 2
        BY <1>1
      <3> QED BY <1>4, <3>1, <3>2 DEF Field
    <2>7. wire = Cat(Cat(Cat(R!TwoDigits(l), r.params[m + 1]), FieldsFrom(r, m + 2)), t)
      BY <1>3, <2>6 DEF AtField
    <2>8. Cat(R!TwoDigits(l), r.params[m + 1]) \in R!String
      BY <1>5, <2>2, CatIn DEF R!String
    <2>9. wire = Cat(Cat(R!TwoDigits(l), r.params[m + 1]), rest)
      BY <2>3, <2>7, <2>8, CatAssociates DEF R!String
    <2>10. wire = Cat(R!TwoDigits(l), Cat(r.params[m + 1], rest))
      <3> DEFINE a == R!TwoDigits(l)
                 b == r.params[m + 1]
      <3>1. a \in Seq(R!Char) /\ b \in Seq(R!Char) /\ rest \in Seq(R!Char)
        BY <1>5, <2>2, <2>4 DEF R!String
      <3>2. wire = Cat(Cat(a, b), rest)
        BY <2>9
      <3> HIDE DEF a, b, rest
      <3>3. wire = Cat(a, Cat(b, rest))
        BY <3>1, <3>2, CatAssociates
      <3> QED BY <3>3 DEF a, b
    <2> QED BY <2>2, <2>4, <2>5, <2>10
  <1>7. PICK k \in R!Receivable(2) :
           /\ R!Received(2, k)
           /\ \E n \in {R!AtoI(s) : s \in R!Strings(2, k)} :
                 \/ n = 0 /\ fault' = TRUE /\ UNCHANGED reads
                 \/ n # 0 /\ reads' = R!TextOf(n) \o Tail(reads) /\ UNCHANGED fault
    BY DEF R!GetLength
  <1>8. k = 2 /\ wire' = SubSeq(wire, 2 + 1, Len(wire))
    BY <1>7 DEF R!Received
  <1>9. PICK s \in R!Strings(2, 2) :
           \/ R!AtoI(s) = 0 /\ fault' = TRUE /\ UNCHANGED reads
           \/ R!AtoI(s) # 0 /\ reads' = <<R!AtoI(s)>> \o Tail(reads) /\ UNCHANGED fault
    BY <1>7, <1>8 DEF R!TextOf
  <1> HIDE DEF l, rest
  <1>10. s = R!TwoDigits(l) /\ wire' = Cat(r.params[m + 1], rest)
    <2> DEFINE a == R!TwoDigits(l)
               b == Cat(r.params[m + 1], rest)
    <2>1. a \in R!String /\ b \in R!String /\ wire = Cat(a, b) /\ 2 = Len(a)
      BY <1>6
    <2> HIDE DEF a, b
    <2>2. s = a /\ SubSeq(wire, 2 + 1, Len(wire)) = b
      BY <2>1, ReceivedWhole
    <2> QED BY <1>8, <2>2 DEF a, b
  <1>11. R!AtoI(s) = l
    <2>1. /\ Len(s) = 2 /\ s[1] \in 0..9 /\ s[2] \in 0..9
          /\ 10 * s[1] + s[2] = l
      BY <1>5, <1>10, LengthDigits
    <2>2. s \in R!String
      BY <1>6, <1>10
    <2>3. IsBuffer(s)
      <3>1. 2 \in 0..3 /\ Len(s) <= 2
        BY <2>1
      <3> QED BY <2>2, <3>1, IsShort
    <2>4. \A j \in 1..2 : s[j] \in 0..9
      BY <2>1
    <2>5. R!AtoI(s) = 10 * s[1] + s[2]
      BY <2>1, <2>3, <2>4, AtoIShort
    <2> QED BY <1>5, <2>1, <2>5
  <1>12. CASE R!AtoI(s) = 0
    <2>1. fault'
      BY <1>9, <1>12
    <2>2. r.params[m + 1] = <<>>
      <3> DEFINE text == r.params[m + 1]
      <3>1. text \in Seq(R!Char) /\ Len(text) = 0
        BY <1>5, <1>11, <1>12 DEF l, R!String
      <3> HIDE DEF text
      <3>2. text = <<>>
        BY <3>1
      <3> QED BY <3>2 DEF text
    <2> QED BY <1>2, <2>1, <2>2
  <1>13. CASE R!AtoI(s) # 0
    <2>1. reads' = <<l>> \o Tail(reads) /\ UNCHANGED fault /\ l # 0
      BY <1>9, <1>11, <1>13
    <2>2. /\ Len(reads') = Len(reads) /\ reads' # <<>> /\ reads'[1] = l
          /\ \A j \in 2..Len(reads) : reads'[j] = reads[j]
      BY <1>1, <1>5, <2>1
    <2>3. AtText(r, t)'
      BY <1>1, <1>4, <1>10, <2>1, <2>2 DEF AtText, l, rest
    <2> QED BY <1>1, <2>1, <2>2, <2>3 DEF InRequest
  <1> QED BY <1>12, <1>13

\* A parameter of r is read.
LEMMA PartIsRead ==
    ASSUME R!TypeOK, NEW r, Shaped(r), NEW t \in R!String,
           InRequest(r, t), R!GetStringPart, whole'
    PROVE  InRequest(r, t)'
  <1> DEFINE m == Len(params)
             p == r.params[m + 1]
             rest == Cat(FieldsFrom(r, m + 2), t)
  <1>1. /\ params \in Seq(R!String) /\ reads \in Seq(Nat) /\ reads # <<>>
        /\ reads[1] # R!Text /\ reads' = Tail(reads) /\ UNCHANGED msgCode
    BY DEF R!TypeOK, R!GetStringPart, R!Building
  <1>2. m + 1 \in 1..Len(r.params) /\ m + 2 \in 1..Len(r.params) + 1
    BY <1>1 DEF InRequest, Shaped
  <1>3. p \in R!String /\ FieldsFrom(r, m + 2) \in R!String /\ rest \in R!String
    <2>1. p \in R!String /\ FieldsFrom(r, m + 2) \in R!String
      BY <1>2, FieldsAre DEF Shaped
    <2> QED BY <2>1, CatIn DEF R!String
  <1>4. wire = Cat(p, rest) /\ reads[1] = Len(p)
    <2>1. CASE AtField(r, t)
      <3>1. R!Layout[r.code][m + 1] # R!Text
        BY <1>1, <2>1 DEF AtField
      <3>2. Field(r, m + 1) = p /\ reads[1] = Len(p)
        BY <1>2, <2>1, <3>1 DEF Field, Shaped, AtField
      <3>3. FieldsFrom(r, m + 1) = Cat(Field(r, m + 1), FieldsFrom(r, (m + 1) + 1))
        BY <1>2, FieldsAre
      <3>4. (m + 1) + 1 = m + 2
        BY <1>1
      <3>5. wire = Cat(Cat(p, FieldsFrom(r, m + 2)), t)
        BY <2>1, <3>2, <3>3, <3>4 DEF AtField
      <3> QED BY <1>3, <3>2, <3>5, CatAssociates DEF R!String
    <2>2. CASE AtText(r, t)
      BY <2>2 DEF AtText
    <2> QED BY <1>1, <2>1, <2>2 DEF InRequest
  <1> HIDE DEF p, rest
  <1>5. PICK k \in R!Receivable(reads[1]) :
           /\ R!Received(reads[1], k)
           /\ \E s \in R!Strings(reads[1], k) : params' = Append(params, s)
    <2>1. Head(reads) = reads[1]
      BY <1>1
    <2> QED BY <2>1, Zenon DEF R!GetStringPart
  <1>6. k = reads[1] /\ wire' = SubSeq(wire, reads[1] + 1, Len(wire))
    BY <1>5 DEF R!Received
  <1>7. PICK s \in R!Strings(reads[1], reads[1]) : params' = Append(params, s)
    BY <1>5, <1>6
  <1>8. s = p /\ wire' = rest
    <2>1. s = p /\ SubSeq(wire, reads[1] + 1, Len(wire)) = rest
      BY <1>3, <1>4, ReceivedWhole
    <2> QED BY <1>6, <2>1
  <1>9. /\ Len(params') = m + 1
        /\ \A j \in 1..m : params'[j] = params[j]
        /\ params'[m + 1] = r.params[m + 1]
    BY <1>1, <1>3, <1>7, <1>8 DEF p
  <1>10. \A j \in 1..Len(params') : params'[j] = r.params[j]
    <2> SUFFICES ASSUME NEW j \in 1..m + 1 PROVE params'[j] = r.params[j]
      BY <1>9
    <2>1. j \in 1..m \/ j = m + 1
      BY <1>1
    <2> QED BY <1>9, <2>1 DEF InRequest
  <1>11. /\ Len(reads') = Len(reads) - 1
         /\ \A j \in 1..Len(reads') : reads'[j] = reads[j + 1]
    BY <1>1
  <1>12. \A j \in 1..Len(reads') : reads'[j] = R!Layout[r.code][Len(params') + j]
    <2> SUFFICES ASSUME NEW j \in 1..Len(reads')
                 PROVE  reads'[j] = R!Layout[r.code][Len(params') + j]
      OBVIOUS
    <2>1. j + 1 \in 2..Len(reads) /\ m + (j + 1) = (m + 1) + j
      BY <1>1, <1>11
    <2>2. reads[j + 1] = R!Layout[r.code][m + (j + 1)]
      BY <2>1 DEF InRequest
    <2> QED BY <1>9, <1>11, <2>1, <2>2
  <1>13. Len(reads') = Len(r.params) - Len(params') /\ Len(params') <= Len(r.params)
    BY <1>1, <1>2, <1>9, <1>11 DEF InRequest, Shaped
  <1>14. m + 2 = Len(params') + 1
    BY <1>1, <1>9
  <1>15. reads' = <<>> => wire' = t
    <2> SUFFICES ASSUME reads' = <<>> PROVE wire' = t
      OBVIOUS
    <2>1. Len(reads') = 0
      OBVIOUS
    <2>2. Len(params') + 1 = Len(r.params) + 1
      BY <1>1, <1>9, <1>13, <2>1 DEF Shaped
    <2>3. FieldsFrom(r, m + 2) = <<>>
      BY <1>14, <2>2, FieldsAre
    <2> QED BY <1>8, <2>3, CatEmpty DEF rest, R!String
  <1>16. reads' # <<>> => AtField(r, t)'
    <2> SUFFICES ASSUME reads' # <<>> PROVE AtField(r, t)'
      OBVIOUS
    <2>1. reads'[1] = R!Layout[r.code][Len(params') + 1]
      <3>1. reads' \in Seq(Nat)
        BY <1>1
      <3>2. 1 \in 1..Len(reads')
        BY <3>1
      <3> QED BY <1>12, <3>2
    <2> QED BY <1>8, <1>14, <2>1 DEF AtField, rest
  <1>17. \A j \in 2..Len(reads') : reads'[j] = R!Layout[r.code][Len(params') + j]
    BY <1>12
  <1>18. msgCode' = r.code
    BY <1>1 DEF InRequest
  <1> QED BY <1>10, <1>13, <1>15, <1>16, <1>17, <1>18 DEF InRequest

\* What has been read of r is r.
LEMMA BuildsRequest ==
    ASSUME R!TypeOK, NEW r, Shaped(r), NEW t, InRequest(r, t), R!Build
    PROVE  built' = Append(built, r) /\ AtCode(t)'
  <1>1. /\ built' = Append(built, IF msgCode \in DOMAIN R!Layout
                                  THEN [code |-> msgCode, params |-> params] ELSE <<>>)
        /\ msgCode' = R!NoCode /\ reads' = <<3>> /\ params' = <<>> /\ wire' = wire
        /\ reads = <<>>
    BY DEF R!Build
  <1>2. msgCode = r.code /\ msgCode \in DOMAIN R!Layout /\ wire = t
    BY <1>1, LayoutIs DEF InRequest, Shaped
  <1>3. params = r.params
    <2>1. params \in Seq(R!String) /\ r.params \in Seq(R!String)
      BY DEF R!TypeOK, Shaped
    <2>2. Len(params) = Len(r.params) /\ \A j \in 1..Len(params) : params[j] = r.params[j]
      BY <1>1, <2>1 DEF InRequest
    <2> QED BY <2>1, <2>2
  <1>4. built' = Append(built, r)
    BY <1>1, <1>2, <1>3 DEF Shaped
  <1> QED BY <1>1, <1>2, <1>4 DEF AtCode

LEMMA InStepInit == R!Init => InStep
  <1> SUFFICES ASSUME R!Init PROVE InStep
    OBVIOUS
  <1> DEFINE tails == [j \in 0..0 |-> <<>>]
  <1>1. sent = <<>> /\ wire = <<>> /\ built = <<>>
    BY DEF R!Init
  <1>2. Len(sent) = 0 /\ Len(built) = 0
    BY <1>1
  <1>3. Tails(tails)
    <2>1. <<>> \in R!String
      BY DEF R!String
    <2> QED BY <1>2, <2>1 DEF Tails
  <1>4. tails[Len(built)] = <<>>
    BY <1>2
  <1>5. AtCode(tails[Len(built)])
    BY <1>4 DEF AtCode, R!Init
  <1> HIDE DEF tails
  <1> QED BY <1>2, <1>3, <1>5 DEF InStep, R!Init, R!Init

\* Another request behind the others.
LEMMA SendInStep ==
    ASSUME R!RequestStreamAssumption, R!TypeOK, R!Send, InStep
    PROVE  InStep'
  <1>1. PICK r \in Requests : sent' = Append(sent, r) /\ wire' = wire \o R!Bytes(r)
    BY DEF R!Send
  <1>2. UNCHANGED <<msgCode, reads, params, built, fault>>
    BY DEF R!Send
  <1>3. PICK tails :
           /\ Tails(tails)
           /\ Len(built) <= Len(sent)
           /\ \A j \in 1..Len(built) : built[j] = sent[j]
           /\ \/ fault /\ EmptyTextSent
              \/ ~fault /\ AtCode(tails[Len(built)])
              \/ /\ ~fault /\ Len(built) < Len(sent)
                 /\ InRequest(sent[Len(built) + 1], tails[Len(built) + 1])
    BY DEF InStep
  <1>16. PICK b, n, m : b = R!Bytes(r) /\ n = Len(sent) /\ m = Len(built)
    OBVIOUS
  <1>17. PICK longer :
           longer = [j \in 0..(n + 1) |-> IF j <= n THEN Cat(tails[j], b) ELSE <<>>]
    OBVIOUS
  <1>4. b \in R!String
    BY <1>16, RequestsAreShaped, FieldsAre
  <1>5. /\ sent \in Seq(Requests) /\ built \in Seq(R!Message \cup {<<>>})
        /\ Len(sent') = n + 1 /\ sent'[n + 1] = r
        /\ \A j \in 1..n : sent'[j] = sent[j]
    BY <1>1, <1>16 DEF R!TypeOK
  <1>6. n \in Nat /\ m \in Nat /\ m <= n
    BY <1>3, <1>5, <1>16
  <1>7. /\ \A j \in 0..n : tails[j] \in R!String
        /\ tails[n] = <<>>
        /\ \A j \in 1..n : tails[j - 1] = Cat(R!Bytes(sent[j]), tails[j])
    BY <1>3, <1>16 DEF Tails
  <1>8. /\ \A j \in 0..n : longer[j] = Cat(tails[j], b)
        /\ longer[n + 1] = <<>>
    BY <1>6, <1>17
  <1>9. longer \in [0..(n + 1) -> R!String]
    <2>1. \A j \in 0..n : Cat(tails[j], b) \in R!String
      BY <1>4, <1>7, CatIn DEF R!String
    <2>2. <<>> \in R!String
      BY DEF R!String
    <2> QED BY <1>6, <1>17, <2>1, <2>2
  <1>10. ASSUME NEW j \in 1..(n + 1)
         PROVE  longer[j - 1] = Cat(R!Bytes(sent'[j]), longer[j])
    <2>1. CASE j \in 1..n
      <3>1. /\ longer[j - 1] = Cat(tails[j - 1], b)
            /\ longer[j] = Cat(tails[j], b)
            /\ tails[j - 1] = Cat(R!Bytes(sent[j]), tails[j])
            /\ tails[j] \in R!String
        BY <1>6, <1>7, <1>8, <2>1
      <3>2. R!Bytes(sent[j]) \in R!String
        <4>1. sent[j] \in Requests
          BY <1>5, <1>16, <2>1
        <4> QED BY <4>1, RequestsAreShaped, FieldsAre
      <3>3. longer[j - 1] = Cat(R!Bytes(sent[j]), longer[j])
        BY <1>4, <3>1, <3>2, CatAssociates DEF R!String
      <3> QED BY <1>5, <2>1, <3>3
    <2>2. CASE j = n + 1
      <3>1. j - 1 = n /\ n \in 0..n
        BY <1>6, <2>2
      <3>2. longer[j - 1] = Cat(<<>>, b) /\ longer[j] = <<>>
        BY <1>7, <1>8, <2>2, <3>1
      <3>3. Cat(<<>>, b) = b /\ Cat(b, <<>>) = b
        BY <1>4, CatEmpty DEF R!String
      <3>4. R!Bytes(sent'[j]) = b
        BY <1>5, <1>16, <2>2
      <3> QED BY <3>2, <3>3, <3>4
    <2> QED BY <1>6, <2>1, <2>2
  <1>11. Tails(longer)'
    BY <1>5, <1>8, <1>9, <1>10 DEF Tails
  <1>12. Len(built') <= Len(sent') /\ \A j \in 1..Len(built') : built'[j] = sent'[j]
    <2>1. \A j \in 1..m : j \in 1..n
      BY <1>6
    <2> QED BY <1>2, <1>3, <1>5, <1>6, <1>16, <2>1
  <1>13. CASE fault /\ EmptyTextSent
    <2>1. PICK j \in 1..n : <<>> \in R!ToSet(sent[j].params)
      BY <1>13, <1>16 DEF EmptyTextSent
    <2>2. j \in 1..(n + 1) /\ sent'[j] = sent[j]
      BY <1>5, <1>6
    <2>3. EmptyTextSent'
      BY <1>5, <2>1, <2>2 DEF EmptyTextSent
    <2> QED BY <1>2, <1>11, <1>12, <1>13, <2>3 DEF InStep
  <1>14. CASE ~fault /\ AtCode(tails[Len(built)])
    <2>1. m \in 0..n
      BY <1>6
    <2>2. wire' = longer[m]
      BY <1>1, <1>8, <1>14, <1>16, <2>1 DEF AtCode, Cat
    <2>3. AtCode(longer[m])'
      BY <1>2, <1>14, <2>2 DEF AtCode
    <2>4. m = Len(built')
      BY <1>2, <1>16
    <2>5. AtCode(longer[Len(built)])'
      BY <2>3, <2>4
    <2> QED BY <1>2, <1>11, <1>12, <1>14, <2>5 DEF InStep
  <1>15. CASE /\ ~fault /\ Len(built) < Len(sent)
              /\ InRequest(sent[Len(built) + 1], tails[Len(built) + 1])
    <2>1. m + 1 \in 1..n /\ m + 1 \in 0..n /\ m < n + 1
      BY <1>6, <1>15, <1>16
    <2>2. PICK q, t : q = sent[m + 1] /\ t = tails[m + 1]
      OBVIOUS
    <2>3. q \in Requests /\ t \in R!String /\ InRequest(q, t)
      BY <1>5, <1>7, <1>15, <1>16, <2>1, <2>2
    <2>4. Shaped(q)
      BY <2>3, RequestsAreShaped
    <2>5. sent'[m + 1] = q /\ longer[m + 1] = Cat(t, b)
      BY <1>5, <1>8, <2>1, <2>2
    <2>6. wire' = Cat(wire, b)
      BY <1>1, <1>16 DEF Cat
    <2>7. InRequest(q, Cat(t, b))'
      BY <1>2, <1>4, <2>3, <2>4, <2>6, SendInRequest
    <2>8. Len(built') = m /\ Len(built') < Len(sent')
      BY <1>2, <1>5, <1>16, <2>1
    <2>9. InRequest(sent[Len(built) + 1], longer[Len(built) + 1])'
      BY <2>5, <2>7, <2>8
    <2> QED BY <1>2, <1>11, <1>12, <1>15, <2>8, <2>9 DEF InStep
  <1> QED BY <1>3, <1>13, <1>14, <1>15

\* A step of the server, all of whose receives have filled their buffers.
LEMMA ServerInStep ==
    ASSUME R!RequestStreamAssumption, R!TypeOK, R!Server, InStep, whole'
    PROVE  InStep'
  <1>1. PICK tails :
           /\ Tails(tails)
           /\ Len(built) <= Len(sent)
           /\ \A j \in 1..Len(built) : built[j] = sent[j]
           /\ \/ fault /\ EmptyTextSent
              \/ ~fault /\ AtCode(tails[Len(built)])
              \/ /\ ~fault /\ Len(built) < Len(sent)
                 /\ InRequest(sent[Len(built) + 1], tails[Len(built) + 1])
    BY DEF InStep
  <1>2. ~fault /\ UNCHANGED <<sent, closed>>
    BY DEF R!Server, R!GetMessageTypeCode, R!GetLength, R!GetStringPart, R!Build,
           R!Building, R!Running
  <1>3. PICK n, m : n = Len(sent) /\ m = Len(built)
    OBVIOUS
  <1>4. /\ sent \in Seq(Requests) /\ built \in Seq(R!Message \cup {<<>>})
        /\ wire \in R!String
        /\ n \in Nat /\ m \in Nat /\ m <= n
    <2>1. sent \in Seq(Requests) /\ built \in Seq(R!Message \cup {<<>>}) /\ wire \in R!String
      BY DEF R!TypeOK
    <2> QED BY <1>1, <1>3, <2>1
  <1>5. /\ \A j \in 0..n : tails[j] \in R!String
        /\ tails[n] = <<>>
        /\ \A j \in 1..n : tails[j - 1] = Cat(R!Bytes(sent[j]), tails[j])
        /\ Tails(tails)'
    BY <1>1, <1>2, <1>3 DEF Tails
  <1>6. CASE ~fault /\ AtCode(tails[Len(built)])
    <2>1. R!GetMessageTypeCode
      <3>1. msgCode = R!NoCode
        BY <1>6 DEF AtCode
      <3> QED BY <3>1 DEF R!Server, R!GetLength, R!GetStringPart, R!Build, R!Building
    <2>2. wire = tails[m] /\ params = <<>>
      BY <1>3, <1>6 DEF AtCode
    <2>3. UNCHANGED <<built, fault>>
      BY <2>1 DEF R!GetMessageTypeCode
    <2>4. m < n
      <3>1. PICK k \in R!Receivable(3) : R!Received(3, k)
        BY <2>1 DEF R!GetMessageTypeCode
      <3>2. wire # <<>>
        <4>1. k = 3
          BY <3>1 DEF R!Received
        <4>2. 3 <= Len(wire)
          BY <4>1 DEF R!Receivable
        <4> QED BY <1>4, <4>2 DEF R!String
      <3>3. m # n
        BY <1>5, <2>2, <3>2
      <3> QED BY <1>4, <3>3
    <2>5. m + 1 \in 1..n /\ m + 1 \in 0..n /\ (m + 1) - 1 = m
      BY <1>4, <2>4
    <2>6. PICK r, t : r = sent[m + 1] /\ t = tails[m + 1]
      OBVIOUS
    <2>7. Shaped(r) /\ t \in R!String /\ wire = Cat(R!Bytes(r), t)
      <3>1. r \in Requests
        BY <1>3, <1>4, <2>5, <2>6
      <3> QED BY <1>5, <2>2, <2>5, <2>6, <3>1, RequestsAreShaped
    <2>8. InRequest(r, t)'
      BY <2>1, <2>2, <2>7, CodeIsRead
    <2>9. /\ Len(built') = m /\ Len(built') < Len(sent')
          /\ \A j \in 1..Len(built') : built'[j] = sent'[j]
      BY <1>1, <1>2, <1>3, <2>3, <2>4
    <2>10. InRequest(sent[Len(built) + 1], tails[Len(built) + 1])'
      BY <1>2, <2>6, <2>8, <2>9
    <2>11. Len(built') <= Len(sent')
      BY <1>2, <1>3, <1>4, <2>3
    <2> QED BY <1>2, <1>5, <2>3, <2>9, <2>10, <2>11 DEF InStep
  <1>7. CASE /\ ~fault /\ Len(built) < Len(sent)
             /\ InRequest(sent[Len(built) + 1], tails[Len(built) + 1])
    <2>1. m + 1 \in 1..n /\ m + 1 \in 0..n /\ (m + 1) - 1 = m
      BY <1>3, <1>4, <1>7
    <2>2. PICK r, t : r = sent[m + 1] /\ t = tails[m + 1]
      OBVIOUS
    <2>3. r \in Requests /\ Shaped(r) /\ t \in R!String /\ InRequest(r, t)
      <3>1. r \in Requests
        BY <1>3, <1>4, <2>1, <2>2
      <3> QED BY <1>3, <1>5, <1>7, <2>1, <2>2, <3>1, RequestsAreShaped
    <2>4. ~R!GetMessageTypeCode
      <3>1. msgCode \in 0..999
        <4>1. msgCode = r.code
          BY <2>3, Zenon DEF InRequest
        <4>2. r.code \in Codes
          BY <2>3, Zenon DEF Shaped
        <4>3. r.code \in 0..999
          BY <4>2, CodeDigits
        <4> QED BY <4>1, <4>3
      <3>2. msgCode # R!NoCode
        BY <3>1 DEF R!NoCode
      <3> QED BY <3>2 DEF R!GetMessageTypeCode
    <2>5. ASSUME UNCHANGED <<built, fault>>, InRequest(r, t)' PROVE InStep'
      <3>1. /\ Len(built') = m /\ Len(built') < Len(sent') /\ Len(built') <= Len(sent')
            /\ \A j \in 1..Len(built') : built'[j] = sent'[j]
        BY <1>1, <1>2, <1>3, <1>7, <2>5
      <3>2. InRequest(sent[Len(built) + 1], tails[Len(built) + 1])'
        BY <1>2, <2>2, <2>5, <3>1
      <3> QED BY <1>2, <1>5, <2>5, <3>1, <3>2 DEF InStep
    <2>6. CASE R!GetLength
      <3>1. UNCHANGED built
        BY <2>6 DEF R!GetLength
      <3>2. CASE UNCHANGED fault /\ InRequest(r, t)'
        BY <2>5, <3>1, <3>2
      <3>3. CASE fault' /\ \E j \in 1..Len(r.params) : r.params[j] = <<>>
        <4>1. <<>> \in R!ToSet(r.params)
          <5>1. DOMAIN r.params = 1..Len(r.params)
            BY <2>3 DEF Shaped
          <5> QED BY <3>3, <5>1 DEF R!ToSet
        <4>2. EmptyTextSent'
          BY <1>2, <1>3, <2>1, <2>2, <4>1 DEF EmptyTextSent
        <4>3. /\ Len(built') <= Len(sent')
              /\ \A j \in 1..Len(built') : built'[j] = sent'[j]
          BY <1>1, <1>2, <3>1
        <4> QED BY <1>5, <3>3, <4>2, <4>3 DEF InStep
      <3> QED BY <2>3, <2>6, <3>2, <3>3, LengthIsRead
    <2>7. CASE R!GetStringPart
      <3>1. UNCHANGED <<built, fault>>
        BY <2>7 DEF R!GetStringPart
      <3>2. InRequest(r, t)'
        BY <2>3, <2>7, PartIsRead
      <3> QED BY <2>5, <3>1, <3>2
    <2>8. CASE R!Build
      <3>1. built' = Append(built, r) /\ AtCode(t)' /\ UNCHANGED fault
        BY <2>3, <2>8, BuildsRequest DEF R!Build
      <3>2. /\ Len(built') = m + 1 /\ built'[m + 1] = r
            /\ \A j \in 1..m : built'[j] = built[j]
        BY <1>3, <1>4, <3>1
      <3>3. Len(built') <= Len(sent')
        BY <1>2, <1>3, <2>1, <3>2
      <3>4. \A j \in 1..Len(built') : built'[j] = sent'[j]
        <4> SUFFICES ASSUME NEW j \in 1..m + 1 PROVE built'[j] = sent[j]
          BY <1>2, <3>2
        <4>1. j \in 1..m \/ j = m + 1
          BY <1>4
        <4> QED BY <1>1, <1>3, <2>2, <3>2, <4>1
      <3>5. AtCode(tails[Len(built)])'
        BY <2>2, <3>1, <3>2
      <3> QED BY <1>2, <1>5, <3>1, <3>3, <3>4, <3>5 DEF InStep
    <2> QED BY <2>4, <2>6, <2>7, <2>8 DEF R!Server
  <1> QED BY <1>1, <1>2, <1>6, <1>7

\* What has been read and what has not are what the client has sent.
Streamed == R!TypeOK /\ (whole => InStep)

LEMMA StreamedStep ==
    R!RequestStreamAssumption /\ Streamed /\ [R!Next]_(R!vars) => Streamed'
  <1> SUFFICES ASSUME R!RequestStreamAssumption, Streamed, [R!Next]_(R!vars), whole'
               PROVE  R!TypeOK' /\ InStep'
    BY RequestStep DEF Streamed
  <1>1. R!TypeOK /\ R!TypeOK'
    BY RequestStep DEF Streamed
  <1>2. whole
    BY DEF R!Next, R!Send, R!Close, R!Server, R!GetMessageTypeCode, R!GetLength,
           R!GetStringPart, R!Build, R!Received, R!vars
  <1>3. InStep
    BY <1>2 DEF Streamed
  <1>4. CASE R!Send
    BY <1>1, <1>3, <1>4, SendInStep
  <1>5. CASE R!Server
    BY <1>1, <1>3, <1>5, ServerInStep
  <1>6. CASE R!Close \/ UNCHANGED R!vars
    <2>1. UNCHANGED <<sent, wire, msgCode, reads, params, built, fault>>
      BY <1>6 DEF R!Close, R!vars
    <2> QED BY <1>1, <1>3, <2>1 DEF InStep, Tails, EmptyTextSent, AtCode, InRequest, AtField, AtText
  <1> QED BY <1>1, <1>4, <1>5, <1>6 DEF R!Next

LEMMA StreamedBuilds == Streamed => BuildsWhatWasSent
  <1> SUFFICES ASSUME Streamed, whole
               PROVE  /\ R!IsPrefix(built, sent)
                      /\ fault => \E j \in DOMAIN sent : <<>> \in R!ToSet(sent[j].params)
    BY DEF BuildsWhatWasSent, R!BuildsWhatWasSent
  <1>1. sent \in Seq(Requests) /\ built \in Seq(R!Message \cup {<<>>})
    BY DEF Streamed, R!TypeOK
  <1>2. InStep
    BY DEF Streamed
  <1>3. Len(built) <= Len(sent) /\ \A j \in 1..Len(built) : built[j] = sent[j]
    BY <1>2 DEF InStep
  <1>4. R!IsPrefix(built, sent)
    <2> DEFINE a == SubSeq(built, 1, Len(built))
               b == SubSeq(sent, 1, Len(built))
               T == R!Message \cup {<<>>} \cup Requests
    <2>1. /\ a \in Seq(T) /\ Len(a) = Len(built)
          /\ \A j \in 1..Len(built) : a[j] = built[j]
      BY <1>1
    <2>2. /\ b \in Seq(T) /\ Len(b) = Len(built)
          /\ \A j \in 1..Len(built) : b[j] = sent[j]
      BY <1>1, <1>3
    <2> HIDE DEF a, b, T
    <2>3. a = b
      BY <1>3, <2>1, <2>2
    <2> QED BY <1>3, <2>3 DEF R!IsPrefix, a, b
  <1>5. fault => \E j \in DOMAIN sent : <<>> \in R!ToSet(sent[j].params)
    <2>1. DOMAIN sent = 1..Len(sent)
      BY <1>1
    <2> QED BY <1>2, <2>1 DEF InStep, EmptyTextSent
  <1> QED BY <1>4, <1>5

\* The types of RequestStream.
THEOREM RequestTypeCorrect == R!Spec => []R!TypeOK
  <1>1. R!TypeOK /\ [R!Next]_(R!vars) => R!TypeOK'
    BY RequestStep, WireAssumption
  <1> QED BY <1>1, RequestInit, PTL DEF R!Spec

\* As long as every recv fills its buffer, buildRecieveMessage builds the
\* requests the client sends, whatever they are and however many.
THEOREM RequestsAreBuilt == R!Spec => []BuildsWhatWasSent
  <1>1. R!RequestStreamAssumption
    BY WireAssumption
  <1>2. R!Init => Streamed
    BY RequestInit, InStepInit DEF Streamed
  <1>3. Streamed /\ [R!Next]_(R!vars) => Streamed'
    BY <1>1, StreamedStep
  <1> QED BY <1>2, <1>3, StreamedBuilds, PTL DEF R!Spec
-----------------------------------------------------------------------------
(* Induction, and what std::ostream << n writes (Framing!Digits). *)

\* Induction as a fact about sets, from the well-foundedness of the naturals: a
\* predicate is given as the set of the numbers that have it.
LEMMA Least ==
    ASSUME NEW T \in SUBSET Nat, T # {}
    PROVE  \E x \in T : \A y \in T : x <= y
  <1> DEFINE Less == {ss \in Nat \X Nat : ss[1] < ss[2]}
  <1>1. IsWellFoundedOn(Less, Nat)
    BY NatLessThanWellFounded DEF OpToRel
  <1> HIDE DEF Less
  <1>2. PICK x \in T : \A y \in T : <<y, x>> \notin Less
    BY <1>1, WFMin
  <1>3. \A y \in T : ~(y < x)
    BY <1>2 DEF Less
  <1> QED BY <1>3

LEMMA Induction ==
    ASSUME NEW T, 0 \in T, \A n \in Nat : n \in T => n + 1 \in T
    PROVE  \A n \in Nat : n \in T
  <1> SUFFICES ASSUME Nat \ T # {} PROVE FALSE
    OBVIOUS
  <1>1. PICK x \in Nat \ T : \A y \in Nat \ T : x <= y
    BY Least
  <1>2. x # 0 /\ x - 1 \in Nat /\ x - 1 \in T
    BY <1>1
  <1> QED BY <1>1, <1>2

-----------------------------------------------------------------------------
\* Digits is defined by recursion over all numbers.
LEMMA Tenth == ASSUME NEW m \in Nat, m >= 10
               PROVE  m \div 10 \in 1..(m - 1) /\ m % 10 \in 0..9
  OBVIOUS

\* One step of the recursion, and a function that follows it up to n.
DigitsStep(g, m) == IF m < 10 THEN <<m>> ELSE Append(g[m \div 10], m % 10)

DigitsUpTo(g, n) == \A m \in 0..n : g[m] = DigitsStep(g, m)

\* There is such a function for every n, and its last value is determined.
LEMMA DigitsUpToExists == \A n \in Nat : \E g : DigitsUpTo(g, n)
  <1> DEFINE T == {n \in Nat : \E g : DigitsUpTo(g, n)}
  <1>1. 0 \in T
    <2> DEFINE g == [m \in 0..0 |-> <<m>>]
    <2>1. DigitsUpTo(g, 0)
      BY DEF DigitsUpTo, DigitsStep
    <2> QED BY <2>1
  <1>2. ASSUME NEW n \in Nat, n \in T PROVE n + 1 \in T
    <2>1. PICK g : DigitsUpTo(g, n)
      BY <1>2
    <2> DEFINE h == [m \in 0..(n + 1) |-> IF m <= n THEN g[m] ELSE DigitsStep(g, m)]
    <2>2. ASSUME NEW m \in 0..(n + 1) PROVE h[m] = DigitsStep(h, m)
      <3>1. h[m] = DigitsStep(g, m)
        BY <2>1 DEF DigitsUpTo
      <3>2. CASE m < 10
        BY <3>1, <3>2 DEF DigitsStep
      <3>3. CASE m >= 10
        <4>1. m \div 10 \in 0..n
          BY <3>3, Tenth
        <4>2. h[m \div 10] = g[m \div 10]
          BY <4>1
        <4> QED BY <3>1, <4>2 DEF DigitsStep
      <3> QED BY <3>2, <3>3
    <2> HIDE DEF h
    <2>3. DigitsUpTo(h, n + 1)
      BY <2>2 DEF DigitsUpTo
    <2> QED BY <2>3
  <1> HIDE DEF T
  <1>3. \A n \in Nat : n \in T
    BY <1>1, <1>2, Induction
  <1> QED BY <1>3 DEF T

LEMMA DigitsUpToUnique ==
    ASSUME NEW n \in Nat, NEW g, NEW h, DigitsUpTo(g, n), DigitsUpTo(h, n)
    PROVE  g[n] = h[n]
  <1> DEFINE T == {k \in Nat : \A m \in 0..k : m <= n => g[m] = h[m]}
  <1>1. 0 \in T
    <2>1. 0 \in 0..n
      OBVIOUS
    <2>2. g[0] = DigitsStep(g, 0) /\ h[0] = DigitsStep(h, 0)
      BY <2>1 DEF DigitsUpTo
    <2>3. g[0] = h[0]
      BY <2>2 DEF DigitsStep
    <2> QED BY <2>3
  <1>2. ASSUME NEW k \in Nat, k \in T PROVE k + 1 \in T
    <2> SUFFICES ASSUME k + 1 <= n PROVE g[k + 1] = h[k + 1]
      BY <1>2
    <2>1. g[k + 1] = DigitsStep(g, k + 1) /\ h[k + 1] = DigitsStep(h, k + 1)
      BY DEF DigitsUpTo
    <2>2. CASE k + 1 < 10
      BY <2>1, <2>2 DEF DigitsStep
    <2>3. CASE k + 1 >= 10
      <3>1. (k + 1) \div 10 \in 0..k
        BY <2>3, Tenth
      <3>2. g[(k + 1) \div 10] = h[(k + 1) \div 10]
        BY <1>2, <3>1
      <3> QED BY <2>1, <3>2 DEF DigitsStep
    <2> QED BY <2>2, <2>3
  <1> HIDE DEF T
  <1>3. n \in T
    BY <1>1, <1>2, Induction
  <1> QED BY <1>3 DEF T

\* The local function of Digits: there is one, so CHOOSE finds it.
IsDigits(g) == g = [m \in Nat |-> IF m < 10 THEN <<m>> ELSE Append(g[m \div 10], m % 10)]

LEMMA DigitsExist == \E g : IsDigits(g)
  <1> DEFINE Of(n) == CHOOSE g : DigitsUpTo(g, n)
             f == [n \in Nat |-> Of(n)[n]]
  <1>1. \A n \in Nat : DigitsUpTo(Of(n), n)
    BY DigitsUpToExists
  <1>2. ASSUME NEW m \in Nat PROVE f[m] = DigitsStep(f, m)
    <2> HIDE DEF Of
    <2>1. f[m] = DigitsStep(Of(m), m)
      BY <1>1 DEF DigitsUpTo
    <2>2. CASE m < 10
      BY <2>1, <2>2 DEF DigitsStep
    <2>3. CASE m >= 10
      <3>1. m \div 10 \in Nat /\ m \div 10 \in 0..m
        BY <2>3, Tenth
      <3>2. DigitsUpTo(Of(m), m \div 10)
        BY <1>1, <3>1 DEF DigitsUpTo
      <3>3. Of(m)[m \div 10] = f[m \div 10]
        BY <1>1, <3>1, <3>2, DigitsUpToUnique
      <3> QED BY <2>1, <3>3 DEF DigitsStep
    <2> QED BY <2>2, <2>3
  <1> HIDE DEF f
  <1>3. f = [m \in Nat |-> IF m < 10 THEN <<m>> ELSE Append(f[m \div 10], m % 10)]
    <2>1. f = [m \in Nat |-> f[m]]
      BY DEF f
    <2> QED BY <1>2, <2>1 DEF DigitsStep
  <1> QED BY <1>3 DEF IsDigits

\* The recursion that Digits stands for.
LEMMA DigitsIs ==
    ASSUME NEW n \in Nat
    PROVE  F!Digits(n) = IF n < 10 THEN <<n>> ELSE Append(F!Digits(n \div 10), n % 10)
  <1> DEFINE d == CHOOSE g : IsDigits(g)
  <1>1. \A m : F!Digits(m) = d[m]
    BY DEF F!Digits, IsDigits
  <1>2. IsDigits(d)
    BY DigitsExist
  <1> HIDE DEF d
  <1>3. d[n] = IF n < 10 THEN <<n>> ELSE Append(d[n \div 10], n % 10)
    BY <1>2 DEF IsDigits
  <1> QED BY <1>1, <1>3

\* What the digits are, and for how many digits which numbers.
LEMMA DigitsTyped ==
    \A n \in Nat : F!Digits(n) \in Seq(0..9) /\ Len(F!Digits(n)) >= 1
  <1> DEFINE Fine(n) == F!Digits(n) \in Seq(0..9) /\ Len(F!Digits(n)) >= 1
             T == {k \in Nat : \A m \in 0..k : Fine(m)}
  <1>1. ASSUME NEW n \in Nat, n >= 10 => Fine(n \div 10) PROVE Fine(n)
    <2>1. CASE n < 10
      <3>1. F!Digits(n) = <<n>>
        BY <2>1, DigitsIs
      <3> QED BY <2>1, <3>1
    <2>2. CASE n >= 10
      <3> DEFINE t == n \div 10
                 u == n % 10
                 a == F!Digits(t)
      <3>1. F!Digits(n) = Append(a, u)
        BY <2>2, DigitsIs
      <3>2. u \in 0..9 /\ a \in Seq(0..9) /\ Len(a) >= 1
        BY <1>1, <2>2, Tenth
      <3> HIDE DEF u, a
      <3>3. Append(a, u) \in Seq(0..9) /\ Len(Append(a, u)) >= 1
        BY <3>2
      <3> QED BY <3>1, <3>3
    <2> QED BY <2>1, <2>2
  <1> HIDE DEF Fine
  <1>2. 0 \in T
    BY <1>1
  <1>3. ASSUME NEW n \in Nat, n \in T PROVE n + 1 \in T
    <2>1. n + 1 >= 10 => Fine((n + 1) \div 10)
      <3> SUFFICES ASSUME n + 1 >= 10 PROVE Fine((n + 1) \div 10)
        OBVIOUS
      <3>1. (n + 1) \div 10 \in 0..n
        BY Tenth
      <3> QED BY <1>3, <3>1
    <2>2. Fine(n + 1)
      BY <1>1, <2>1
    <2> QED BY <1>3, <2>2
  <1>4. \A n \in Nat : n \in T
    <2> HIDE DEF T
    <2> QED BY <1>2, <1>3, Induction
  <1>5. \A n \in Nat : Fine(n)
    BY <1>4
  <1> QED BY <1>5 DEF Fine

\* The last digit and the digits before it.
LEMMA LongerDigits ==
    ASSUME NEW n \in Nat, n >= 10
    PROVE  LET a == F!Digits(n \div 10) b == F!Digits(n)
           IN /\ n \div 10 \in Nat
              /\ Len(b) = Len(a) + 1
              /\ \A j \in 1..Len(a) : b[j] = a[j]
              /\ b[Len(b)] = n % 10
              /\ n = 10 * (n \div 10) + (n % 10)
  <1> DEFINE a == F!Digits(n \div 10)
             b == F!Digits(n)
             u == n % 10
  <1>1. n \div 10 \in Nat
    BY Tenth
  <1>2. a \in Seq(0..9)
    BY <1>1, DigitsTyped
  <1>3. b = Append(a, u) /\ u \in 0..9
    BY DigitsIs, Tenth
  <1>4. n = 10 * (n \div 10) + (n % 10)
    OBVIOUS
  <1> HIDE DEF a, b, u
  <1>5. Len(b) = Len(a) + 1
    BY <1>2, <1>3
  <1>6. \A j \in 1..Len(a) : b[j] = a[j]
    BY <1>2, <1>3
  <1>7. b[Len(b)] = u
    BY <1>2, <1>3, <1>5
  <1> QED BY <1>1, <1>4, <1>5, <1>6, <1>7 DEF a, b, u

\* How many digits a small number has.
LEMMA OneDigit ==
    ASSUME NEW n \in Nat, n <= 9
    PROVE  F!Digits(n) = <<n>> /\ Len(F!Digits(n)) = 1
  <1>1. F!Digits(n) = <<n>>
    BY DigitsIs
  <1> QED BY <1>1

LEMMA TwoDigits ==
    ASSUME NEW n \in Nat, 10 <= n, n <= 99
    PROVE  Len(F!Digits(n)) = 2
  <1> DEFINE m == n \div 10
  <1>1. m \in Nat /\ m <= 9
    OBVIOUS
  <1>2. Len(F!Digits(n)) = Len(F!Digits(m)) + 1
    BY LongerDigits
  <1> HIDE DEF m
  <1>3. Len(F!Digits(m)) = 1
    BY <1>1, OneDigit
  <1> QED BY <1>2, <1>3

LEMMA ThreeDigits ==
    ASSUME NEW n \in Nat, 100 <= n, n <= 999
    PROVE  Len(F!Digits(n)) = 3
  <1> DEFINE m == n \div 10
  <1>1. m \in Nat /\ 10 <= m /\ m <= 99
    OBVIOUS
  <1>2. Len(F!Digits(n)) = Len(F!Digits(m)) + 1
    BY LongerDigits
  <1> HIDE DEF m
  <1>3. Len(F!Digits(m)) = 2
    BY <1>1, TwoDigits
  <1> QED BY <1>2, <1>3

LEMMA FourDigits ==
    ASSUME NEW n \in Nat, 1000 <= n, n <= 9999
    PROVE  Len(F!Digits(n)) = 4
  <1> DEFINE m == n \div 10
  <1>1. m \in Nat /\ 100 <= m /\ m <= 999
    OBVIOUS
  <1>2. Len(F!Digits(n)) = Len(F!Digits(m)) + 1
    BY LongerDigits
  <1> HIDE DEF m
  <1>3. Len(F!Digits(m)) = 3
    BY <1>1, ThreeDigits
  <1> QED BY <1>2, <1>3

LEMMA ManyDigits ==
    ASSUME NEW n \in Nat, 100 <= n
    PROVE  Len(F!Digits(n)) >= 3
  <1> DEFINE a == n \div 10
  <1>1. a \in Nat /\ a >= 10
    OBVIOUS
  <1>2. Len(F!Digits(n)) = Len(F!Digits(a)) + 1
    BY LongerDigits
  <1> HIDE DEF a
  <1> DEFINE b == a \div 10
  <1>3. b \in Nat /\ Len(F!Digits(a)) = Len(F!Digits(b)) + 1
    BY <1>1, LongerDigits
  <1> HIDE DEF b
  <1>4. F!Digits(b) \in Seq(0..9) /\ Len(F!Digits(b)) >= 1
    BY <1>3, DigitsTyped
  <1>5. Len(F!Digits(b)) \in Nat
    BY <1>4
  <1> QED BY <1>2, <1>3, <1>4, <1>5

-----------------------------------------------------------------------------
\* Primitive recursion: a value and a step give a function on all numbers.
IsStep(step, V) == \A n \in Nat, x \in V : step[<<n, x>>] \in V

\* f is the function that starts at v and goes on by step.
Recurs(f, V, v, step) ==
    /\ \A n \in Nat : f[n] \in V
    /\ f[0] = v
    /\ \A n \in Nat : f[n + 1] = step[<<n, f[n]>>]

LEMMA Recursion ==
    ASSUME NEW V, NEW v, NEW step, v \in V, IsStep(step, V)
    PROVE  \E f : Recurs(f, V, v, step)
  <1> DEFINE UpTo(g, n) == /\ \A j \in 0..n : g[j] \in V
                           /\ g[0] = v
                           /\ \A j \in 0..(n - 1) : g[j + 1] = step[<<j, g[j]>>]
             Exist == {n \in Nat : \E g : UpTo(g, n)}
  <1>1. 0 \in Exist
    <2> DEFINE g == [j \in 0..0 |-> v]
    <2>1. UpTo(g, 0)
      OBVIOUS
    <2> QED BY <2>1
  <1>2. ASSUME NEW n \in Nat, n \in Exist PROVE n + 1 \in Exist
    <2>1. PICK g : UpTo(g, n)
      BY <1>2
    <2> DEFINE h == [j \in 0..(n + 1) |-> IF j <= n THEN g[j] ELSE step[<<n, g[n]>>]]
    <2>2. \A j \in 0..n : h[j] = g[j]
      OBVIOUS
    <2>3. h[n + 1] = step[<<n, g[n]>>]
      OBVIOUS
    <2> HIDE DEF h
    <2>4. g[n] \in V /\ step[<<n, g[n]>>] \in V
      BY <2>1 DEF IsStep
    <2>5. \A j \in 0..(n + 1) : h[j] \in V
      BY <2>1, <2>2, <2>3, <2>4
    <2>6. ASSUME NEW j \in 0..n PROVE h[j + 1] = step[<<j, h[j]>>]
      <3>1. CASE j = n
        BY <2>2, <2>3, <3>1
      <3>2. CASE j < n
        BY <2>1, <2>2, <3>2
      <3> QED BY <3>1, <3>2
    <2>7. h[0] = v
      BY <2>1, <2>2
    <2>8. UpTo(h, n + 1)
      BY <2>5, <2>6, <2>7
    <2> QED BY <2>8
  <1>3. \A n \in Nat : n \in Exist
    <2> HIDE DEF Exist
    <2> QED BY <1>1, <1>2, Induction
  <1>4. ASSUME NEW n \in Nat, NEW m \in Nat, n <= m,
               NEW g, NEW h, UpTo(g, n), UpTo(h, m)
        PROVE  g[n] = h[n]
    <2> DEFINE Agree == {k \in Nat : k <= n => g[k] = h[k]}
    <2>1. 0 \in Agree
      BY <1>4
    <2>2. ASSUME NEW k \in Nat, k \in Agree PROVE k + 1 \in Agree
      <3> SUFFICES ASSUME k + 1 <= n PROVE g[k + 1] = h[k + 1]
        OBVIOUS
      <3>1. k \in 0..(n - 1) /\ k \in 0..(m - 1) /\ g[k] = h[k]
        BY <1>4, <2>2
      <3>2. g[k + 1] = step[<<k, g[k]>>] /\ h[k + 1] = step[<<k, h[k]>>]
        BY <1>4, <3>1
      <3> QED BY <3>1, <3>2
    <2>3. n \in Agree
      <3> HIDE DEF Agree
      <3> QED BY <2>1, <2>2, Induction
    <2> QED BY <2>3
  <1> DEFINE Of(n) == CHOOSE g : UpTo(g, n)
             f == [n \in Nat |-> Of(n)[n]]
  <1>5. \A n \in Nat : UpTo(Of(n), n)
    <2> HIDE DEF UpTo
    <2> QED BY <1>3
  <1> HIDE DEF Of
  <1>6. f[0] = v
    BY <1>5
  <1>7. ASSUME NEW n \in Nat PROVE f[n] \in V
    BY <1>5
  <1>8. ASSUME NEW n \in Nat PROVE f[n + 1] = step[<<n, f[n]>>]
    <2>1. f[n + 1] = step[<<n, Of(n + 1)[n]>>]
      BY <1>5
    <2>2. UpTo(Of(n), n) /\ UpTo(Of(n + 1), n + 1)
      BY <1>5
    <2>3. Of(n)[n] = Of(n + 1)[n]
      <3> HIDE DEF UpTo
      <3> QED BY <1>4, <2>2
    <2> QED BY <2>1, <2>3
  <1> HIDE DEF f
  <1>9. Recurs(f, V, v, step)
    BY <1>6, <1>7, <1>8 DEF Recurs
  <1> QED BY <1>9
-----------------------------------------------------------------------------
(* What the client reads as a number (Framing!NumberAt). *)

\* What the client reads as a number, digit by digit.
IsNumber(g, q, p, w) == g = [j \in 0..w |-> IF j = 0 THEN 0 ELSE 10 * g[j - 1] + q[p + j]]

\* The local function of NumberAt follows its recursion as far as q reaches.
LEMMA NumberIs ==
    ASSUME NEW q \in Seq(Nat), NEW p \in Nat
    PROVE  \E f :
              /\ \A j \in Nat : f[j] \in Nat
              /\ f[0] = 0
              /\ \A j \in Nat : p + j + 1 <= Len(q) => f[j + 1] = 10 * f[j] + q[p + j + 1]
              /\ \A w \in Nat : p + w <= Len(q) => F!NumberAt(q, p, w) = f[w]
  <1> DEFINE step == [x \in Nat \X Nat |->
                         10 * x[2] + (IF p + x[1] + 1 <= Len(q) THEN q[p + x[1] + 1] ELSE 0)]
  <1>1. Len(q) \in Nat
    OBVIOUS
  <1>2. IsStep(step, Nat)
    <2>1. ASSUME NEW n \in Nat, NEW x \in Nat PROVE step[<<n, x>>] \in Nat
      <3>1. step[<<n, x>>] = 10 * x + (IF p + n + 1 <= Len(q) THEN q[p + n + 1] ELSE 0)
        OBVIOUS
      <3> HIDE DEF step
      <3>2. CASE p + n + 1 <= Len(q)
        <4>1. p + n + 1 \in 1..Len(q)
          BY <1>1, <3>2
        <4>2. q[p + n + 1] \in Nat
          BY <4>1
        <4> QED BY <3>1, <3>2, <4>2
      <3>3. CASE ~(p + n + 1 <= Len(q))
        BY <3>1, <3>3
      <3> QED BY <3>2, <3>3
    <2> HIDE DEF step
    <2> QED BY <2>1 DEF IsStep
  <1>3. \A j, v \in Nat : p + j + 1 <= Len(q) => step[<<j, v>>] = 10 * v + q[p + j + 1]
    OBVIOUS
  <1> HIDE DEF step
  <1>4. PICK f : /\ \A n \in Nat : f[n] \in Nat
                 /\ f[0] = 0
                 /\ \A n \in Nat : f[n + 1] = step[<<n, f[n]>>]
    <2>1. \E f : Recurs(f, Nat, 0, step)
      <3>1. 0 \in Nat
        OBVIOUS
      <3> QED BY <1>2, <3>1, Recursion
    <2> QED BY <2>1 DEF Recurs
  <1>5. ASSUME NEW j \in Nat, p + j + 1 <= Len(q) PROVE f[j + 1] = 10 * f[j] + q[p + j + 1]
    BY <1>3, <1>4, <1>5
  <1>6. ASSUME NEW w \in Nat, p + w <= Len(q) PROVE F!NumberAt(q, p, w) = f[w]
    <2> DEFINE h == [j \in 0..w |-> f[j]]
               n == CHOOSE g : IsNumber(g, q, p, w)
    <2>1. IsNumber(h, q, p, w)
      <3>1. ASSUME NEW j \in 0..w PROVE f[j] = IF j = 0 THEN 0 ELSE 10 * h[j - 1] + q[p + j]
        <4>1. CASE j = 0
          BY <1>4, <4>1
        <4>2. CASE j # 0
          <5>1. j - 1 \in Nat /\ j - 1 \in 0..w /\ p + (j - 1) + 1 <= Len(q)
            BY <1>1, <1>6, <4>2
          <5>2. f[(j - 1) + 1] = 10 * f[j - 1] + q[p + (j - 1) + 1]
            BY <1>5, <5>1
          <5>3. (j - 1) + 1 = j /\ p + (j - 1) + 1 = p + j
            OBVIOUS
          <5> QED BY <4>2, <5>1, <5>2, <5>3
        <4> QED BY <4>1, <4>2
      <3>2. h = [j \in 0..w |-> IF j = 0 THEN 0 ELSE 10 * h[j - 1] + q[p + j]]
        BY <3>1, Zenon
      <3> QED BY <3>2 DEF IsNumber
    <2>2. IsNumber(n, q, p, w)
      <3> HIDE DEF h
      <3> QED BY <2>1
    <2>3. F!NumberAt(q, p, w) = n[w]
      <3>1. ~(Len(q) < p + w)
        BY <1>1, <1>6
      <3> QED BY <3>1 DEF F!NumberAt, IsNumber
    <2> HIDE DEF n, h
    <2>4. \A j \in 0..w : n[j] = IF j = 0 THEN 0 ELSE 10 * n[j - 1] + q[p + j]
      BY <2>2, Zenon DEF IsNumber
    <2> DEFINE T == {k \in Nat : k <= w => n[k] = f[k]}
    <2>5. 0 \in T
      BY <1>4, <2>4
    <2>6. ASSUME NEW k \in Nat, k \in T PROVE k + 1 \in T
      <3> SUFFICES ASSUME k + 1 <= w PROVE n[k + 1] = f[k + 1]
        OBVIOUS
      <3>1. k + 1 \in 0..w /\ k + 1 # 0 /\ (k + 1) - 1 = k /\ p + (k + 1) = p + k + 1
        OBVIOUS
      <3>2. n[k + 1] = 10 * n[k] + q[p + k + 1]
        BY <2>4, <3>1
      <3>3. f[k + 1] = 10 * f[k] + q[p + k + 1]
        <4>1. p + k + 1 <= Len(q)
          BY <1>1, <1>6
        <4> QED BY <1>5, <4>1
      <3>4. n[k] = f[k]
        BY <2>6
      <3> QED BY <3>2, <3>3, <3>4
    <2>7. w \in T
      <3> HIDE DEF T
      <3> QED BY <2>5, <2>6, Induction
    <2> QED BY <2>3, <2>7
  <1> QED BY <1>4, <1>5, <1>6

\* A number without digits, and one with a digit more.
LEMMA NumberStart ==
    ASSUME NEW q \in Seq(Nat), NEW p \in Nat, p <= Len(q)
    PROVE  F!NumberAt(q, p, 0) = 0
  <1>1. Len(q) \in Nat /\ p + 0 <= Len(q)
    OBVIOUS
  <1> QED BY <1>1, NumberIs

LEMMA NumberStep ==
    ASSUME NEW q \in Seq(Nat), NEW p \in Nat, NEW w \in Nat, p + w + 1 <= Len(q)
    PROVE  F!NumberAt(q, p, w + 1) = 10 * F!NumberAt(q, p, w) + q[p + w + 1]
  <1>1. PICK f :
              /\ \A j \in Nat : f[j] \in Nat
              /\ f[0] = 0
              /\ \A j \in Nat : p + j + 1 <= Len(q) => f[j + 1] = 10 * f[j] + q[p + j + 1]
              /\ \A v \in Nat : p + v <= Len(q) => F!NumberAt(q, p, v) = f[v]
    BY NumberIs
  <1>2. Len(q) \in Nat /\ p + w <= Len(q) /\ p + (w + 1) <= Len(q)
    OBVIOUS
  <1>3. F!NumberAt(q, p, w) = f[w]
    BY <1>1, <1>2
  <1>4. F!NumberAt(q, p, w + 1) = f[w + 1]
    <2>1. w + 1 \in Nat
      OBVIOUS
    <2> QED BY <1>1, <1>2, <2>1
  <1>5. f[w + 1] = 10 * f[w] + q[p + w + 1]
    BY <1>1
  <1> QED BY <1>3, <1>4, <1>5

LEMMA NumberTyped ==
    ASSUME NEW q \in Seq(Nat), NEW p \in Nat, NEW w \in Nat
    PROVE  F!NumberAt(q, p, w) \in Nat
  <1>1. CASE Len(q) < p + w
    BY <1>1 DEF F!NumberAt
  <1>2. CASE p + w <= Len(q)
    <2>1. PICK f :
              /\ \A j \in Nat : f[j] \in Nat
              /\ f[0] = 0
              /\ \A j \in Nat : p + j + 1 <= Len(q) => f[j + 1] = 10 * f[j] + q[p + j + 1]
              /\ \A v \in Nat : p + v <= Len(q) => F!NumberAt(q, p, v) = f[v]
      BY NumberIs
    <2> QED BY <1>2, <2>1
  <1>3. Len(q) \in Nat
    OBVIOUS
  <1> QED BY <1>1, <1>2, <1>3

\* Two fields hold the same number if they hold the same characters.
SameNumber(q, p, r, s, w) == F!NumberAt(q, p, w) = F!NumberAt(r, s, w)

LEMMA NumberSame ==
    ASSUME NEW q \in Seq(Nat), NEW r \in Seq(Nat), NEW p \in Nat, NEW s \in Nat,
           NEW w \in Nat, p + w <= Len(q), s + w <= Len(r),
           \A j \in 1..w : q[p + j] = r[s + j]
    PROVE  SameNumber(q, p, r, s, w)
  <1> DEFINE T == {k \in Nat : k <= w => F!NumberAt(q, p, k) = F!NumberAt(r, s, k)}
  <1>1. Len(q) \in Nat /\ Len(r) \in Nat
    OBVIOUS
  <1>2. 0 \in T
    BY <1>1, NumberStart
  <1>3. ASSUME NEW k \in Nat, k \in T PROVE k + 1 \in T
    <2> SUFFICES ASSUME k + 1 <= w PROVE F!NumberAt(q, p, k + 1) = F!NumberAt(r, s, k + 1)
      OBVIOUS
    <2>1. p + k + 1 <= Len(q) /\ s + k + 1 <= Len(r)
      BY <1>1
    <2>2. /\ F!NumberAt(q, p, k + 1) = 10 * F!NumberAt(q, p, k) + q[p + k + 1]
          /\ F!NumberAt(r, s, k + 1) = 10 * F!NumberAt(r, s, k) + r[s + k + 1]
      BY <2>1, NumberStep
    <2>3. q[p + (k + 1)] = r[s + (k + 1)]
      <3> DEFINE j == k + 1
      <3>1. j \in 1..w
        OBVIOUS
      <3> HIDE DEF j
      <3>2. q[p + j] = r[s + j]
        BY <3>1
      <3> QED BY <3>2 DEF j
    <2>5. p + (k + 1) = p + k + 1 /\ s + (k + 1) = s + k + 1
      OBVIOUS
    <2>4. F!NumberAt(q, p, k) = F!NumberAt(r, s, k)
      BY <1>3
    <2> QED BY <2>2, <2>3, <2>4, <2>5
  <1>4. w \in T
    <2> HIDE DEF T
    <2> QED BY <1>2, <1>3, Induction
  <1> QED BY <1>4 DEF SameNumber

\* What is written is what is read.
LEMMA DigitsValue ==
    \A n \in Nat : F!NumberAt(F!Digits(n), 0, Len(F!Digits(n))) = n
  <1> DEFINE Fine(n) == F!NumberAt(F!Digits(n), 0, Len(F!Digits(n))) = n
             T == {k \in Nat : \A m \in 0..k : Fine(m)}
  <1>1. ASSUME NEW n \in Nat, n >= 10 => Fine(n \div 10) PROVE Fine(n)
    <2> DEFINE b == F!Digits(n)
    <2>1. b \in Seq(Nat)
      <3>1. b \in Seq(0..9)
        BY DigitsTyped
      <3> HIDE DEF b
      <3> QED BY <3>1
    <2>2. CASE n < 10
      <3>1. b = <<n>> /\ Len(b) = 1
        BY <2>2, OneDigit
      <3> HIDE DEF b
      <3>2. F!NumberAt(b, 0, 0) = 0
        <4>1. 0 \in Nat /\ 0 <= Len(b)
          BY <3>1
        <4> QED BY <2>1, <4>1, NumberStart
      <3>3. 0 + 0 + 1 <= Len(b) /\ b[0 + 0 + 1] = n
        BY <3>1
      <3>4. F!NumberAt(b, 0, 0 + 1) = 10 * F!NumberAt(b, 0, 0) + b[0 + 0 + 1]
        BY <2>1, <3>3, NumberStep
      <3>5. F!NumberAt(b, 0, 1) = n
        BY <3>2, <3>3, <3>4
      <3> QED BY <3>1, <3>5 DEF b
    <2>3. CASE n >= 10
      <3> DEFINE m == n \div 10
                 a == F!Digits(m)
                 u == n % 10
      <3>1. /\ m \in Nat
            /\ Len(b) = Len(a) + 1
            /\ \A j \in 1..Len(a) : b[j] = a[j]
            /\ b[Len(b)] = u
            /\ n = 10 * m + u
        BY <2>3, LongerDigits
      <3>2. Fine(m)
        BY <1>1, <2>3
      <3>3. a \in Seq(Nat)
        <4>1. a \in Seq(0..9)
          BY <3>1, DigitsTyped
        <4> HIDE DEF a
        <4> QED BY <4>1
      <3>4. F!NumberAt(a, 0, Len(a)) = m
        BY <3>2
      <3> HIDE DEF a, b, u, m
      <3>5. Len(a) \in Nat /\ Len(b) \in Nat
        BY <2>1, <3>3
      <3>6. \A j \in 1..Len(a) : b[0 + j] = a[0 + j]
        BY <3>1, <3>5
      <3>7. F!NumberAt(b, 0, Len(a)) = F!NumberAt(a, 0, Len(a))
        <4>1. 0 + Len(a) <= Len(b) /\ 0 + Len(a) <= Len(a) /\ 0 \in Nat
          BY <3>1, <3>5
        <4> QED BY <2>1, <3>3, <3>5, <3>6, <4>1, NumberSame DEF SameNumber
      <3>8. F!NumberAt(b, 0, Len(a) + 1) = 10 * F!NumberAt(b, 0, Len(a)) + b[0 + Len(a) + 1]
        <4>1. 0 + Len(a) + 1 <= Len(b) /\ 0 \in Nat
          BY <3>1, <3>5
        <4> QED BY <2>1, <3>5, <4>1, NumberStep
      <3>9. F!NumberAt(b, 0, Len(b)) = n
        BY <3>1, <3>4, <3>5, <3>7, <3>8
      <3> QED BY <3>9 DEF b
    <2> QED BY <2>2, <2>3
  <1> HIDE DEF Fine
  <1>2. 0 \in T
    BY <1>1
  <1>3. ASSUME NEW n \in Nat, n \in T PROVE n + 1 \in T
    <2>1. n + 1 >= 10 => Fine((n + 1) \div 10)
      <3> SUFFICES ASSUME n + 1 >= 10 PROVE Fine((n + 1) \div 10)
        OBVIOUS
      <3>1. (n + 1) \div 10 \in 0..n
        BY Tenth
      <3> QED BY <1>3, <3>1
    <2>2. Fine(n + 1)
      BY <1>1, <2>1
    <2> QED BY <1>3, <2>2
  <1>4. \A n \in Nat : n \in T
    <2> HIDE DEF T
    <2> QED BY <1>2, <1>3, Induction
  <1>5. \A n \in Nat : Fine(n)
    BY <1>4
  <1> QED BY <1>5 DEF Fine
-----------------------------------------------------------------------------
(* Helper::getPaddedNumber (Framing!Padded). *)

\* Numbers at a width.
LEMMA Zeros ==
    ASSUME NEW k \in Int
    PROVE  /\ [j \in 1..k |-> 0] \in Seq(0..9)
           /\ Len([j \in 1..k |-> 0]) = IF k > 0 THEN k ELSE 0
  <1> DEFINE z == [j \in 1..k |-> 0]
  <1>1. ASSUME k >= 0 PROVE z \in Seq(0..9) /\ Len(z) = k
    <2>1. z \in [1..k -> 0..9] /\ k \in Nat
      BY <1>1
    <2>2. z \in Seq(0..9) /\ Len(z) = k
      <3> HIDE DEF z
      <3> QED BY <2>1
    <2> HIDE DEF z
    <2> QED BY <1>1, <2>2
  <1>2. ASSUME k < 0 PROVE z \in Seq(0..9) /\ Len(z) = 0
    <2>1. 1..k = 1..0
      BY <1>2
    <2>2. z \in [1..0 -> 0..9]
      BY <2>1
    <2>3. z \in Seq(0..9) /\ Len(z) = 0
      <3> HIDE DEF z
      <3> QED BY <2>2
    <2> HIDE DEF z
    <2> QED BY <1>2, <2>3
  <1> HIDE DEF z
  <1>3. z \in Seq(0..9) /\ Len(z) = IF k > 0 THEN k ELSE 0
    BY <1>1, <1>2
  <1> QED BY <1>3 DEF z

\* Digits are characters, and there is one at least.
LEMMA DigitsAreChars ==
    ASSUME NEW n \in Nat
    PROVE  /\ F!Digits(n) \in Seq(F!Char) /\ F!Digits(n) \in Seq(Nat)
           /\ Len(F!Digits(n)) \in Nat /\ Len(F!Digits(n)) >= 1
  <1> DEFINE d == F!Digits(n)
  <1>1. d \in Seq(0..9) /\ Len(d) >= 1
    BY DigitsTyped
  <1> HIDE DEF d
  <1>2. d \in Seq(F!Char) /\ d \in Seq(Nat) /\ Len(d) \in Nat
    BY <1>1 DEF F!Char
  <1> QED BY <1>1, <1>2 DEF d

\* std::to_string of a number of either sign.
LEMMA TextIs ==
    ASSUME NEW n \in Int
    PROVE  /\ F!Text(n) \in Seq(F!Char)
           /\ Len(F!Text(n)) \in Nat /\ Len(F!Text(n)) >= 1
           /\ n >= 0 => F!Text(n) = F!Digits(n)
           /\ n < 0 => /\ F!Text(n) = <<10>> \o F!Digits(-n)
                       /\ Len(F!Text(n)) = 1 + Len(F!Digits(-n))
  <1>1. CASE n >= 0
    <2>1. F!Text(n) = F!Digits(n)
      BY <1>1 DEF F!Text
    <2> QED BY <1>1, <2>1, DigitsAreChars
  <1>2. CASE n < 0
    <2> DEFINE d == F!Digits(-n)
    <2>1. F!Text(n) = <<10>> \o d
      BY <1>2 DEF F!Text, F!Minus
    <2>2. d \in Seq(F!Char) /\ Len(d) \in Nat /\ Len(d) >= 1
      BY <1>2, DigitsAreChars
    <2> HIDE DEF d
    <2>3. <<10>> \o d \in Seq(F!Char) /\ Len(<<10>> \o d) = 1 + Len(d)
      BY <2>2 DEF F!Char
    <2>4. /\ F!Text(n) \in Seq(F!Char)
          /\ Len(F!Text(n)) \in Nat /\ Len(F!Text(n)) >= 1
          /\ Len(F!Text(n)) = 1 + Len(d)
      BY <2>1, <2>2, <2>3
    <2> QED BY <1>2, <2>1, <2>4 DEF d
  <1> QED BY <1>1, <1>2

\* getPaddedNumber: zeros, then the text; a text longer than w stands alone.
LEMMA PaddedIs ==
    ASSUME NEW n \in Int, NEW w \in Nat
    PROVE  LET t == F!Text(n) p == F!Padded(n, w)
           IN /\ p \in Seq(F!Char)
              /\ p \in Seq(Nat)
              /\ Len(p) = IF Len(t) <= w THEN w ELSE Len(t)
              /\ Len(t) <= w => /\ \A j \in 1..(w - Len(t)) : p[j] = 0
                                /\ \A j \in 1..Len(t) : p[w - Len(t) + j] = t[j]
              /\ Len(t) = w => p = t
  <1> DEFINE t == F!Text(n)
             p == F!Padded(n, w)
             k == w - Len(t)
             z == [j \in 1..k |-> 0]
  <1>1. t \in Seq(F!Char) /\ Len(t) \in Nat
    BY TextIs
  <1>2. k \in Int
    BY <1>1
  <1>3. z \in Seq(0..9) /\ Len(z) = IF k > 0 THEN k ELSE 0
    BY <1>2, Zeros
  <1>4. p = z \o t
    BY DEF F!Padded
  <1>5. \A j \in 1..k : z[j] = 0
    OBVIOUS
  <1> HIDE DEF t, p, z
  <1>6. z \in Seq(F!Char)
    BY <1>3 DEF F!Char
  <1>7. p \in Seq(F!Char) /\ Len(p) = Len(z) + Len(t)
    BY <1>1, <1>4, <1>6
  <1>8. p \in Seq(Nat)
    BY <1>7 DEF F!Char
  <1>9. Len(p) = IF Len(t) <= w THEN w ELSE Len(t)
    BY <1>1, <1>3, <1>7
  <1>10. ASSUME Len(t) <= w
         PROVE  /\ \A j \in 1..(w - Len(t)) : p[j] = 0
                /\ \A j \in 1..Len(t) : p[w - Len(t) + j] = t[j]
    <2>1. Len(z) = w - Len(t)
      BY <1>1, <1>3, <1>10
    <2>2. \A j \in 1..Len(z) : p[j] = z[j]
      BY <1>1, <1>4, <1>6
    <2>3. \A j \in 1..Len(t) : p[Len(z) + j] = t[j]
      BY <1>1, <1>4, <1>6
    <2> QED BY <1>5, <2>1, <2>2, <2>3
  <1>11. Len(t) = w => p = t
    <2> SUFFICES ASSUME Len(t) = w PROVE p = t
      OBVIOUS
    <2>1. Len(z) = 0
      BY <1>1, <1>3
    <2>2. z = <<>>
      BY <1>3, <2>1
    <2> QED BY <1>1, <1>4, <2>2
  <1> QED BY <1>7, <1>8, <1>9, <1>10, <1>11 DEF t, p

\* Whatever number getPaddedNumber writes at a width it fits, the number in as
\* many characters is that number again.
THEOREM PaddedValue ==
    ASSUME NEW n \in Nat, NEW w \in Nat, Len(F!Digits(n)) <= w
    PROVE  F!NumberAt(F!Padded(n, w), 0, w) = n
  <1> DEFINE t == F!Digits(n)
             p == F!Padded(n, w)
             k == w - Len(t)
             Zero == {m \in Nat : m <= k => F!NumberAt(p, 0, m) = 0}
             Rest == {m \in Nat : m <= Len(t) => F!NumberAt(p, 0, k + m) = F!NumberAt(t, 0, m)}
  <1>1. t \in Seq(Nat) /\ Len(t) \in Nat
    BY DigitsAreChars
  <1>2. /\ p \in Seq(Nat)
        /\ Len(p) = w
        /\ \A j \in 1..k : p[j] = 0
        /\ \A j \in 1..Len(t) : p[k + j] = t[j]
    <2> DEFINE x == F!Text(n)
    <2>1. n \in Int /\ x = t
      BY TextIs
    <2>2. /\ p \in Seq(Nat)
          /\ Len(p) = IF Len(x) <= w THEN w ELSE Len(x)
          /\ Len(x) <= w => /\ \A j \in 1..(w - Len(x)) : p[j] = 0
                            /\ \A j \in 1..Len(x) : p[w - Len(x) + j] = x[j]
      BY <2>1, PaddedIs
    <2>3. Len(t) <= w
      OBVIOUS
    <2> HIDE DEF x, t, p
    <2> QED BY <2>1, <2>2, <2>3
  <1>3. F!NumberAt(t, 0, Len(t)) = n
    BY DigitsValue
  <1>4. k \in Nat /\ k + Len(t) = w
    BY <1>1
  <1> HIDE DEF t, p, k
  <1>5. 0 \in Zero
    <2>1. 0 \in Nat /\ 0 <= Len(p)
      BY <1>2
    <2> QED BY <1>2, <2>1, NumberStart
  <1>6. ASSUME NEW m \in Nat, m \in Zero PROVE m + 1 \in Zero
    <2> SUFFICES ASSUME m + 1 <= k PROVE F!NumberAt(p, 0, m + 1) = 0
      OBVIOUS
    <2>1. 0 \in Nat /\ 0 + m + 1 <= Len(p) /\ 0 + m + 1 = m + 1 /\ m + 1 \in 1..k
      BY <1>1, <1>2, <1>4
    <2>2. F!NumberAt(p, 0, m + 1) = 10 * F!NumberAt(p, 0, m) + p[0 + m + 1]
      BY <1>2, <2>1, NumberStep
    <2>3. F!NumberAt(p, 0, m) = 0 /\ p[m + 1] = 0
      BY <1>2, <1>4, <1>6, <2>1
    <2> QED BY <2>1, <2>2, <2>3
  <1>7. k \in Zero
    <2> HIDE DEF Zero
    <2> QED BY <1>4, <1>5, <1>6, Induction
  <1>8. 0 \in Rest
    <2>1. 0 \in Nat /\ 0 <= Len(t) /\ k + 0 = k
      BY <1>1, <1>4
    <2>2. F!NumberAt(t, 0, 0) = 0
      BY <1>1, <2>1, NumberStart
    <2> QED BY <1>4, <1>7, <2>1, <2>2
  <1>9. ASSUME NEW m \in Nat, m \in Rest PROVE m + 1 \in Rest
    <2> SUFFICES ASSUME m + 1 <= Len(t)
                 PROVE  F!NumberAt(p, 0, k + (m + 1)) = F!NumberAt(t, 0, m + 1)
      OBVIOUS
    <2>1. /\ 0 \in Nat /\ k + m \in Nat
          /\ 0 + (k + m) + 1 <= Len(p) /\ 0 + (k + m) + 1 = k + (m + 1)
          /\ (k + m) + 1 = k + (m + 1)
          /\ 0 + m + 1 <= Len(t) /\ 0 + m + 1 = m + 1 /\ m + 1 \in 1..Len(t)
      BY <1>1, <1>2, <1>4
    <2>2. F!NumberAt(p, 0, (k + m) + 1) = 10 * F!NumberAt(p, 0, k + m) + p[0 + (k + m) + 1]
      BY <1>2, <2>1, NumberStep
    <2>3. F!NumberAt(t, 0, m + 1) = 10 * F!NumberAt(t, 0, m) + t[0 + m + 1]
      BY <1>1, <2>1, NumberStep
    <2>4. F!NumberAt(p, 0, k + m) = F!NumberAt(t, 0, m)
      BY <1>9, <2>1
    <2>5. p[k + (m + 1)] = t[m + 1]
      BY <1>2, <2>1
    <2> QED BY <2>1, <2>2, <2>3, <2>4, <2>5
  <1>10. Len(t) \in Rest
    <2> HIDE DEF Rest
    <2> QED BY <1>1, <1>8, <1>9, Induction
  <1>11. F!NumberAt(p, 0, w) = n
    BY <1>1, <1>3, <1>4, <1>10
  <1> QED BY <1>11 DEF p
-----------------------------------------------------------------------------
(* Concatenations of any number of parts (FlattenSeq). *)

\* Flattening a sequence of any length.
FlattensTo(f, s, C) ==
    /\ \A j \in Nat : f[j] \in Seq(C)
    /\ f[0] = <<>>
    /\ \A j \in Nat : j + 1 <= Len(s) => f[j + 1] = f[j] \o s[j + 1]
    /\ F!FlattenSeq(s) = f[Len(s)]

\* The local function of FlattenSeq.
IsFlatten(g, s, n) == g = [j \in 1..n |-> IF j = 1 THEN s[j] ELSE g[j - 1] \o s[j]]

\* FlattenSeq is the last of the partial concatenations.
LEMMA FlattenIs ==
    ASSUME NEW C, NEW s \in Seq(Seq(C))
    PROVE  \E f : FlattensTo(f, s, C)
  <1> DEFINE n == Len(s)
             step == [x \in Nat \X Seq(C) |-> x[2] \o (IF x[1] + 1 <= n THEN s[x[1] + 1] ELSE <<>>)]
  <1>1. n \in Nat /\ \A j \in 1..n : s[j] \in Seq(C)
    OBVIOUS
  <1>2. s = <<>> \/ n # 0
    OBVIOUS
  <1> HIDE DEF n
  <1>3. ASSUME NEW j \in Nat, NEW x \in Seq(C)
        PROVE  step[<<j, x>>] = x \o (IF j + 1 <= n THEN s[j + 1] ELSE <<>>)
    OBVIOUS
  <1> HIDE DEF step
  <1>4. IsStep(step, Seq(C))
    <2>1. ASSUME NEW j \in Nat, NEW x \in Seq(C) PROVE step[<<j, x>>] \in Seq(C)
      <3> DEFINE y == IF j + 1 <= n THEN s[j + 1] ELSE <<>>
      <3>1. y \in Seq(C)
        <4>1. CASE j + 1 <= n
          <5>1. j + 1 \in 1..n
            BY <1>1, <4>1
          <5> QED BY <1>1, <4>1, <5>1
        <4>2. CASE ~(j + 1 <= n)
          BY <4>2
        <4> QED BY <4>1, <4>2
      <3>2. step[<<j, x>>] = x \o y
        BY <1>3
      <3> HIDE DEF y
      <3> QED BY <3>1, <3>2
    <2> QED BY <2>1 DEF IsStep
  <1>5. PICK f : Recurs(f, Seq(C), <<>>, step)
    <2>1. <<>> \in Seq(C)
      OBVIOUS
    <2> QED BY <1>4, <2>1, Recursion
  <1>6. \A j \in Nat : f[j] \in Seq(C)
    BY <1>5 DEF Recurs
  <1>7. f[0] = <<>>
    BY <1>5 DEF Recurs
  <1>8. ASSUME NEW j \in Nat, j + 1 <= n PROVE f[j + 1] = f[j] \o s[j + 1]
    <2>1. f[j + 1] = step[<<j, f[j]>>]
      BY <1>5 DEF Recurs
    <2>2. step[<<j, f[j]>>] = f[j] \o (IF j + 1 <= n THEN s[j + 1] ELSE <<>>)
      BY <1>3, <1>6
    <2> QED BY <1>8, <2>1, <2>2
  <1>9. F!FlattenSeq(s) = f[n]
    <2>1. CASE s = <<>>
      <3>1. n = 0
        BY <2>1 DEF n
      <3> QED BY <1>7, <2>1, <3>1 DEF F!FlattenSeq, n
    <2>2. CASE n # 0
      <3> DEFINE h == [j \in 1..n |-> f[j]]
                 e == CHOOSE g : IsFlatten(g, s, n)
      <3>1. F!FlattenSeq(s) = e[n]
        BY <2>2 DEF F!FlattenSeq, n, IsFlatten
      <3>2. ASSUME NEW j \in 1..n PROVE f[j] = IF j = 1 THEN s[j] ELSE h[j - 1] \o s[j]
        <4>1. j - 1 \in Nat /\ (j - 1) + 1 <= n /\ (j - 1) + 1 = j
          BY <1>1
        <4>2. f[j] = f[j - 1] \o s[j]
          BY <1>8, <4>1
        <4>3. CASE j = 1
          <5>1. f[0] = <<>> /\ j - 1 = 0 /\ s[j] \in Seq(C)
            BY <1>1, <1>7, <4>3
          <5>2. <<>> \o s[j] = s[j]
            BY <5>1
          <5> QED BY <4>2, <4>3, <5>1, <5>2
        <4>4. CASE j # 1
          <5>1. j - 1 \in 1..n
            BY <1>1, <4>4
          <5>2. h[j - 1] = f[j - 1]
            BY <5>1
          <5> QED BY <4>2, <4>4, <5>2
        <4> QED BY <4>3, <4>4
      <3>3. IsFlatten(h, s, n)
        <4>1. \A j \in 1..n : f[j] = IF j = 1 THEN s[j] ELSE h[j - 1] \o s[j]
          BY <3>2
        <4>2. h = [j \in 1..n |-> f[j]]
          OBVIOUS
        <4>3. h = [j \in 1..n |-> IF j = 1 THEN s[j] ELSE h[j - 1] \o s[j]]
          <5> HIDE DEF h
          <5> QED BY <4>1, <4>2, Zenon
        <4> HIDE DEF h
        <4> QED BY <4>3 DEF IsFlatten
      <3> HIDE DEF h
      <3>4. IsFlatten(e, s, n)
        BY <3>3
      <3> HIDE DEF e
      <3>5. \A j \in 1..n : e[j] = IF j = 1 THEN s[j] ELSE e[j - 1] \o s[j]
        BY <3>4, Zenon DEF IsFlatten
      <3> DEFINE T == {k \in Nat : k + 1 <= n => e[k + 1] = f[k + 1]}
      <3>6. 0 \in T
        <4>1. 1 \in 1..n /\ 0 + 1 = 1 /\ 0 + 1 <= n /\ 0 \in Nat
          BY <1>1, <2>2
        <4>2. e[1] = s[1] /\ s[1] \in Seq(C)
          BY <1>1, <3>5, <4>1
        <4>3. f[0 + 1] = f[0] \o s[0 + 1]
          BY <1>8, <4>1
        <4>4. <<>> \o s[1] = s[1]
          BY <4>2
        <4> QED BY <1>7, <4>1, <4>2, <4>3, <4>4
      <3>7. ASSUME NEW k \in Nat, k \in T PROVE k + 1 \in T
        <4> SUFFICES ASSUME (k + 1) + 1 <= n PROVE e[(k + 1) + 1] = f[(k + 1) + 1]
          OBVIOUS
        <4> DEFINE j == (k + 1) + 1
        <4>1. j \in 1..n /\ j # 1 /\ j - 1 = k + 1 /\ k + 1 <= n /\ k + 1 \in Nat
          BY <1>1
        <4>2. e[j] = e[j - 1] \o s[j]
          <5> HIDE DEF j
          <5> QED BY <3>5, <4>1
        <4>3. f[(k + 1) + 1] = f[k + 1] \o s[(k + 1) + 1]
          BY <1>8, <4>1
        <4>4. e[k + 1] = f[k + 1]
          BY <3>7, <4>1
        <4> QED BY <4>1, <4>2, <4>3, <4>4
      <3>8. n - 1 \in T
        <4>1. n - 1 \in Nat
          BY <1>1, <2>2
        <4> HIDE DEF T
        <4> QED BY <3>6, <3>7, <4>1, Induction
      <3>9. e[n] = f[n]
        BY <1>1, <2>2, <3>8
      <3> QED BY <3>1, <3>9
    <2> QED BY <1>2, <2>1, <2>2
  <1>10. FlattensTo(f, s, C)
    BY <1>6, <1>7, <1>8, <1>9 DEF FlattensTo, n
  <1> QED BY <1>10

\* Flattening nothing, and one sequence more.
LEMMA FlattenEmpty == F!FlattenSeq(<<>>) = <<>>
  BY DEF F!FlattenSeq

LEMMA FlattenTyped ==
    ASSUME NEW C, NEW s \in Seq(Seq(C))
    PROVE  F!FlattenSeq(s) \in Seq(C) /\ Len(F!FlattenSeq(s)) \in Nat
  <1>1. Len(s) \in Nat
    OBVIOUS
  <1>2. F!FlattenSeq(s) \in Seq(C)
    BY <1>1, FlattenIs DEF FlattensTo
  <1> QED BY <1>2

LEMMA FlattenAppend ==
    ASSUME NEW C, NEW s \in Seq(Seq(C)), NEW x \in Seq(C)
    PROVE  F!FlattenSeq(Append(s, x)) = F!FlattenSeq(s) \o x
  <1> DEFINE t == Append(s, x)
             n == Len(s)
  <1>1. /\ t \in Seq(Seq(C)) /\ Len(t) = n + 1 /\ n \in Nat
        /\ \A j \in 1..n : t[j] = s[j]
        /\ t[n + 1] = x
    OBVIOUS
  <1> HIDE DEF t
  <1>2. PICK f : FlattensTo(f, s, C)
    BY FlattenIs
  <1>3. PICK g : FlattensTo(g, t, C)
    BY <1>1, FlattenIs
  <1> DEFINE T == {k \in Nat : k <= n => f[k] = g[k]}
  <1>4. 0 \in T
    BY <1>2, <1>3 DEF FlattensTo
  <1>5. ASSUME NEW k \in Nat, k \in T PROVE k + 1 \in T
    <2> SUFFICES ASSUME k + 1 <= n PROVE f[k + 1] = g[k + 1]
      OBVIOUS
    <2>1. k + 1 <= Len(s) /\ k + 1 <= Len(t) /\ k + 1 \in 1..n /\ k <= n
      BY <1>1
    <2>2. f[k + 1] = f[k] \o s[k + 1] /\ g[k + 1] = g[k] \o t[k + 1]
      BY <1>2, <1>3, <2>1 DEF FlattensTo
    <2>3. f[k] = g[k] /\ s[k + 1] = t[k + 1]
      BY <1>1, <1>5, <2>1
    <2> QED BY <2>2, <2>3
  <1>6. f[n] = g[n]
    <2>1. n \in T
      <3> HIDE DEF T
      <3> QED BY <1>1, <1>4, <1>5, Induction
    <2> QED BY <2>1
  <1>7. g[n + 1] = g[n] \o t[n + 1]
    <2>1. n \in Nat /\ n + 1 <= Len(t)
      BY <1>1
    <2> QED BY <1>3, <2>1 DEF FlattensTo
  <1>8. F!FlattenSeq(s) = f[n] /\ F!FlattenSeq(t) = g[n + 1]
    <2>1. F!FlattenSeq(s) = f[Len(s)] /\ F!FlattenSeq(t) = g[Len(t)]
      BY <1>2, <1>3 DEF FlattensTo
    <2> QED BY <1>1, <2>1
  <1> QED BY <1>1, <1>6, <1>7, <1>8 DEF t

\* What the operators on sequences do to a place.
LEMMA ConcatIs ==
    ASSUME NEW C, NEW a \in Seq(C), NEW b \in Seq(C)
    PROVE  /\ a \o b \in Seq(C)
           /\ Len(a \o b) = Len(a) + Len(b)
           /\ Len(a) \in Nat /\ Len(b) \in Nat
           /\ \A j \in 1..Len(a) : (a \o b)[j] = a[j]
           /\ \A j \in 1..Len(b) : (a \o b)[Len(a) + j] = b[j]
  OBVIOUS

LEMMA SameSeq ==
    ASSUME NEW C, NEW a \in Seq(C), NEW b \in Seq(C), Len(a) = Len(b),
           \A j \in 1..Len(a) : a[j] = b[j]
    PROVE  a = b
  OBVIOUS

LEMMA ConcatAssoc ==
    ASSUME NEW C, NEW a \in Seq(C), NEW b \in Seq(C), NEW c \in Seq(C)
    PROVE  (a \o b) \o c = a \o (b \o c)
  OBVIOUS

LEMMA ConcatEmpty ==
    ASSUME NEW C, NEW a \in Seq(C)
    PROVE  a \o <<>> = a /\ <<>> \o a = a
  OBVIOUS

LEMMA LastOf ==
    ASSUME NEW C, NEW t \in Seq(C), NEW k \in Nat, Len(t) = k + 1
    PROVE  /\ SubSeq(t, 1, k) \in Seq(C) /\ Len(SubSeq(t, 1, k)) = k
           /\ t[k + 1] \in C
           /\ t = Append(SubSeq(t, 1, k), t[k + 1])
  <1> DEFINE u == SubSeq(t, 1, k)
  <1>1. u \in Seq(C) /\ Len(u) = k /\ \A j \in 1..k : u[j] = t[j]
    OBVIOUS
  <1>2. t[k + 1] \in C
    OBVIOUS
  <1> HIDE DEF u
  <1>3. t = Append(u, t[k + 1])
    BY <1>1, <1>2
  <1> QED BY <1>1, <1>2, <1>3 DEF u

LEMMA AppendConcat ==
    ASSUME NEW C, NEW s \in Seq(C), NEW u \in Seq(C), NEW x \in C
    PROVE  s \o Append(u, x) = Append(s \o u, x)
  OBVIOUS

\* Flattening distributes over concatenation, by induction on the second part.
LEMMA FlattenConcat ==
    ASSUME NEW C, NEW s \in Seq(Seq(C)), NEW t \in Seq(Seq(C))
    PROVE  F!FlattenSeq(s \o t) = F!FlattenSeq(s) \o F!FlattenSeq(t)
  <1> DEFINE Fine(v) == F!FlattenSeq(s \o v) = F!FlattenSeq(s) \o F!FlattenSeq(v)
             T == {k \in Nat : \A v \in Seq(Seq(C)) : Len(v) = k => Fine(v)}
  <1>1. 0 \in T
    <2>1. ASSUME NEW v \in Seq(Seq(C)), Len(v) = 0 PROVE Fine(v)
      <3>1. v = <<>>
        BY <2>1
      <3>2. s \o v = s
        BY <3>1
      <3>3. F!FlattenSeq(s) \in Seq(C)
        BY FlattenTyped
      <3>4. F!FlattenSeq(s) \o <<>> = F!FlattenSeq(s)
        BY <3>3, ConcatEmpty
      <3> QED BY <3>1, <3>2, <3>4, FlattenEmpty
    <2> HIDE DEF Fine
    <2> QED BY <2>1
  <1>2. ASSUME NEW k \in Nat, k \in T PROVE k + 1 \in T
    <2>1. ASSUME NEW v \in Seq(Seq(C)), Len(v) = k + 1 PROVE Fine(v)
      <3> DEFINE D == Seq(C)
      <3>0. v \in Seq(D) /\ Len(v) = k + 1
        BY <2>1
      <3> DEFINE u == SubSeq(v, 1, k)
                 x == v[k + 1]
      <3>1. u \in Seq(D) /\ x \in D /\ Len(u) = k /\ v = Append(u, x)
        <4> HIDE DEF D
        <4> QED BY <3>0, LastOf
      <3> HIDE DEF u, x
      <3>2. F!FlattenSeq(s \o u) = F!FlattenSeq(s) \o F!FlattenSeq(u)
        BY <1>2, <3>1
      <3>30. u \in Seq(Seq(C)) /\ x \in Seq(C) /\ s \in Seq(D) /\ u \in Seq(D) /\ x \in D
        BY <3>1
      <3>31. s \o Append(u, x) = Append(s \o u, x) /\ s \o u \in Seq(D)
        <4>1. s \in Seq(D) /\ u \in Seq(D) /\ x \in D
          BY <3>30
        <4> HIDE DEF D
        <4>2. s \o Append(u, x) = Append(s \o u, x)
          BY <4>1, AppendConcat
        <4>3. s \o u \in Seq(D)
          BY <4>1
        <4> QED BY <4>2, <4>3
      <3>3. s \o v = Append(s \o u, x) /\ s \o u \in Seq(Seq(C))
        BY <3>1, <3>31
      <3>4. F!FlattenSeq(s \o v) = F!FlattenSeq(s \o u) \o x
        <4> DEFINE y == s \o u
        <4>1. y \in Seq(Seq(C))
          BY <3>3
        <4> HIDE DEF y
        <4>2. F!FlattenSeq(Append(y, x)) = F!FlattenSeq(y) \o x
          BY <3>30, <4>1, FlattenAppend
        <4> QED BY <3>3, <4>2 DEF y
      <3>5. F!FlattenSeq(v) = F!FlattenSeq(u) \o x
        BY <3>1, <3>30, FlattenAppend
      <3>6. F!FlattenSeq(s) \in Seq(C) /\ F!FlattenSeq(u) \in Seq(C)
        BY <3>30, FlattenTyped
      <3>7. (F!FlattenSeq(s) \o F!FlattenSeq(u)) \o x = F!FlattenSeq(s) \o (F!FlattenSeq(u) \o x)
        <4> DEFINE a == F!FlattenSeq(s)
                   b == F!FlattenSeq(u)
        <4>1. a \in Seq(C) /\ b \in Seq(C) /\ x \in Seq(C)
          BY <3>30, <3>6
        <4> HIDE DEF a, b
        <4>2. (a \o b) \o x = a \o (b \o x)
          BY <4>1, ConcatAssoc
        <4> QED BY <4>2 DEF a, b
      <3> QED BY <3>2, <3>4, <3>5, <3>7
    <2> HIDE DEF Fine
    <2> QED BY <2>1
  <1>3. Len(t) \in Nat
    OBVIOUS
  <1>4. Len(t) \in T
    <2> HIDE DEF T
    <2> QED BY <1>1, <1>2, <1>3, Induction
  <1> HIDE DEF Fine
  <1>5. Fine(t)
    BY <1>4
  <1> QED BY <1>5 DEF Fine

\* Flattening one sequence, and the first of several.
LEMMA FlattenOne ==
    ASSUME NEW C, NEW x \in Seq(C)
    PROVE  F!FlattenSeq(<<x>>) = x
  <1>1. <<>> \in Seq(Seq(C)) /\ Append(<<>>, x) = <<x>>
    OBVIOUS
  <1>2. F!FlattenSeq(Append(<<>>, x)) = F!FlattenSeq(<<>>) \o x
    BY <1>1, FlattenAppend
  <1> QED BY <1>1, <1>2, FlattenEmpty, ConcatEmpty

LEMMA FlattenHead ==
    ASSUME NEW C, NEW s \in Seq(Seq(C)), s # <<>>
    PROVE  /\ s[1] \in Seq(C)
           /\ F!FlattenSeq(Tail(s)) \in Seq(C)
           /\ F!FlattenSeq(s) = s[1] \o F!FlattenSeq(Tail(s))
  <1>1. Tail(s) \in Seq(Seq(C)) /\ s[1] \in Seq(C) /\ <<s[1]>> \in Seq(Seq(C)) /\ s = <<s[1]>> \o Tail(s)
    OBVIOUS
  <1>2. F!FlattenSeq(<<s[1]>> \o Tail(s)) = F!FlattenSeq(<<s[1]>>) \o F!FlattenSeq(Tail(s))
    BY <1>1, FlattenConcat
  <1>3. F!FlattenSeq(<<s[1]>>) = s[1]
    BY <1>1, FlattenOne
  <1> QED BY <1>1, <1>2, <1>3, FlattenTyped

\* The entry j + 1 stands in the whole after the entries before it.
StandsAfter(f, s, j) ==
    /\ Len(f[j]) \in Nat
    /\ Len(f[j + 1]) = Len(f[j]) + Len(s[j + 1])
    /\ Len(f[j + 1]) <= Len(F!FlattenSeq(s))
    /\ \A k \in 1..Len(s[j + 1]) : F!FlattenSeq(s)[Len(f[j]) + k] = s[j + 1][k]

LEMMA FlattenLies ==
    ASSUME NEW C, NEW s \in Seq(Seq(C)), NEW f, FlattensTo(f, s, C),
           NEW j \in Nat, j + 1 <= Len(s)
    PROVE  StandsAfter(f, s, j)
  <1> DEFINE n == Len(s)
             Lies(m) == /\ Len(f[j + 1]) <= Len(f[m])
                        /\ \A k \in 1..Len(s[j + 1]) : f[m][Len(f[j]) + k] = s[j + 1][k]
             T == {m \in Nat : j + 1 <= m /\ m <= n => Lies(m)}
  <1>1. n \in Nat /\ \A m \in 1..n : s[m] \in Seq(C)
    OBVIOUS
  <1>2. /\ \A m \in Nat : f[m] \in Seq(C)
        /\ \A m \in Nat : m + 1 <= n => f[m + 1] = f[m] \o s[m + 1]
        /\ F!FlattenSeq(s) = f[n]
    BY DEF FlattensTo
  <1>3. s[j + 1] \in Seq(C) /\ f[j] \in Seq(C) /\ f[j + 1] = f[j] \o s[j + 1] /\ j + 1 <= n
    <2>1. j + 1 \in 1..n
      BY <1>1
    <2> QED BY <1>1, <1>2, <2>1
  <1>4. /\ Len(f[j]) \in Nat
        /\ Len(f[j + 1]) = Len(f[j]) + Len(s[j + 1])
        /\ \A k \in 1..Len(s[j + 1]) : f[j + 1][Len(f[j]) + k] = s[j + 1][k]
    <2> DEFINE a == f[j]
               b == s[j + 1]
               c == f[j + 1]
    <2>1. a \in Seq(C) /\ b \in Seq(C) /\ c = a \o b
      BY <1>3
    <2> HIDE DEF a, b, c
    <2>2. /\ Len(a) \in Nat
          /\ Len(c) = Len(a) + Len(b)
          /\ \A k \in 1..Len(b) : c[Len(a) + k] = b[k]
      BY <2>1, ConcatIs
    <2> QED BY <2>2 DEF a, b, c
  <1>40. \A m \in Nat : Len(f[m]) \in Nat
    BY <1>2
  <1> HIDE DEF n
  <1>5. 0 \in T
    OBVIOUS
  <1>6. ASSUME NEW m \in Nat, m \in T PROVE m + 1 \in T
    <2> SUFFICES ASSUME j + 1 <= m + 1, m + 1 <= n PROVE Lies(m + 1)
      OBVIOUS
    <2>1. CASE m = j
      <3>1. Len(f[j + 1]) \in Nat
        BY <1>40
      <3>2. Len(f[j + 1]) <= Len(f[j + 1])
        BY <3>1
      <3> QED BY <1>4, <2>1, <3>2
    <2>2. CASE m # j
      <3>1. j + 1 <= m /\ m <= n
        BY <1>1, <2>2
      <3>2. Lies(m)
        BY <1>6, <3>1
      <3>3. f[m] \in Seq(C) /\ s[m + 1] \in Seq(C) /\ f[m + 1] = f[m] \o s[m + 1]
        <4>1. m + 1 \in 1..n
          BY <1>1
        <4> QED BY <1>1, <1>2, <4>1
      <3>4. /\ Len(f[m + 1]) = Len(f[m]) + Len(s[m + 1])
            /\ Len(f[m]) \in Nat /\ Len(s[m + 1]) \in Nat
            /\ \A k \in 1..Len(f[m]) : f[m + 1][k] = f[m][k]
        <4> DEFINE a == f[m]
                   b == s[m + 1]
                   c == f[m + 1]
        <4>1. a \in Seq(C) /\ b \in Seq(C) /\ c = a \o b
          BY <3>3
        <4> HIDE DEF a, b, c
        <4>2. /\ Len(c) = Len(a) + Len(b)
              /\ Len(a) \in Nat /\ Len(b) \in Nat
              /\ \A k \in 1..Len(a) : c[k] = a[k]
          BY <4>1, ConcatIs
        <4> QED BY <4>2 DEF a, b, c
      <3>5. Len(f[j + 1]) <= Len(f[m + 1])
        <4>1. Len(f[j + 1]) \in Nat /\ Len(f[m + 1]) \in Nat
          BY <1>40
        <4> DEFINE a == Len(f[j + 1])
                   b == Len(f[m])
                   c == Len(f[m + 1])
                   d == Len(s[m + 1])
        <4>2. a <= b /\ c = b + d /\ b \in Nat /\ d \in Nat /\ a \in Nat
          BY <3>2, <3>4, <4>1
        <4> HIDE DEF a, b, c, d
        <4>3. a <= c
          BY <4>2
        <4> QED BY <4>3 DEF a, c
      <3>6. ASSUME NEW k \in 1..Len(s[j + 1]) PROVE f[m + 1][Len(f[j]) + k] = s[j + 1][k]
        <4>1. Len(s[j + 1]) \in Nat
          BY <1>3
        <4>2. Len(f[j]) + k \in 1..Len(f[m])
          <5>1. Len(f[j + 1]) \in Nat /\ Len(f[j + 1]) <= Len(f[m])
            BY <1>40, <3>2
          <5> DEFINE a == Len(f[j + 1])
                     b == Len(f[m])
                     c == Len(f[j])
                     d == Len(s[j + 1])
          <5>2. a <= b /\ a = c + d /\ b \in Nat /\ d \in Nat /\ c \in Nat /\ k \in 1..d
            BY <1>4, <3>4, <4>1, <5>1
          <5> HIDE DEF Lies, T, a, b, c, d
          <5>3. c + k \in 1..b
            BY <5>2
          <5> QED BY <5>3 DEF b, c
        <4> QED BY <3>2, <3>4, <4>2
      <3> QED BY <3>5, <3>6
    <2> QED BY <2>1, <2>2
  <1>7. n \in T
    <2> HIDE DEF T
    <2> QED BY <1>1, <1>5, <1>6, Induction
  <1>8. Lies(n)
    <2> HIDE DEF Lies
    <2>1. j + 1 <= n /\ n <= n
      BY <1>1, <1>3
    <2>2. j + 1 <= n /\ n <= n => Lies(n)
      BY <1>7
    <2> QED BY <2>1, <2>2
  <1> QED BY <1>2, <1>4, <1>8 DEF n, StandsAfter
-----------------------------------------------------------------------------
(* Where the parts of a reply stand. *)

\* x stands in q after the first p characters.
Lies(q, p, x) == /\ p \in Nat
                 /\ p + Len(x) <= Len(q)
                 /\ \A k \in 1..Len(x) : q[p + k] = x[k]

\* Where the parts of a concatenation stand, and the parts of a part.
LEMMA ConcatLies ==
    ASSUME NEW C, NEW a \in Seq(C), NEW b \in Seq(C)
    PROVE  Lies(a \o b, 0, a) /\ Lies(a \o b, Len(a), b)
  <1> DEFINE c == a \o b
  <1>1. /\ Len(c) = Len(a) + Len(b)
        /\ Len(a) \in Nat /\ Len(b) \in Nat
        /\ \A j \in 1..Len(a) : c[j] = a[j]
        /\ \A j \in 1..Len(b) : c[Len(a) + j] = b[j]
    BY ConcatIs
  <1> HIDE DEF c
  <1>2. Lies(c, 0, a) /\ Lies(c, Len(a), b)
    BY <1>1 DEF Lies
  <1> QED BY <1>2 DEF c

LEMMA LiesIn ==
    ASSUME NEW C, NEW q \in Seq(C), NEW x \in Seq(C), NEW y \in Seq(C), NEW p, NEW r,
           Lies(q, p, x), Lies(x, r, y)
    PROVE  Lies(q, p + r, y)
  <1>1. Len(q) \in Nat /\ Len(x) \in Nat /\ Len(y) \in Nat
    OBVIOUS
  <1>2. p \in Nat /\ r \in Nat /\ p + Len(x) <= Len(q) /\ r + Len(y) <= Len(x)
    BY DEF Lies
  <1>3. p + r \in Nat /\ p + r + Len(y) <= Len(q)
    BY <1>1, <1>2
  <1>4. ASSUME NEW k \in 1..Len(y) PROVE q[p + r + k] = y[k]
    <2>1. r + k \in 1..Len(x) /\ p + (r + k) = p + r + k
      BY <1>1, <1>2
    <2>2. x[r + k] = y[k]
      BY DEF Lies
    <2>3. q[p + (r + k)] = x[r + k]
      BY <2>1 DEF Lies
    <2> QED BY <2>1, <2>2, <2>3
  <1> QED BY <1>3, <1>4 DEF Lies

\* A padded number that stands at its width is read as it was written.
LEMMA NumberLies ==
    ASSUME NEW q \in Seq(Nat), NEW p, NEW n \in Nat, NEW w \in Nat,
           Lies(q, p, F!Padded(n, w)), Len(F!Digits(n)) <= w
    PROVE  F!NumberAt(q, p, w) = n
  <1> DEFINE d == F!Padded(n, w)
  <1>1. n \in Int /\ F!Text(n) = F!Digits(n)
    BY TextIs
  <1>2. d \in Seq(Nat) /\ Len(d) = w
    BY <1>1, PaddedIs
  <1>3. F!NumberAt(d, 0, w) = n
    BY PaddedValue
  <1> HIDE DEF d
  <1>4. Lies(q, p, d)
    BY DEF d
  <1>5. p \in Nat /\ p + w <= Len(q) /\ 0 \in Nat /\ 0 + w <= Len(d)
    BY <1>2, <1>4 DEF Lies
  <1>6. \A j \in 1..w : q[p + j] = d[0 + j]
    <2>1. \A j \in 1..w : q[p + j] = d[j]
      BY <1>2, <1>4 DEF Lies
    <2>2. \A j \in 1..w : 0 + j = j
      OBVIOUS
    <2> QED BY <2>1, <2>2
  <1>7. F!NumberAt(q, p, w) = F!NumberAt(d, 0, w)
    <2>1. p + w <= Len(q) /\ 0 + w <= Len(d) /\ p \in Nat
      BY <1>5
    <2>2. \A j \in 1..w : q[p + j] = d[0 + j]
      BY <1>6
    <2>3. d \in Seq(Nat) /\ 0 \in Nat
      BY <1>2, <1>5
    <2> QED BY <2>1, <2>2, <2>3, NumberSame DEF SameNumber
  <1> QED BY <1>3, <1>7

\* The end of entries is what follows from one to the next.
IsEnds(e, q, p, n, before, w, after) ==
    e = [j \in 0..n |->
            IF j = 0 THEN p
            ELSE LET start == e[j - 1] + before
                 IN start + w + F!NumberAt(q, start, w) + after]

\* The end of the next entry, and that the ends are those of `at`.
After(q, x, before, w, after) == x + before + w + F!NumberAt(q, x + before, w) + after

EndsAt(q, p, n, before, w, after, at) == F!EntriesEnd(q, p, n, before, w, after) = at[n]

\* The local function of EntriesEnd is determined by its recursion.
LEMMA EntriesEndIs ==
    ASSUME NEW q \in Seq(F!Char), NEW p, NEW n \in Nat, NEW before, NEW w, NEW after, NEW at,
           n <= Len(q), at[0] = p,
           \A j \in 1..n : at[j] = After(q, at[j - 1], before, w, after)
    PROVE  EndsAt(q, p, n, before, w, after, at)
  <1> DEFINE e == CHOOSE g : IsEnds(g, q, p, n, before, w, after)
             h == [j \in 0..n |-> at[j]]
  <1>1. Len(q) \in Nat
    OBVIOUS
  <1>2. F!EntriesEnd(q, p, n, before, w, after) = e[n]
    BY <1>1 DEF F!EntriesEnd, IsEnds
  <1>3. IsEnds(h, q, p, n, before, w, after)
    <2>1. ASSUME NEW j \in 0..n
          PROVE  at[j] = IF j = 0 THEN p ELSE After(q, h[j - 1], before, w, after)
      <3>1. CASE j = 0
        BY <3>1
      <3>2. CASE j # 0
        <4>1. j \in 1..n /\ j - 1 \in 0..n
          BY <3>2
        <4>2. h[j - 1] = at[j - 1]
          BY <4>1
        <4> HIDE DEF h
        <4> QED BY <3>2, <4>1, <4>2
      <3> QED BY <3>1, <3>2
    <2>2. h = [j \in 0..n |-> IF j = 0 THEN p ELSE After(q, h[j - 1], before, w, after)]
      <3>1. h = [j \in 0..n |-> at[j]]
        OBVIOUS
      <3>2. \A j \in 0..n : at[j] = IF j = 0 THEN p ELSE After(q, h[j - 1], before, w, after)
        BY <2>1
      <3> HIDE DEF h
      <3> QED BY <3>1, <3>2, Zenon
    <2> HIDE DEF h
    <2> QED BY <2>2, Zenon DEF IsEnds, After
  <1> HIDE DEF h
  <1>4. IsEnds(e, q, p, n, before, w, after)
    BY <1>3
  <1> HIDE DEF e
  <1>5. \A j \in 0..n : e[j] = IF j = 0 THEN p ELSE After(q, e[j - 1], before, w, after)
    BY <1>4, Zenon DEF IsEnds, After
  <1> DEFINE T == {k \in Nat : k <= n => e[k] = at[k]}
  <1>6. 0 \in T
    <2>1. 0 \in 0..n
      OBVIOUS
    <2>2. e[0] = p
      BY <1>5, <2>1
    <2> QED BY <2>2
  <1>7. ASSUME NEW k \in Nat, k \in T PROVE k + 1 \in T
    <2> SUFFICES ASSUME k + 1 <= n PROVE e[k + 1] = at[k + 1]
      OBVIOUS
    <2>1. k + 1 \in 0..n /\ k + 1 \in 1..n /\ k + 1 # 0 /\ (k + 1) - 1 = k /\ k <= n
      OBVIOUS
    <2>2. e[k + 1] = After(q, e[(k + 1) - 1], before, w, after)
      BY <1>5, <2>1
    <2>3. at[k + 1] = After(q, at[(k + 1) - 1], before, w, after)
      BY <2>1
    <2>4. e[k] = at[k]
      BY <1>7, <2>1
    <2> QED BY <2>1, <2>2, <2>3, <2>4
  <1>8. n \in T
    <2> HIDE DEF T
    <2> QED BY <1>6, <1>7, Induction
  <1> QED BY <1>2, <1>8 DEF EndsAt
-----------------------------------------------------------------------------
(* Lists of entries. *)

\* Characters are numbers.
LEMMA CharsAreNumbers ==
    ASSUME NEW q \in Seq(F!Char)
    PROVE  q \in Seq(Nat)
  <1>1. \A j \in 1..Len(q) : q[j] \in Nat
    BY DEF F!Char
  <1> QED BY <1>1

\* An entry of a list is as long as its fields say.
Entry(x, before, w, after) ==
    /\ x \in Seq(F!Char)
    /\ Len(x) >= 1
    /\ before + w <= Len(x)
    /\ Len(x) = before + w + F!NumberAt(x, before, w) + after

\* A list of such entries ends where its characters do.
ListEndsAt(q, p, s, f, n, before, w, after) ==
    F!EntriesEnd(q, p, n, before, w, after) = p + Len(f[n])

\* The client walks from the end of one entry to the end of the next.
LEMMA ListEnds ==
    ASSUME NEW q \in Seq(F!Char), NEW p, NEW s \in Seq(Seq(F!Char)),
           NEW f, FlattensTo(f, s, F!Char), Lies(q, p, F!FlattenSeq(s)),
           NEW before \in Nat, NEW w \in Nat, NEW after \in Nat,
           \A j \in 1..Len(s) : Entry(s[j], before, w, after),
           NEW n \in Nat, n <= Len(s)
    PROVE  ListEndsAt(q, p, s, f, n, before, w, after)
  <1> DEFINE m == Len(s)
             at == [j \in 0..n |-> p + Len(f[j])]
             t == F!FlattenSeq(s)
  <1>1. m \in Nat /\ Len(q) \in Nat
    OBVIOUS
  <1>2. t \in Seq(F!Char) /\ Len(t) \in Nat
    BY FlattenTyped
  <1>3. p \in Nat /\ p + Len(t) <= Len(q) /\ \A k \in 1..Len(t) : q[p + k] = t[k]
    BY DEF Lies
  <1>4. ASSUME NEW j \in Nat, j + 1 <= m
        PROVE  /\ Len(f[j]) \in Nat
               /\ Len(f[j + 1]) = Len(f[j]) + Len(s[j + 1])
               /\ Len(f[j + 1]) <= Len(t)
               /\ \A k \in 1..Len(s[j + 1]) : t[Len(f[j]) + k] = s[j + 1][k]
    <2>1. j + 1 <= Len(s)
      BY <1>4
    <2>2. /\ Len(f[j]) \in Nat
          /\ Len(f[j + 1]) = Len(f[j]) + Len(s[j + 1])
          /\ Len(f[j + 1]) <= Len(F!FlattenSeq(s))
          /\ \A k \in 1..Len(s[j + 1]) : F!FlattenSeq(s)[Len(f[j]) + k] = s[j + 1][k]
      <3> HIDE DEF at, t, m
      <3>1. StandsAfter(f, s, j)
        BY <2>1, FlattenLies, Zenon
      <3> QED BY <3>1 DEF StandsAfter
    <2> QED BY <2>2
  <1>40. f[0] = <<>> /\ \A j \in Nat : Len(f[j]) \in Nat
    BY DEF FlattensTo
  <1>41. n <= m
    OBVIOUS
  <1>42. \A j \in 1..m : Entry(s[j], before, w, after)
    OBVIOUS
  <1> HIDE DEF m, t
  <1>5. n <= Len(q)
    <2> DEFINE T == {k \in Nat : k <= n => k <= Len(f[k]) /\ Len(f[k]) <= Len(t)}
    <2>1. 0 \in T
      <3>1. Len(f[0]) = 0
        BY <1>40
      <3> QED BY <3>1, <1>2
    <2>2. ASSUME NEW k \in Nat, k \in T PROVE k + 1 \in T
      <3> SUFFICES ASSUME k + 1 <= n PROVE k + 1 <= Len(f[k + 1]) /\ Len(f[k + 1]) <= Len(t)
        OBVIOUS
      <3>1. k + 1 <= m /\ k <= n /\ k + 1 \in 1..m
        BY <1>1, <1>41
      <3>2. Len(f[k + 1]) = Len(f[k]) + Len(s[k + 1]) /\ Len(f[k + 1]) <= Len(t)
        BY <1>4, <3>1
      <3>3. Entry(s[k + 1], before, w, after)
        BY <1>42, <3>1
      <3>4. Len(s[k + 1]) >= 1 /\ Len(s[k + 1]) \in Nat
        BY <3>3 DEF Entry
      <3>5. k <= Len(f[k]) /\ Len(f[k]) \in Nat
        BY <1>40, <2>2, <3>1
      <3>6. Len(f[k + 1]) <= Len(t)
        BY <3>2
      <3> DEFINE a == Len(f[k])
                 b == Len(f[k + 1])
                 c == Len(s[k + 1])
      <3>7. b = a + c /\ c >= 1 /\ k <= a /\ c \in Nat /\ a \in Nat
        BY <3>2, <3>4, <3>5
      <3> HIDE DEF a, b, c
      <3>8. k + 1 <= b
        BY <3>7
      <3> QED BY <3>6, <3>8 DEF b
    <2>3. n \in T
      <3> HIDE DEF T
      <3> QED BY <2>1, <2>2, Induction
    <2>4. n <= Len(f[n]) /\ Len(f[n]) <= Len(t) /\ Len(f[n]) \in Nat
      BY <1>40, <2>3
    <2> QED BY <1>1, <1>2, <1>3, <2>4
  <1>6. at[0] = p
    <2>1. Len(f[0]) = 0 /\ 0 \in 0..n
      BY <1>40
    <2>2. at[0] = p + Len(f[0])
      BY <2>1
    <2>3. p + 0 = p
      BY <1>3
    <2> HIDE DEF at
    <2> QED BY <2>1, <2>2, <2>3
  <1>7. ASSUME NEW j \in 1..n
        PROVE  at[j] = After(q, at[j - 1], before, w, after)
    <2> DEFINE k == j - 1
    <2>1. k \in Nat /\ k + 1 = j /\ j <= m /\ j \in 1..m /\ k \in 0..n /\ j \in 0..n
      BY <1>1, <1>41
    <2>2. at[j] = p + Len(f[j]) /\ at[k] = p + Len(f[k])
      BY <2>1
    <2> DEFINE x == s[j]
               a == Len(f[k])
               b == Len(f[j])
    <2>3. Entry(x, before, w, after)
      BY <1>42, <2>1
    <2>4. /\ x \in Seq(F!Char) /\ before + w <= Len(x)
          /\ Len(x) = before + w + F!NumberAt(x, before, w) + after
          /\ Len(x) \in Nat
      BY <2>3 DEF Entry
    <2>5. a \in Nat /\ b = a + Len(x) /\ b <= Len(t)
      <3>1. k + 1 <= m
        BY <2>1
      <3>2. Len(f[k]) \in Nat /\ Len(f[k + 1]) = Len(f[k]) + Len(s[k + 1]) /\ Len(f[k + 1]) <= Len(t)
        BY <1>4, <2>1, <3>1
      <3> HIDE DEF k
      <3> QED BY <2>1, <3>2
    <2>6. \A i1 \in 1..Len(x) : t[a + i1] = x[i1]
      <3>1. k + 1 <= m
        BY <2>1
      <3>2. \A i1 \in 1..Len(s[k + 1]) : t[Len(f[k]) + i1] = s[k + 1][i1]
        BY <1>4, <2>1, <3>1
      <3> HIDE DEF k
      <3> QED BY <2>1, <3>2
    <2> HIDE DEF at, k, a, b, x
    <2>7. Lies(q, p + a, x)
      <3>1. Lies(t, a, x)
        BY <1>2, <2>4, <2>5, <2>6 DEF Lies
      <3>2. Lies(q, p, t)
        BY <1>3 DEF Lies
      <3> QED BY <1>2, <2>4, <3>1, <3>2, LiesIn
    <2>8. F!NumberAt(q, p + a + before, w) = F!NumberAt(x, before, w)
      <3>1. q \in Seq(Nat) /\ x \in Seq(Nat)
        BY <2>4, CharsAreNumbers
      <3>2. p + a + before \in Nat /\ p + a + before + w <= Len(q)
        <4> DEFINE lq == Len(q)
                   lt == Len(t)
                   lx == Len(x)
        <4>1. lq \in Nat /\ lt \in Nat /\ lx \in Nat
          BY <1>1, <1>2, <2>4
        <4>2. p \in Nat /\ p + lt <= lq
          BY <1>3
        <4>3. a \in Nat /\ a + lx <= lt
          BY <2>5
        <4>4. before + w <= lx
          BY <2>4
        <4> HIDE DEF lq, lt, lx
        <4>5. a + before + w <= lt
          BY <4>1, <4>3, <4>4
        <4>6. p + a + before + w <= lq
          BY <4>1, <4>2, <4>3, <4>5
        <4>7. p + a + before \in Nat
          BY <4>2, <4>3
        <4> QED BY <4>6, <4>7 DEF lq
      <3>3. ASSUME NEW i1 \in 1..w PROVE q[p + a + before + i1] = x[before + i1]
        <4>1. before + i1 \in 1..Len(x) /\ p + a + before + i1 = p + a + (before + i1)
          BY <1>3, <2>4, <2>5
        <4>2. q[p + a + (before + i1)] = x[before + i1]
          BY <2>7, <4>1 DEF Lies
        <4> QED BY <4>1, <4>2
      <3>4. before + w <= Len(x)
        BY <2>4
      <3> DEFINE r == p + a + before
      <3>5. r \in Nat /\ r + w <= Len(q) /\ \A i1 \in 1..w : q[r + i1] = x[before + i1]
        BY <3>2, <3>3
      <3> HIDE DEF r
      <3>6. F!NumberAt(q, r, w) = F!NumberAt(x, before, w)
        <4>1. r \in Nat
          BY <3>5
        <4>2. r + w <= Len(q)
          BY <3>5
        <4>3. \A i1 \in 1..w : q[r + i1] = x[before + i1]
          BY <3>5
        <4>4. SameNumber(q, r, x, before, w)
          BY <3>1, <3>4, <4>1, <4>2, <4>3, NumberSame, Zenon
        <4> QED BY <4>4 DEF SameNumber
      <3> QED BY <3>6 DEF r
    <2>9. F!NumberAt(x, before, w) \in Nat
      BY <2>4, NumberTyped, CharsAreNumbers
    <2>10. After(q, p + a, before, w, after) = p + b
      <3> DEFINE v == F!NumberAt(x, before, w)
      <3>1. After(q, p + a, before, w, after) = p + a + before + w + v + after
        BY <2>8 DEF After
      <3>2. Len(x) = before + w + v + after /\ v \in Nat
        BY <2>4, <2>9
      <3> HIDE DEF v
      <3> QED BY <1>3, <2>5, <3>1, <3>2
    <2>11. at[j] = p + b /\ at[j - 1] = p + a
      BY <2>2 DEF a, b, k
    <2> QED BY <2>10, <2>11
  <1>8. at[n] = p + Len(f[n])
    BY <1>41
  <1> HIDE DEF at
  <1>9. F!EntriesEnd(q, p, n, before, w, after) = at[n]
    <2>1. \A j \in 1..n : at[j] = After(q, at[j - 1], before, w, after)
      BY <1>7
    <2>2. EndsAt(q, p, n, before, w, after, at)
      BY <1>5, <1>6, <2>1, EntriesEndIs, Zenon
    <2> QED BY <2>2 DEF EndsAt
  <1> QED BY <1>8, <1>9 DEF ListEndsAt
-----------------------------------------------------------------------------
(* Replies that a client can tell from what follows. *)

\* Within how many digits a number is.
LEMMA DigitsWithin ==
    ASSUME NEW n \in Nat
    PROVE  /\ n <= 9 => Len(F!Digits(n)) <= 1
           /\ n <= 99 => Len(F!Digits(n)) <= 2
           /\ n <= 999 => Len(F!Digits(n)) <= 3
           /\ n <= 9999 => Len(F!Digits(n)) <= 4
  <1>1. n <= 9 => Len(F!Digits(n)) = 1
    BY OneDigit
  <1>2. 10 <= n /\ n <= 99 => Len(F!Digits(n)) = 2
    BY TwoDigits
  <1>3. 100 <= n /\ n <= 999 => Len(F!Digits(n)) = 3
    BY ThreeDigits
  <1>4. 1000 <= n /\ n <= 9999 => Len(F!Digits(n)) = 4
    BY FourDigits
  <1> DEFINE k == Len(F!Digits(n))
  <1>5. /\ n <= 9 => k = 1
        /\ 10 <= n /\ n <= 99 => k = 2
        /\ 100 <= n /\ n <= 999 => k = 3
        /\ 1000 <= n /\ n <= 9999 => k = 4
    BY <1>1, <1>2, <1>3, <1>4
  <1> HIDE DEF k
  <1>6. /\ n <= 9 => k <= 1
        /\ n <= 99 => k <= 2
        /\ n <= 999 => k <= 3
        /\ n <= 9999 => k <= 4
    BY <1>5
  <1> QED BY <1>6 DEF k

\* Fields that are as long as the client takes them.
LEMMA PaddedFits ==
    ASSUME NEW n \in Nat, NEW w \in Nat, Len(F!Digits(n)) <= w
    PROVE  F!Padded(n, w) \in Seq(F!Char) /\ Len(F!Padded(n, w)) = w
  <1>1. n \in Int /\ F!Text(n) = F!Digits(n)
    BY TextIs
  <1> QED BY <1>1, PaddedIs

\* The letters of a text.
LEMMA LettersIs ==
    ASSUME NEW n \in Nat
    PROVE  F!Letters(n) \in Seq(F!Char) /\ Len(F!Letters(n)) = n
  BY DEF F!Letters, F!Char, F!Letter

\* A text after its length.
LEMMA SizedIs ==
    ASSUME NEW n \in Nat, NEW w \in Nat, Len(F!Digits(n)) <= w
    PROVE  /\ F!Sized(n, w) \in Seq(F!Char)
           /\ Len(F!Sized(n, w)) = w + n
           /\ Lies(F!Sized(n, w), 0, F!Padded(n, w))
  <1> DEFINE a == F!Padded(n, w)
             b == F!Letters(n)
  <1>1. a \in Seq(F!Char) /\ Len(a) = w /\ b \in Seq(F!Char) /\ Len(b) = n
    BY PaddedFits, LettersIs
  <1>2. F!Sized(n, w) = a \o b
    BY DEF F!Sized
  <1> HIDE DEF a, b
  <1>3. a \o b \in Seq(F!Char) /\ Len(a \o b) = w + n /\ Lies(a \o b, 0, a)
    BY <1>1, ConcatIs, ConcatLies
  <1> QED BY <1>2, <1>3 DEF a

\* An entry from its fields.
LEMMA EntryIs ==
    ASSUME NEW x \in Seq(F!Char), NEW before \in Nat, NEW w \in Nat, NEW after \in Nat,
           NEW n \in Nat, w >= 1, Len(F!Digits(n)) <= w,
           Lies(x, before, F!Padded(n, w)), Len(x) = before + w + n + after
    PROVE  Entry(x, before, w, after)
  <1>1. x \in Seq(Nat)
    BY CharsAreNumbers
  <1>2. F!NumberAt(x, before, w) = n
    BY <1>1, NumberLies
  <1>3. Len(x) >= 1 /\ before + w <= Len(x)
    OBVIOUS
  <1> QED BY <1>2, <1>3 DEF Entry

-----------------------------------------------------------------------------
\* A reply that a client finds whatever follows it.
Splits(b) == /\ b \in Seq(F!Char)
             /\ Len(b) >= 1
             /\ \A rest \in Seq(F!Char) : F!Extent(b \o rest) = Len(b)

\* q begins with this code and x after it.
Begins(q, code, x) == /\ q \in Seq(F!Char)
                      /\ Len(q) >= 3
                      /\ F!NumberAt(q, 0, 3) = code
                      /\ Lies(q, 3, x)

\* The codes have three digits.  The name keeps the bounds, and with them the
\* numerals, out of the steps that only pass a code on.
IsCode(code) == code \in Nat /\ 100 <= code /\ code <= 999

\* The code of a reply, and what begins with it.
LEMMA CodeIs ==
    ASSUME NEW code \in Nat, 100 <= code, code <= 999
    PROVE  /\ F!Digits(code) \in Seq(F!Char) /\ F!Digits(code) \in Seq(Nat)
           /\ Len(F!Digits(code)) = 3
           /\ F!NumberAt(F!Digits(code), 0, 3) = code
  <1>1. Len(F!Digits(code)) = 3
    BY ThreeDigits
  <1> QED BY <1>1, DigitsAreChars, DigitsValue

LEMMA ReplyBegins ==
    ASSUME NEW code \in Nat, 100 <= code, code <= 999,
           NEW x \in Seq(F!Char), NEW rest \in Seq(F!Char)
    PROVE  Begins((F!Digits(code) \o x) \o rest, code, x)
  <1> DEFINE a == F!Digits(code)
             b == a \o x
             q == b \o rest
  <1>1. a \in Seq(F!Char) /\ a \in Seq(Nat) /\ Len(a) = 3 /\ F!NumberAt(a, 0, 3) = code
    BY CodeIs
  <1> HIDE DEF a
  <1>2. b \in Seq(F!Char) /\ Lies(b, 0, a) /\ Lies(b, 3, x)
    <2>1. a \o x \in Seq(F!Char)
      BY <1>1, ConcatIs
    <2>2. Lies(a \o x, 0, a) /\ Lies(a \o x, Len(a), x)
      BY <1>1, ConcatLies
    <2>3. Len(a) = 3
      BY <1>1
    <2> HIDE DEF a
    <2> QED BY <2>1, <2>2, <2>3, Zenon
  <1> HIDE DEF b
  <1>3. q \in Seq(F!Char) /\ Lies(q, 0, b)
    <2>1. b \o rest \in Seq(F!Char)
      BY <1>2, ConcatIs
    <2>2. Lies(b \o rest, 0, b)
      BY <1>2, ConcatLies
    <2> QED BY <2>1, <2>2
  <1> HIDE DEF q
  <1>4. Lies(q, 0 + 0, a) /\ Lies(q, 0 + 3, x)
    <2>1. q \in Seq(F!Char) /\ Lies(q, 0, b)
      BY <1>3
    <2>2. b \in Seq(F!Char) /\ a \in Seq(F!Char) /\ x \in Seq(F!Char)
      BY <1>1, <1>2
    <2>3. Lies(q, 0 + 0, a)
      BY <1>2, <2>1, <2>2, LiesIn
    <2>4. Lies(q, 0 + 3, x)
      BY <1>2, <2>1, <2>2, LiesIn
    <2> QED BY <2>3, <2>4
  <1>5. Lies(q, 0, a) /\ Lies(q, 3, x)
    BY <1>4
  <1>6. Len(q) >= 3 /\ \A j \in 1..3 : q[0 + j] = a[0 + j]
    BY <1>1, <1>5 DEF Lies
  <1>7. F!NumberAt(q, 0, 3) = F!NumberAt(a, 0, 3)
    <2>1. q \in Seq(Nat)
      BY <1>3, CharsAreNumbers
    <2>2. 0 + 3 <= Len(q) /\ 0 + 3 <= Len(a) /\ 0 \in Nat /\ 3 \in Nat
      BY <1>1, <1>6
    <2>3. SameNumber(q, 0, a, 0, 3)
      BY <1>1, <1>6, <2>1, <2>2, NumberSame, Zenon
    <2> QED BY <2>3 DEF SameNumber
  <1>8. Begins(q, code, x)
    BY <1>1, <1>3, <1>5, <1>6, <1>7 DEF Begins
  <1> QED BY <1>8 DEF q, b, a

\* If the client knows the length from the code and what follows, it splits.
LEMMA SplitsIf ==
    ASSUME NEW code, IsCode(code), NEW x \in Seq(F!Char),
           \A q : Begins(q, code, x) => F!Extent(q) = 3 + Len(x)
    PROVE  Splits(F!Digits(code) \o x)
  <1> DEFINE a == F!Digits(code)
             b == a \o x
  <1>0. code \in Nat /\ 100 <= code /\ code <= 999
    BY DEF IsCode
  <1>1. a \in Seq(F!Char) /\ Len(a) = 3
    BY <1>0, CodeIs
  <1>2. ASSUME NEW rest \in Seq(F!Char) PROVE F!Extent(b \o rest) = 3 + Len(x)
    <2>1. Begins(b \o rest, code, x)
      BY <1>0, ReplyBegins
    <2> HIDE DEF b
    <2> QED BY <2>1
  <1> HIDE DEF a
  <1>3. b \in Seq(F!Char) /\ Len(b) = 3 + Len(x) /\ Len(x) \in Nat
    <2>1. a \o x \in Seq(F!Char) /\ Len(a \o x) = Len(a) + Len(x) /\ Len(x) \in Nat
      BY <1>1, ConcatIs
    <2> QED BY <1>1, <2>1
  <1> HIDE DEF b
  <1>4. Splits(b)
    BY <1>2, <1>3 DEF Splits
  <1> QED BY <1>4 DEF b, a

\* The length a code stands for.
LEMMA ExtentIs ==
    ASSUME NEW q, NEW code, Len(q) \in Nat, Len(q) >= 3, F!NumberAt(q, 0, 3) = code
    PROVE  /\ code \in {102, 104, 112, 114, 120} => F!Extent(q) = 4
           /\ code = 116 => F!Extent(q) = 3
           /\ code = 110 => F!Extent(q) = IF F!NumberAt(q, 3, 1) = 0 THEN 8 ELSE 4
           /\ code = 106 /\ Len(q) >= 7 =>
                 F!Extent(q) = F!EntriesEnd(q, 7, F!NumberAt(q, 3, 4), 4, 2, 0)
           /\ code = 108 /\ Len(q) >= 6 =>
                 F!Extent(q) = F!EntriesEnd(q, 6, F!NumberAt(q, 3, 3), 0, 2, 0)
           /\ code = 118 => F!Extent(q) = F!EntriesEnd(q, 3, 5, 0, 3, 0)
           /\ code = 121 /\ Len(q) >= 4 =>
                 F!Extent(q) = F!EntriesEnd(q, 4, F!NumberAt(q, 3, 1), 0, 2, 2)
           /\ code = 124 => F!Extent(q) = F!EntriesEnd(q, 3, 3, 0, 2, 6)
           /\ code = 126 => F!Extent(q) = IF F!NumberAt(q, 3, 4) = 0 THEN 7 ELSE 23
  BY DEF F!Extent
-----------------------------------------------------------------------------
(* Each response of Protocol.cpp. *)

\* A list of entries after its head.
ListReads(q, head, s, before, w, after) ==
    /\ Lies(q, 3, head)
    /\ Len(q) >= 3 + Len(head)
    /\ F!EntriesEnd(q, 3 + Len(head), Len(s), before, w, after)
           = 3 + Len(head \o F!FlattenSeq(s))

\* Such a list is read to its end, whatever follows it.
LEMMA ListRead ==
    ASSUME NEW q, NEW code, NEW head \in Seq(F!Char), NEW s \in Seq(Seq(F!Char)),
           NEW before \in Nat, NEW w \in Nat, NEW after \in Nat,
           \A j \in 1..Len(s) : Entry(s[j], before, w, after),
           Begins(q, code, head \o F!FlattenSeq(s))
    PROVE  ListReads(q, head, s, before, w, after)
  <1> DEFINE t == F!FlattenSeq(s)
             x == head \o t
             h == Len(head)
  <1>1. t \in Seq(F!Char) /\ Len(t) \in Nat /\ h \in Nat /\ Len(s) \in Nat
    BY FlattenTyped
  <1>2. q \in Seq(F!Char) /\ Lies(q, 3, x)
    BY DEF Begins
  <1>3. PICK f : FlattensTo(f, s, F!Char)
    BY FlattenIs
  <1>30. f[Len(s)] = t
    BY <1>3 DEF FlattensTo
  <1> HIDE DEF t, h
  <1>4. x \in Seq(F!Char) /\ Len(x) = h + Len(t) /\ Lies(x, 0, head) /\ Lies(x, h, t)
    BY <1>1, ConcatIs, ConcatLies DEF h
  <1> HIDE DEF x
  <1>5. Lies(q, 3 + 0, head) /\ Lies(q, 3 + h, t)
    BY <1>1, <1>2, <1>4, LiesIn
  <1>6. Lies(q, 3, head)
    <2>1. 3 + 0 = 3
      OBVIOUS
    <2> QED BY <1>5, <2>1
  <1>7. Len(q) >= 3 + h
    BY <1>1, <1>6 DEF Lies, h
  <1>8. F!EntriesEnd(q, 3 + h, Len(s), before, w, after) = (3 + h) + Len(f[Len(s)])
    <2>1. Lies(q, 3 + h, F!FlattenSeq(s))
      BY <1>5 DEF t
    <2>2. Len(s) <= Len(s)
      BY <1>1
    <2> DEFINE p == 3 + h
    <2>3. Lies(q, p, F!FlattenSeq(s))
      BY <2>1
    <2> HIDE DEF p
    <2>4. F!EntriesEnd(q, p, Len(s), before, w, after) = p + Len(f[Len(s)])
      <3>1. ListEndsAt(q, p, s, f, Len(s), before, w, after)
        BY <1>1, <1>2, <1>3, <2>2, <2>3, ListEnds, Zenon
      <3> QED BY <3>1 DEF ListEndsAt
    <2> QED BY <2>4 DEF p
  <1>9. F!EntriesEnd(q, 3 + h, Len(s), before, w, after) = 3 + Len(x)
    BY <1>1, <1>4, <1>8, <1>30
  <1> QED BY <1>6, <1>7, <1>9 DEF ListReads, x, t, h

-----------------------------------------------------------------------------
\* One character.
LEMMA OneChar ==
    ASSUME NEW c \in F!Char
    PROVE  <<c>> \in Seq(F!Char) /\ Len(<<c>>) = 1
  OBVIOUS

\* A number of one character.
LEMMA ReadOne ==
    ASSUME NEW q \in Seq(F!Char), NEW p, NEW c \in F!Char, NEW x, Lies(q, p, x),
           Len(x) \in Nat, Len(x) >= 1, x[1] = c
    PROVE  F!NumberAt(q, p, 1) = c
  <1>1. p \in Nat /\ p + 1 <= Len(q) /\ q[p + 1] = c
    BY DEF Lies
  <1>2. q \in Seq(Nat)
    BY CharsAreNumbers
  <1>3. Len(q) \in Nat /\ p <= Len(q) /\ 0 \in Nat /\ p + 0 + 1 <= Len(q) /\ p + 0 + 1 = p + 1
    BY <1>1
  <1>4. F!NumberAt(q, p, 0) = 0
    BY <1>1, <1>2, <1>3, NumberStart
  <1>5. F!NumberAt(q, p, 0 + 1) = 10 * F!NumberAt(q, p, 0) + q[p + 0 + 1]
    BY <1>1, <1>2, <1>3, NumberStep
  <1>6. 0 + 1 = 1 /\ c \in Nat
    BY DEF F!Char
  <1> QED BY <1>1, <1>3, <1>4, <1>5, <1>6

\* 102, 104, 114 and 120: a code and a digit.
LEMMA StatusSplits ==
    ASSUME NEW code \in {102, 104, 114, 120}, NEW status \in 0..1
    PROVE  Splits(F!Response(code, status))
  <1>1. <<status>> \in Seq(F!Char) /\ Len(<<status>>) = 1
    BY OneChar DEF F!Char
  <1>2. ASSUME NEW q, Begins(q, code, <<status>>) PROVE F!Extent(q) = 3 + Len(<<status>>)
    <2>1. Len(q) \in Nat /\ Len(q) >= 3 /\ F!NumberAt(q, 0, 3) = code
      BY <1>2 DEF Begins
    <2>2. F!Extent(q) = 4
      BY <2>1, ExtentIs
    <2> QED BY <1>1, <2>2
  <1>3. IsCode(code)
    BY DEF IsCode
  <1>4. Splits(F!Digits(code) \o <<status>>)
    BY <1>1, <1>2, <1>3, SplitsIf, ZenonT(30)
  <1> QED BY <1>4 DEF F!Response

\* The four digits of 1120 are those of 112 and a zero.
LEMMA CodeAndZero ==
    ASSUME NEW code \in Nat, 100 <= code, code <= 999, NEW n, n = 10 * code
    PROVE  F!Digits(n) = F!Digits(code) \o <<0>>
  <1>1. n \in Nat /\ n >= 10 /\ n \div 10 = code /\ n % 10 = 0
    OBVIOUS
  <1> DEFINE a == F!Digits(code)
             b == F!Digits(n)
  <1>2. Len(b) = Len(a) + 1 /\ (\A j \in 1..Len(a) : b[j] = a[j]) /\ b[Len(b)] = 0
    BY <1>1, LongerDigits
  <1>3. a \in Seq(F!Char) /\ b \in Seq(F!Char) /\ Len(a) \in Nat
    BY <1>1, DigitsAreChars
  <1> HIDE DEF a, b
  <1>4. 0 \in F!Char
    BY DEF F!Char
  <1>5. b = a \o <<0>>
    BY <1>2, <1>3, <1>4
  <1> QED BY <1>5 DEF a, b

\* 112 and 116: a success and a bare code.
LEMMA LeftSplits ==
    ASSUME NEW success \in BOOLEAN
    PROVE  Splits(F!Response112(success))
  <1>1. Splits(F!Digits(112) \o <<0>>)
    <2> DEFINE refused == <<0>>
    <2>1. <<0>> \in Seq(F!Char) /\ Len(<<0>>) = 1
      BY OneChar DEF F!Char
    <2>2. ASSUME NEW q, Begins(q, 112, refused) PROVE F!Extent(q) = 3 + Len(refused)
      <3>1. Len(q) \in Nat /\ Len(q) >= 3 /\ F!NumberAt(q, 0, 3) = 112
        BY <2>2 DEF Begins
      <3>2. F!Extent(q) = 4
        BY <3>1, ExtentIs
      <3> QED BY <2>1, <3>2
    <2>3. IsCode(112)
      BY DEF IsCode
    <2> QED BY <2>1, <2>2, <2>3, SplitsIf, ZenonT(30)
  <1>2. Splits(F!Digits(116) \o <<>>)
    <2>1. <<>> \in Seq(F!Char) /\ Len(<<>>) = 0
      OBVIOUS
    <2>2. ASSUME NEW q, Begins(q, 116, <<>>) PROVE F!Extent(q) = 3 + Len(<<>>)
      <3>1. Len(q) \in Nat /\ Len(q) >= 3 /\ F!NumberAt(q, 0, 3) = 116
        BY <2>2 DEF Begins
      <3>2. F!Extent(q) = 3
        BY <3>1, ExtentIs
      <3> QED BY <2>1, <3>2
    <2>3. IsCode(116)
      BY DEF IsCode
    <2> QED BY <2>1, <2>2, <2>3, SplitsIf, ZenonT(30)
  <1>3. F!Digits(1120) = F!Digits(112) \o <<0>>
    <2> DEFINE code == 112
               n == 1120
    <2>1. code \in Nat /\ 100 <= code /\ code <= 999 /\ n = 10 * code
      OBVIOUS
    <2> HIDE DEF code, n
    <2>2. F!Digits(n) = F!Digits(code) \o <<0>>
      BY <2>1, CodeAndZero
    <2> QED BY <2>2 DEF code, n
  <1>4. F!Digits(116) \o <<>> = F!Digits(116)
    <2>1. 116 \in Nat
      OBVIOUS
    <2> DEFINE d == F!Digits(116)
    <2>2. d \in Seq(F!Char)
      BY <2>1, DigitsAreChars
    <2> HIDE DEF d
    <2>3. d \o <<>> = d
      BY <2>2, ConcatEmpty
    <2> QED BY <2>3 DEF d
  <1>5. Splits(F!Digits(1120)) /\ Splits(F!Digits(116))
    <2> DEFINE left == F!Digits(1120)
               leftIs == F!Digits(112) \o <<0>>
               bare == F!Digits(116)
               bareIs == bare \o <<>>
    <2>1. Splits(leftIs) /\ left = leftIs /\ Splits(bareIs) /\ bareIs = bare
      BY <1>1, <1>2, <1>3, <1>4
    <2> HIDE DEF left, leftIs, bare, bareIs
    <2>2. Splits(left) /\ Splits(bare)
      BY <2>1, Zenon
    <2> QED BY <2>2 DEF left, bare
  <1>6. CASE success = TRUE
    BY <1>5, <1>6 DEF F!Response112
  <1>7. CASE success = FALSE
    BY <1>5, <1>7 DEF F!Response112, F!Response116
  <1> QED BY <1>6, <1>7

\* 110: two numbers only after the status 0.
LEMMA JoinedSplits ==
    ASSUME NEW status \in 0..2, NEW n \in 0..99, NEW m \in 0..99
    PROVE  Splits(F!Response110(status, n, m))
  <1> DEFINE a == F!Digits(110)
             b == <<status>>
             c == IF status = 0 THEN F!Padded(n, 2) \o F!Padded(m, 2) ELSE <<>>
             x == b \o c
  <1>1. a \in Seq(F!Char)
    <2>1. 110 \in Nat /\ 100 <= 110 /\ 110 <= 999
      OBVIOUS
    <2> QED BY <2>1, CodeIs
  <1>2. b \in Seq(F!Char) /\ Len(b) = 1 /\ b[1] = status /\ status \in F!Char
    BY OneChar DEF F!Char
  <1>3. c \in Seq(F!Char) /\ Len(c) = IF status = 0 THEN 4 ELSE 0
    <2> DEFINE u == F!Padded(n, 2)
               v == F!Padded(m, 2)
    <2>1. u \in Seq(F!Char) /\ Len(u) = 2
      <3>1. n \in Nat /\ Len(F!Digits(n)) <= 2
        <4>1. n \in Nat /\ n <= 99
          OBVIOUS
        <4> QED BY <4>1, DigitsWithin
      <3> QED BY <3>1, PaddedFits
    <2>2. v \in Seq(F!Char) /\ Len(v) = 2
      <3>1. m \in Nat /\ Len(F!Digits(m)) <= 2
        <4>1. m \in Nat /\ m <= 99
          OBVIOUS
        <4> QED BY <4>1, DigitsWithin
      <3> QED BY <3>1, PaddedFits
    <2> HIDE DEF u, v
    <2>30. u \o v \in Seq(F!Char) /\ Len(u \o v) = Len(u) + Len(v)
      BY <2>1, <2>2, ConcatIs
    <2>3. u \o v \in Seq(F!Char) /\ Len(u \o v) = 4
      BY <2>1, <2>2, <2>30
    <2>4. CASE status = 0
      BY <2>3, <2>4 DEF u, v
    <2>5. CASE status # 0
      BY <2>5
    <2> QED BY <2>4, <2>5
  <1> HIDE DEF a, b, c
  <1>4. /\ x \in Seq(F!Char)
        /\ Len(x) = IF status = 0 THEN 5 ELSE 1
        /\ x[1] = status
    <2>1. b \in Seq(F!Char) /\ c \in Seq(F!Char)
      BY <1>2, <1>3
    <2>2. /\ b \o c \in Seq(F!Char) /\ Len(b \o c) = Len(b) + Len(c)
          /\ \A j \in 1..Len(b) : (b \o c)[j] = b[j]
      BY <2>1, ConcatIs
    <2> QED BY <1>2, <1>3, <2>2
  <1> HIDE DEF x
  <1>5. ASSUME NEW q, Begins(q, 110, x) PROVE F!Extent(q) = 3 + Len(x)
    <2>1. Len(q) \in Nat /\ Len(q) >= 3 /\ F!NumberAt(q, 0, 3) = 110 /\ q \in Seq(F!Char) /\ Lies(q, 3, x)
      BY <1>5 DEF Begins
    <2>2. F!NumberAt(q, 3, 1) = status
      BY <1>2, <1>4, <2>1, ReadOne
    <2>3. F!Extent(q) = IF F!NumberAt(q, 3, 1) = 0 THEN 8 ELSE 4
      BY <2>1, ExtentIs
    <2> QED BY <1>4, <2>2, <2>3
  <1>6. Splits(F!Digits(110) \o x)
    <2>1. IsCode(110)
      BY DEF IsCode
    <2> QED BY <1>4, <1>5, <2>1, SplitsIf, ZenonT(30)
  <1>7. (a \o b) \o c = a \o x
    <2>1. b \in Seq(F!Char) /\ c \in Seq(F!Char)
      BY <1>2, <1>3
    <2>2. (a \o b) \o c = a \o (b \o c)
      BY <1>1, <2>1, ConcatAssoc
    <2> QED BY <2>2 DEF x
  <1>8. F!Response110(status, n, m) = (a \o b) \o c
    BY DEF F!Response110, F!Response, a, b, c
  <1> QED BY <1>6, <1>7, <1>8 DEF a

-----------------------------------------------------------------------------
\* A list whose entries are given by a function.
LEMMA MadeOf ==
    ASSUME NEW n \in Nat, NEW e, \A j \in 1..n : e[j] \in Seq(F!Char)
    PROVE  /\ [j \in 1..n |-> e[j]] \in Seq(Seq(F!Char))
           /\ Len([j \in 1..n |-> e[j]]) = n
  OBVIOUS

\* The fields of the room entries.
RoomEntry(id, name) == F!Padded(id, 4) \o F!Sized(name, 2)

\* The entry of a room is as long as its fields say.
LEMMA RoomEntryIs ==
    ASSUME NEW id \in Int, NEW n \in 1..99, Len(F!Text(id)) <= 4
    PROVE  /\ Entry(RoomEntry(id, n), 4, 2, 0)
           /\ Lies(RoomEntry(id, n), 0, F!Padded(id, 4))
  <1> DEFINE a == F!Padded(id, 4)
             b == F!Sized(n, 2)
  <1>1. a \in Seq(F!Char) /\ Len(a) = 4
    BY PaddedIs
  <1>2. n \in Nat /\ Len(F!Digits(n)) <= 2
    <2>1. n \in Nat /\ n <= 99
      OBVIOUS
    <2> QED BY <2>1, DigitsWithin
  <1>3. b \in Seq(F!Char) /\ Len(b) = 2 + n /\ Lies(b, 0, F!Padded(n, 2))
    BY <1>2, SizedIs
  <1> HIDE DEF a, b
  <1> DEFINE x == a \o b
  <1>4. x \in Seq(F!Char) /\ Len(x) = 6 + n /\ Lies(x, 0, a) /\ Lies(x, 4, b)
    <2>1. a \o b \in Seq(F!Char) /\ Len(a \o b) = Len(a) + Len(b)
      BY <1>1, <1>3, ConcatIs
    <2>2. Lies(a \o b, 0, a) /\ Lies(a \o b, Len(a), b)
      BY <1>1, <1>3, ConcatLies
    <2> QED BY <1>1, <1>2, <1>3, <2>1, <2>2
  <1> HIDE DEF x
  <1>5. F!Padded(n, 2) \in Seq(F!Char)
    BY <1>2, PaddedFits
  <1>6. Lies(x, 4 + 0, F!Padded(n, 2))
    BY <1>3, <1>4, <1>5, LiesIn
  <1>7. Entry(x, 4, 2, 0)
    <2>1. Lies(x, 4, F!Padded(n, 2)) /\ Len(x) = 4 + 2 + n + 0
      BY <1>2, <1>4, <1>6
    <2>2. 4 \in Nat /\ 2 \in Nat /\ 0 \in Nat /\ 2 >= 1
      OBVIOUS
    <2> QED BY <1>2, <1>4, <2>1, <2>2, EntryIs, Zenon
  <1> QED BY <1>4, <1>7 DEF RoomEntry, x, a, b

\* Rooms whose list can be told apart: their count and numbers have four
\* characters at most.
Fits(rooms) == /\ rooms \in Seq([id : Int, name : 1..99])
               /\ Len(rooms) <= 9999
               /\ \A j \in DOMAIN rooms : Len(F!Text(rooms[j].id)) <= 4

\* The entries of the list, each of which can be told from the next.
RoomEntries(rooms) == [j \in DOMAIN rooms |-> RoomEntry(rooms[j].id, rooms[j].name)]

LEMMA RoomEntriesAre ==
    ASSUME NEW rooms, Fits(rooms)
    PROVE  /\ Len(rooms) \in Nat /\ DOMAIN rooms = 1..Len(rooms)
           /\ RoomEntries(rooms) \in Seq(Seq(F!Char))
           /\ Len(RoomEntries(rooms)) = Len(rooms)
           /\ \A j \in 1..Len(rooms) : /\ RoomEntries(rooms)[j] = RoomEntry(rooms[j].id, rooms[j].name)
                                       /\ Entry(RoomEntries(rooms)[j], 4, 2, 0)
  <1> DEFINE n == Len(rooms)
             s == RoomEntries(rooms)
  <1>1. n \in Nat /\ DOMAIN rooms = 1..n
    BY DEF Fits
  <1>2. s = [j \in 1..n |-> RoomEntry(rooms[j].id, rooms[j].name)]
    BY <1>1, Zenon DEF RoomEntries
  <1>3. ASSUME NEW j \in 1..n PROVE s[j] = RoomEntry(rooms[j].id, rooms[j].name) /\ Entry(RoomEntry(rooms[j].id, rooms[j].name), 4, 2, 0)
    <2>1. rooms[j].id \in Int /\ rooms[j].name \in 1..99 /\ Len(F!Text(rooms[j].id)) <= 4
      <3>1. rooms[j] \in [id : Int, name : 1..99]
        <4> DEFINE E == [id : Int, name : 1..99]
        <4>1. rooms \in Seq(E)
          BY DEF Fits
        <4> HIDE DEF E
        <4>2. \A k \in 1..Len(rooms) : rooms[k] \in E
          BY <4>1
        <4> QED BY <4>2 DEF E
      <3>2. \A k \in 1..n : Len(F!Text(rooms[k].id)) <= 4
        BY <1>1 DEF Fits
      <3> QED BY <3>1, <3>2
    <2>2. Entry(RoomEntry(rooms[j].id, rooms[j].name), 4, 2, 0)
      BY <2>1, RoomEntryIs
    <2>3. s[j] = RoomEntry(rooms[j].id, rooms[j].name)
      BY <1>2
    <2> QED BY <2>2, <2>3
  <1> HIDE DEF n, s
  <1>4. \A j \in 1..n : s[j] \in Seq(F!Char)
    BY <1>3 DEF Entry
  <1>5. s = [j \in 1..n |-> s[j]]
    BY <1>2
  <1>6. s \in Seq(Seq(F!Char)) /\ Len(s) = n
    BY <1>1, <1>4, <1>5, MadeOf
  <1>7. \A j \in 1..n : s[j] = RoomEntry(rooms[j].id, rooms[j].name) /\ Entry(s[j], 4, 2, 0)
    BY <1>3
  <1> QED BY <1>1, <1>6, <1>7 DEF n, s

\* The list of rooms from its entries, and that a client finds its end.
LEMMA RoomsAre ==
    ASSUME NEW rooms
    PROVE  F!Response106(rooms) =
             F!Digits(106) \o F!Padded(Len(rooms), 4) \o F!FlattenSeq(RoomEntries(rooms))
  BY DEF F!Response106, RoomEntries, RoomEntry

LEMMA RoomsSplit ==
    ASSUME NEW rooms, Fits(rooms)
    PROVE  Splits(F!Response106(rooms))
  <1> DEFINE n == Len(rooms)
             s == RoomEntries(rooms)
             a == F!Digits(106)
             b == F!Padded(n, 4)
             t == F!FlattenSeq(s)
             x == b \o t
  <1>1. n \in Nat /\ n <= 9999 /\ s \in Seq(Seq(F!Char)) /\ Len(s) = n
    BY RoomEntriesAre DEF Fits
  <1>2. \A j \in 1..Len(s) : Entry(s[j], 4, 2, 0)
    BY RoomEntriesAre
  <1>3. Len(F!Digits(n)) <= 4
    BY <1>1, DigitsWithin
  <1>4. b \in Seq(F!Char) /\ Len(b) = 4
    <2>1. 4 \in Nat
      OBVIOUS
    <2>2. n \in Nat
      BY <1>1
    <2> HIDE DEF n, s
    <2> QED BY <1>3, <2>1, <2>2, PaddedFits
  <1>5. t \in Seq(F!Char)
    BY <1>1, FlattenTyped
  <1>6. 106 \in Nat /\ 100 <= 106 /\ 106 <= 999
    OBVIOUS
  <1>7. a \in Seq(F!Char)
    BY <1>6, CodeIs
  <1>8. F!Response106(rooms) = (a \o b) \o t
    BY RoomsAre, Zenon
  <1> HIDE DEF a, b, t, s, n
  <1>9. x \in Seq(F!Char) /\ (a \o b) \o t = a \o x
    BY <1>4, <1>5, <1>7, ConcatIs, ConcatAssoc
  <1>10. ASSUME NEW q, Begins(q, 106, x) PROVE F!Extent(q) = 3 + Len(x)
    <2>1. Len(q) \in Nat /\ Len(q) >= 3 /\ F!NumberAt(q, 0, 3) = 106 /\ q \in Seq(F!Char)
      BY <1>10 DEF Begins
    <2>2. ListReads(q, b, s, 4, 2, 0)
      <3>1. Begins(q, 106, b \o F!FlattenSeq(s))
        BY <1>10 DEF t
      <3>2. 4 \in Nat /\ 2 \in Nat /\ 0 \in Nat
        OBVIOUS
      <3>3. s \in Seq(Seq(F!Char))
        BY <1>1
      <3>4. b \in Seq(F!Char)
        BY <1>4
      <3> QED BY <1>2, <3>1, <3>2, <3>3, <3>4, ListRead, Zenon
    <2>3. Lies(q, 3, b) /\ Len(q) >= 7 /\ F!EntriesEnd(q, 7, n, 4, 2, 0) = 3 + Len(x)
      BY <1>1, <1>4, <2>2 DEF ListReads, t
    <2>4. F!NumberAt(q, 3, 4) = n
      <3>1. q \in Seq(Nat)
        BY <2>1, CharsAreNumbers
      <3> QED BY <1>1, <1>3, <2>3, <3>1, NumberLies DEF b
    <2>5. F!Extent(q) = F!EntriesEnd(q, 7, F!NumberAt(q, 3, 4), 4, 2, 0)
      BY <2>1, <2>3, ExtentIs
    <2> QED BY <2>3, <2>4, <2>5
  <1> HIDE DEF x
  <1>11. IsCode(106)
    BY DEF IsCode
  <1>12. Splits(F!Digits(106) \o x)
    BY <1>9, <1>10, <1>11, SplitsIf, ZenonT(30)
  <1> QED BY <1>8, <1>9, <1>12 DEF a

\* A code, a count at its width and as many entries.
LEMMA ListSplits ==
    ASSUME NEW code, IsCode(code),
           NEW head \in Seq(F!Char), NEW s \in Seq(Seq(F!Char)),
           NEW before \in Nat, NEW w \in Nat, NEW after \in Nat,
           \A j \in 1..Len(s) : Entry(s[j], before, w, after),
           \A q : Begins(q, code, head \o F!FlattenSeq(s)) /\ Lies(q, 3, head)
                      /\ Len(q) >= 3 + Len(head)
                  => F!Extent(q) = F!EntriesEnd(q, 3 + Len(head), Len(s), before, w, after)
    PROVE  Splits(F!Digits(code) \o head \o F!FlattenSeq(s))
  <1> DEFINE a == F!Digits(code)
             t == F!FlattenSeq(s)
             x == head \o t
  <1>1. a \in Seq(F!Char) /\ t \in Seq(F!Char)
    BY CodeIs, FlattenTyped DEF IsCode
  <1>2. ASSUME NEW q, Begins(q, code, x) PROVE F!Extent(q) = 3 + Len(x)
    <2>1. ListReads(q, head, s, before, w, after)
      BY <1>2, ListRead, Zenon
    <2>2. Lies(q, 3, head) /\ Len(q) >= 3 + Len(head)
      BY <2>1 DEF ListReads
    <2>3. F!EntriesEnd(q, 3 + Len(head), Len(s), before, w, after) = 3 + Len(x)
      BY <2>1 DEF ListReads
    <2>4. F!Extent(q) = F!EntriesEnd(q, 3 + Len(head), Len(s), before, w, after)
      BY <1>2, <2>2
    <2> HIDE DEF x
    <2> QED BY <2>3, <2>4
  <1> HIDE DEF a, t
  <1>3. x \in Seq(F!Char) /\ (a \o head) \o t = a \o x
    <2>1. head \o t \in Seq(F!Char)
      BY <1>1, ConcatIs
    <2>2. (a \o head) \o t = a \o (head \o t)
      BY <1>1, ConcatAssoc
    <2> QED BY <2>1, <2>2
  <1> HIDE DEF x
  <1>4. Splits(F!Digits(code) \o x)
    BY <1>2, <1>3, SplitsIf, Zenon
  <1>5. Splits((a \o head) \o t)
    BY <1>3, <1>4, Zenon DEF a
  <1> QED BY <1>5 DEF a, t

\* A text after its length, alone and before more.
LEMMA SizedEntry ==
    ASSUME NEW n \in Nat, NEW w \in Nat, w >= 1, Len(F!Digits(n)) <= w
    PROVE  Entry(F!Sized(n, w), 0, w, 0)
  <1>1. /\ F!Sized(n, w) \in Seq(F!Char)
        /\ Len(F!Sized(n, w)) = w + n
        /\ Lies(F!Sized(n, w), 0, F!Padded(n, w))
    BY SizedIs
  <1> DEFINE x == F!Sized(n, w)
  <1>2. x \in Seq(F!Char) /\ Len(x) = 0 + w + n + 0 /\ Lies(x, 0, F!Padded(n, w))
    BY <1>1
  <1>3. 0 \in Nat
    OBVIOUS
  <1> HIDE DEF x
  <1>4. Entry(x, 0, w, 0)
    BY <1>2, <1>3, EntryIs, Zenon
  <1> QED BY <1>4 DEF x

LEMMA SizedEntryBefore ==
    ASSUME NEW n \in Nat, NEW w \in Nat, w >= 1, Len(F!Digits(n)) <= w,
           NEW c \in Seq(F!Char), NEW after \in Nat, Len(c) = after
    PROVE  Entry(F!Sized(n, w) \o c, 0, w, after)
  <1> DEFINE b == F!Sized(n, w)
             p == F!Padded(n, w)
             x == b \o c
  <1>1. b \in Seq(F!Char) /\ Len(b) = w + n /\ Lies(b, 0, p)
    BY SizedIs
  <1>2. p \in Seq(F!Char)
    BY PaddedFits
  <1> HIDE DEF b, p
  <1>3. b \o c \in Seq(F!Char) /\ Len(b \o c) = Len(b) + Len(c) /\ Lies(b \o c, 0, b)
    BY <1>1, ConcatIs, ConcatLies
  <1>4. x \in Seq(F!Char) /\ Len(x) = 0 + w + n + after /\ Lies(x, 0, b)
    BY <1>1, <1>3
  <1> HIDE DEF x
  <1>5. Lies(x, 0 + 0, p)
    BY <1>1, <1>2, <1>4, LiesIn
  <1>6. Lies(x, 0, p) /\ 0 \in Nat
    BY <1>5
  <1>7. Lies(x, 0, F!Padded(n, w))
    BY <1>6 DEF p
  <1>8. Entry(x, 0, w, after)
    BY <1>4, <1>6, <1>7, EntryIs, Zenon
  <1> QED BY <1>8 DEF x, b

-----------------------------------------------------------------------------
\* The lengths the assumption allows fit into two digits.
LEMMA LengthsAre ==
    /\ \A m \in TextLengths : m \in Nat /\ m >= 1 /\ Len(F!Digits(m)) <= 2
    /\ \A m \in Counts : m \in Nat /\ Len(F!Digits(m)) <= 2
    /\ \A m \in AnswerLengths : m \in Nat
    /\ \A m \in RoomIds : m \in Int
  <1>1. ASSUME NEW m \in 0..99 PROVE m \in Nat /\ Len(F!Digits(m)) <= 2
    <2>1. m \in Nat /\ m <= 99
      OBVIOUS
    <2> QED BY <2>1, DigitsWithin
  <1>2. \A m \in TextLengths : m \in 1..99 /\ m >= 1 /\ m \in 0..99
    BY WireAssumption DEF F!FramingAssumption
  <1>3. \A m \in Counts : m \in 0..99
    BY WireAssumption DEF F!FramingAssumption
  <1>4. AnswerLengths \subseteq Nat /\ RoomIds \subseteq Int
    BY WireAssumption DEF F!FramingAssumption
  <1> QED BY <1>1, <1>2, <1>3, <1>4

\* 108: the users of a room, if there is one.
LEMMA UsersSplit ==
    ASSUME NEW n \in Nat, n >= 1, n <= 999, NEW names \in [1..n -> TextLengths]
    PROVE  Splits(F!Response108(names))
  <1> DEFINE s == [j \in DOMAIN names |-> F!Sized(names[j], 2)]
             b == F!Padded(n, 3)
  <1>1. Len(names) = n /\ DOMAIN names = 1..n
    OBVIOUS
  <1>2. ASSUME NEW j \in 1..n PROVE Entry(F!Sized(names[j], 2), 0, 2, 0)
    <2> DEFINE m == names[j]
    <2>1. m \in TextLengths
      OBVIOUS
    <2> HIDE DEF m
    <2>2. m \in Nat /\ Len(F!Digits(m)) <= 2 /\ 2 \in Nat /\ 2 >= 1
      BY <2>1, LengthsAre
    <2>3. Entry(F!Sized(m, 2), 0, 2, 0)
      BY <2>2, SizedEntry, Zenon
    <2> QED BY <2>3 DEF m
  <1>3. /\ s \in Seq(Seq(F!Char)) /\ Len(s) = n
        /\ \A j \in 1..Len(s) : Entry(s[j], 0, 2, 0)
    <2>1. s = [j \in 1..n |-> F!Sized(names[j], 2)]
      BY <1>1
    <2> HIDE DEF s
    <2>2. \A j \in 1..n : s[j] \in Seq(F!Char) /\ Entry(s[j], 0, 2, 0)
      BY <1>2, <2>1 DEF Entry
    <2>3. s = [j \in 1..n |-> s[j]]
      BY <2>1
    <2>4. s \in Seq(Seq(F!Char)) /\ Len(s) = n
      BY <1>1, <2>2, <2>3, MadeOf
    <2> QED BY <2>2, <2>4
  <1>30. names # <<>>
    BY <1>1
  <1>31. F!Response108(names) = F!Digits(108) \o b \o F!FlattenSeq(s)
    BY <1>1, <1>30, ZenonT(60) DEF F!Response108
  <1> HIDE DEF s
  <1>4. Len(F!Digits(n)) <= 3
    BY DigitsWithin
  <1>5. b \in Seq(F!Char) /\ Len(b) = 3
    <2>1. 3 \in Nat
      OBVIOUS
    <2> QED BY <1>4, <2>1, PaddedFits
  <1> HIDE DEF b
  <1>6. ASSUME NEW q, Begins(q, 108, b \o F!FlattenSeq(s)), Lies(q, 3, b), Len(q) >= 3 + Len(b)
        PROVE  F!Extent(q) = F!EntriesEnd(q, 3 + Len(b), Len(s), 0, 2, 0)
    <2>1. Len(q) \in Nat /\ Len(q) >= 3 /\ F!NumberAt(q, 0, 3) = 108 /\ q \in Seq(F!Char)
      BY <1>6 DEF Begins
    <2>2. F!NumberAt(q, 3, 3) = n
      <3>1. q \in Seq(Nat)
        BY <2>1, CharsAreNumbers
      <3> QED BY <1>1, <1>4, <1>6, <3>1, NumberLies DEF b
    <2>3. Len(q) >= 6 /\ 3 + Len(b) = 6
      BY <1>5, <1>6
    <2>4. F!Extent(q) = F!EntriesEnd(q, 6, F!NumberAt(q, 3, 3), 0, 2, 0)
      BY <2>1, <2>3, ExtentIs
    <2> QED BY <1>3, <2>2, <2>3, <2>4
  <1>7. IsCode(108) /\ 0 \in Nat /\ 2 \in Nat
    BY DEF IsCode
  <1>8. Splits(F!Digits(108) \o b \o F!FlattenSeq(s))
    BY <1>3, <1>5, <1>6, <1>7, ListSplits, ZenonT(30)
  <1> QED BY <1>8, <1>31

\* 121: the results of a game.
LEMMA FinishedSplits ==
    ASSUME NEW n \in Nat, n <= 9, NEW players \in [1..n -> F!Player]
    PROVE  Splits(F!Response121(players))
  <1> DEFINE e(p) == F!Sized(p.name, 2) \o F!Padded(Len(F!Text(p.points)), 2)
             s == [j \in DOMAIN players |-> e(players[j])]
             b == F!Padded(n, 1)
  <1>1. Len(players) = n /\ DOMAIN players = 1..n
    OBVIOUS
  <1>2. ASSUME NEW p \in F!Player PROVE Entry(e(p), 0, 2, 2)
    <2> DEFINE m == p.name
               k == p.points
               l == Len(F!Text(k))
    <2>0. m \in TextLengths /\ k \in Counts
      BY DEF F!Player
    <2> HIDE DEF m, k
    <2>1. m \in Nat /\ k \in Nat /\ Len(F!Digits(k)) <= 2
      BY <2>0, LengthsAre
    <2>2. Len(F!Digits(m)) <= 2
      BY <2>0, LengthsAre
    <2>3. l \in Nat /\ l <= 99
      <3>1. Len(F!Digits(k)) <= 2
        BY <2>1
      <3>2. k \in Int /\ k >= 0
        BY <2>1
      <3>3. l \in Nat /\ F!Text(k) = F!Digits(k)
        BY <3>2, TextIs
      <3> QED BY <3>1, <3>3
    <2> HIDE DEF l
    <2>4. Len(F!Digits(l)) <= 2
      BY <2>3, DigitsWithin
    <2>5. F!Padded(l, 2) \in Seq(F!Char) /\ Len(F!Padded(l, 2)) = 2
      BY <2>3, <2>4, PaddedFits
    <2> DEFINE c == F!Padded(l, 2)
    <2>6. c \in Seq(F!Char) /\ Len(c) = 2
      BY <2>5
    <2> HIDE DEF c
    <2>7. 2 \in Nat /\ 2 >= 1
      OBVIOUS
    <2>8. Entry(F!Sized(m, 2) \o c, 0, 2, 2)
      BY <2>1, <2>2, <2>6, <2>7, SizedEntryBefore, Zenon
    <2> QED BY <2>8 DEF c, l, m, k
  <1>3. /\ s \in Seq(Seq(F!Char)) /\ Len(s) = n
        /\ \A j \in 1..Len(s) : Entry(s[j], 0, 2, 2)
    <2>1. s = [j \in 1..n |-> e(players[j])]
      BY <1>1
    <2>20. \A j \in 1..n : players[j] \in F!Player
      OBVIOUS
    <2> HIDE DEF s
    <2>21. \A p \in F!Player : Entry(e(p), 0, 2, 2)
      BY <1>2
    <2> HIDE DEF e
    <2>22. \A j \in 1..n : Entry(s[j], 0, 2, 2)
      BY <2>20, <2>21, <2>1
    <2>2. \A j \in 1..n : s[j] \in Seq(F!Char) /\ Entry(s[j], 0, 2, 2)
      BY <2>22 DEF Entry
    <2>3. s = [j \in 1..n |-> s[j]]
      BY <2>1
    <2>4. s \in Seq(Seq(F!Char)) /\ Len(s) = n
      BY <1>1, <2>2, <2>3, MadeOf
    <2> QED BY <2>2, <2>4
  <1>31. F!Response121(players) = F!Digits(121) \o b \o F!FlattenSeq(s)
    BY <1>1, ZenonT(60) DEF F!Response121
  <1> HIDE DEF s, e
  <1>4. Len(F!Digits(n)) <= 1
    BY <1>1, DigitsWithin
  <1>5. b \in Seq(F!Char) /\ Len(b) = 1
    BY <1>1, <1>4, PaddedFits
  <1> HIDE DEF b
  <1>6. ASSUME NEW q, Begins(q, 121, b \o F!FlattenSeq(s)), Lies(q, 3, b), Len(q) >= 3 + Len(b)
        PROVE  F!Extent(q) = F!EntriesEnd(q, 3 + Len(b), Len(s), 0, 2, 2)
    <2>1. Len(q) \in Nat /\ Len(q) >= 3 /\ F!NumberAt(q, 0, 3) = 121 /\ q \in Seq(F!Char)
      BY <1>6 DEF Begins
    <2>2. F!NumberAt(q, 3, 1) = n
      <3>1. q \in Seq(Nat)
        BY <2>1, CharsAreNumbers
      <3> QED BY <1>1, <1>4, <1>6, <3>1, NumberLies DEF b
    <2>3. Len(q) >= 4 /\ 3 + Len(b) = 4
      BY <1>5, <1>6
    <2>4. F!Extent(q) = F!EntriesEnd(q, 4, F!NumberAt(q, 3, 1), 0, 2, 2)
      BY <2>1, <2>3, ExtentIs
    <2> QED BY <1>3, <2>2, <2>3, <2>4
  <1>7. IsCode(121) /\ 0 \in Nat /\ 2 \in Nat
    BY DEF IsCode
  <1>8. Splits(F!Digits(121) \o b \o F!FlattenSeq(s))
    BY <1>3, <1>5, <1>6, <1>7, ListSplits, ZenonT(30)
  <1> QED BY <1>8, <1>31

\* 118: a question and its four answers.
LEMMA QuestionSplits ==
    ASSUME NEW question \in TextLengths, NEW other \in AnswerLengths, other <= 999
    PROVE  Splits(F!Response118(question, <<4, other, other, other>>))
  <1> DEFINE answers == <<4, other, other, other>>
             e(n) == F!Sized(n, 3)
             c == e(question)
             u == [j \in 1..4 |-> e(answers[j])]
             s == <<c>> \o u
             a == F!Digits(118)
             t == F!FlattenSeq(u)
  <1>1. ASSUME NEW n \in Nat, Len(F!Digits(n)) <= 3 PROVE Entry(e(n), 0, 3, 0)
    <2>1. 3 \in Nat /\ 3 >= 1
      OBVIOUS
    <2> QED BY <1>1, <2>1, SizedEntry, Zenon
  <1>2. Entry(c, 0, 3, 0)
    <2>1. question \in Nat /\ Len(F!Digits(question)) <= 2
      BY LengthsAre
    <2>2. Len(F!Digits(question)) \in Nat
      BY <2>1, DigitsAreChars
    <2>3. Len(F!Digits(question)) <= 3
      BY <2>1, <2>2
    <2> HIDE DEF e
    <2> QED BY <1>1, <2>1, <2>3
  <1>3. \A j \in 1..4 : answers[j] \in Nat /\ Len(F!Digits(answers[j])) <= 3
    <2>1. other \in Nat
      BY LengthsAre
    <2>2. Len(F!Digits(other)) <= 3
      BY <2>1, DigitsWithin
    <2>3. 4 \in Nat /\ 4 <= 9
      OBVIOUS
    <2>4. Len(F!Digits(4)) <= 1 /\ Len(F!Digits(4)) \in Nat
      BY <2>3, DigitsWithin, DigitsAreChars
    <2>5. Len(F!Digits(4)) <= 3
      BY <2>4
    <2>6. answers[1] = 4 /\ answers[2] = other /\ answers[3] = other /\ answers[4] = other
      OBVIOUS
    <2> HIDE DEF answers
    <2> QED BY <2>1, <2>2, <2>3, <2>5, <2>6
  <1> HIDE DEF answers, c
  <1>4. \A j \in 1..4 : Entry(e(answers[j]), 0, 3, 0)
    <2> HIDE DEF e
    <2> QED BY <1>1, <1>3
  <1> HIDE DEF e
  <1>5. u \in Seq(Seq(F!Char)) /\ Len(u) = 4 /\ \A j \in 1..4 : Entry(u[j], 0, 3, 0)
    <2>1. \A j \in 1..4 : u[j] \in Seq(F!Char) /\ Entry(u[j], 0, 3, 0)
      BY <1>4 DEF Entry
    <2>2. 4 \in Nat /\ u = [j \in 1..4 |-> u[j]]
      OBVIOUS
    <2> HIDE DEF u
    <2>3. u \in Seq(Seq(F!Char)) /\ Len(u) = 4
      BY <2>1, <2>2, MadeOf
    <2> QED BY <2>1, <2>3
  <1>6. c \in Seq(F!Char) /\ <<c>> \in Seq(Seq(F!Char)) /\ Len(<<c>>) = 1 /\ <<c>>[1] = c
    BY <1>2 DEF Entry
  <1>7. F!Response118(question, answers) = a \o c \o t
    <2>1. answers[1] = 4
      BY DEF answers
    <2>2. question # 0
      BY LengthsAre
    <2> QED BY <2>1, <2>2, ZenonT(60) DEF F!Response118, c, e
  <1> HIDE DEF u
  <1>8. s \in Seq(Seq(F!Char)) /\ Len(s) = 5 /\ \A j \in 1..Len(s) : Entry(s[j], 0, 3, 0)
    <2> DEFINE D == Seq(F!Char)
               v == <<c>>
    <2>1. v \in Seq(D) /\ u \in Seq(D) /\ Len(v) = 1 /\ v[1] = c /\ Len(u) = 4
      <3>1. v \in Seq(D) /\ u \in Seq(D)
        BY <1>5, <1>6, Zenon
      <3>2. Len(v) = 1 /\ Len(u) = 4
        BY <1>5, <1>6, Zenon
      <3>3. v[1] = c
        BY <1>6, Zenon
      <3> QED BY <3>1, <3>2, <3>3
    <2> HIDE DEF D, v
    <2>2. /\ v \o u \in Seq(D)
          /\ Len(v \o u) = Len(v) + Len(u)
          /\ \A j \in 1..Len(v) : (v \o u)[j] = v[j]
          /\ \A j \in 1..Len(u) : (v \o u)[Len(v) + j] = u[j]
      <3>1. v \in Seq(D)
        BY <2>1
      <3>2. u \in Seq(D)
        BY <2>1
      <3> QED BY <3>1, <3>2, ConcatIs
    <2> DEFINE z == v \o u
    <2>3. z \in Seq(D) /\ Len(z) = 5 /\ z[1] = c /\ \A j \in 1..4 : z[1 + j] = u[j]
      BY <2>1, <2>2
    <2> HIDE DEF z
    <2>4. ASSUME NEW j \in 1..5 PROVE Entry(z[j], 0, 3, 0)
      <3>1. CASE j = 1
        BY <1>2, <2>3, <3>1
      <3>2. CASE j # 1
        <4>1. j - 1 \in 1..4 /\ 1 + (j - 1) = j
          BY <3>2
        <4>2. z[1 + (j - 1)] = u[j - 1]
          BY <2>3, <4>1
        <4> QED BY <1>5, <4>1, <4>2
      <3> QED BY <3>1, <3>2
    <2>5. s = z
      BY DEF z, v
    <2> HIDE DEF s
    <2> QED BY <2>3, <2>4, <2>5 DEF D
  <1>9. F!FlattenSeq(s) = c \o t /\ t \in Seq(F!Char)
    <2>1. F!FlattenSeq(<<c>> \o u) = F!FlattenSeq(<<c>>) \o F!FlattenSeq(u)
      BY <1>5, <1>6, FlattenConcat
    <2>2. F!FlattenSeq(<<c>>) = c
      BY <1>6, FlattenOne
    <2> QED BY <1>5, <2>1, <2>2, FlattenTyped
  <1> HIDE DEF s, t
  <1>10. 118 \in Nat /\ 100 <= 118 /\ 118 <= 999 /\ 0 \in Nat /\ 3 \in Nat
    OBVIOUS
  <1>11. a \in Seq(F!Char)
    BY <1>10, CodeIs
  <1>12. <<>> \in Seq(F!Char) /\ Len(<<>>) = 0 /\ 3 + Len(<<>>) = 3
    OBVIOUS
  <1>13. ASSUME NEW q, Begins(q, 118, <<>> \o F!FlattenSeq(s)), Lies(q, 3, <<>>), Len(q) >= 3 + Len(<<>>)
         PROVE  F!Extent(q) = F!EntriesEnd(q, 3 + Len(<<>>), Len(s), 0, 3, 0)
    <2>1. Len(q) \in Nat /\ Len(q) >= 3 /\ F!NumberAt(q, 0, 3) = 118
      BY <1>13 DEF Begins
    <2>2. F!Extent(q) = F!EntriesEnd(q, 3, 5, 0, 3, 0)
      BY <2>1, ExtentIs
    <2> QED BY <1>8, <1>12, <2>2
  <1>14. Splits(F!Digits(118) \o <<>> \o F!FlattenSeq(s))
    <2>1. s \in Seq(Seq(F!Char))
      BY <1>8
    <2>2. \A j \in 1..Len(s) : Entry(s[j], 0, 3, 0)
      BY <1>8
    <2>3. \A q : Begins(q, 118, <<>> \o F!FlattenSeq(s)) /\ Lies(q, 3, <<>>)
                     /\ Len(q) >= 3 + Len(<<>>)
                 => F!Extent(q) = F!EntriesEnd(q, 3 + Len(<<>>), Len(s), 0, 3, 0)
      BY <1>13
    <2>4. <<>> \in Seq(F!Char)
      BY <1>12
    <2>5. IsCode(118) /\ 0 \in Nat /\ 3 \in Nat
      BY DEF IsCode
    <2> QED BY <2>1, <2>2, <2>3, <2>4, <2>5, ListSplits, ZenonT(30)
  <1>15. a \o <<>> = a
    <2> HIDE DEF a
    <2> QED BY <1>11, ConcatEmpty
  <1>16. Splits(a \o (c \o t))
    BY <1>9, <1>14, <1>15
  <1>17. (a \o c) \o t = a \o (c \o t)
    <2> HIDE DEF a
    <2> QED BY <1>6, <1>9, <1>11, ConcatAssoc
  <1>18. Splits(F!Response118(question, answers))
    <2>1. F!Response118(question, answers) = (a \o c) \o t
      BY <1>7, Zenon
    <2> QED BY <2>1, <1>16, <1>17, Zenon
  <1> QED BY <1>18, Zenon DEF answers

-----------------------------------------------------------------------------
\* 124: three best scores.
LEMMA BestSplits ==
    ASSUME NEW p \in F!Player, NEW r \in F!Player
    PROVE  Splits(F!Response124(<<p, r, [name |-> 0, points |-> 0]>>))
  <1> DEFINE none == [name |-> 0, points |-> 0]
             top == <<p, r, none>>
             e(m) == F!Sized(m.name, 2) \o F!Padded(m.points, 6)
             s == [j \in DOMAIN top |-> e(top[j])]
             a == F!Digits(124)
  <1>1. ASSUME NEW n, NEW m, n \in Nat, m \in Nat, Len(F!Digits(n)) <= 2, Len(F!Digits(m)) <= 2
        PROVE  Entry(F!Sized(n, 2) \o F!Padded(m, 6), 0, 2, 6)
    <2> DEFINE c == F!Padded(m, 6)
    <2>1. c \in Seq(F!Char) /\ Len(c) = 6
      <3>1. Len(F!Digits(m)) \in Nat
        BY <1>1, DigitsAreChars
      <3>2. Len(F!Digits(m)) <= 6 /\ 6 \in Nat
        BY <1>1, <3>1
      <3> QED BY <1>1, <3>2, PaddedFits
    <2> HIDE DEF c
    <2>2. 2 \in Nat /\ 2 >= 1 /\ 6 \in Nat
      OBVIOUS
    <2>3. Entry(F!Sized(n, 2) \o c, 0, 2, 6)
      BY <1>1, <2>1, <2>2, SizedEntryBefore, Zenon
    <2> QED BY <2>3 DEF c
  <1>2. ASSUME NEW m \in F!Player PROVE Entry(e(m), 0, 2, 6)
    <2> DEFINE n == m.name
               k == m.points
    <2>1. n \in TextLengths /\ k \in Counts
      BY DEF F!Player
    <2> HIDE DEF n, k
    <2>2. n \in Nat /\ k \in Nat /\ Len(F!Digits(n)) <= 2 /\ Len(F!Digits(k)) <= 2
      BY <2>1, LengthsAre
    <2>3. Entry(F!Sized(n, 2) \o F!Padded(k, 6), 0, 2, 6)
      BY <1>1, <2>2
    <2> QED BY <2>3 DEF n, k
  <1>3. Entry(e(none), 0, 2, 6)
    <2>1. 0 \in Nat /\ 0 <= 9
      OBVIOUS
    <2>2. Len(F!Digits(0)) <= 1 /\ Len(F!Digits(0)) \in Nat
      BY <2>1, DigitsWithin, DigitsAreChars
    <2>3. Len(F!Digits(0)) <= 2
      BY <2>2
    <2>4. Entry(F!Sized(0, 2) \o F!Padded(0, 6), 0, 2, 6)
      BY <1>1, <2>1, <2>3
    <2>5. none.name = 0 /\ none.points = 0
      OBVIOUS
    <2> HIDE DEF none
    <2> QED BY <2>4, <2>5
  <1> HIDE DEF e
  <1>4. /\ s \in Seq(Seq(F!Char)) /\ Len(s) = 3
        /\ \A j \in 1..Len(s) : Entry(s[j], 0, 2, 6)
    <2>0. top[1] = p /\ top[2] = r /\ top[3] = none /\ DOMAIN top = 1..3
      OBVIOUS
    <2> HIDE DEF top
    <2>1. s = [j \in 1..3 |-> e(top[j])]
      BY <2>0
    <2>20. \A j \in 1..3 : Entry(e(top[j]), 0, 2, 6)
      BY <1>2, <1>3, <2>0
    <2> HIDE DEF s
    <2>22. \A j \in 1..3 : Entry(s[j], 0, 2, 6)
      BY <2>20, <2>1
    <2>2. \A j \in 1..3 : s[j] \in Seq(F!Char) /\ Entry(s[j], 0, 2, 6)
      BY <2>22 DEF Entry
    <2>3. s = [j \in 1..3 |-> s[j]] /\ 3 \in Nat
      BY <2>1
    <2>4. s \in Seq(Seq(F!Char)) /\ Len(s) = 3
      BY <2>2, <2>3, MadeOf
    <2> QED BY <2>2, <2>4
  <1>5. F!Response124(top) = a \o F!FlattenSeq(s)
    <2> HIDE DEF top
    <2> QED BY Zenon DEF F!Response124, e
  <1> HIDE DEF s
  <1>10. 0 \in Nat /\ 2 \in Nat /\ 6 \in Nat
    OBVIOUS
  <1>11. a \in Seq(F!Char)
    <2>1. 124 \in Nat /\ 100 <= 124 /\ 124 <= 999
      OBVIOUS
    <2> QED BY <2>1, CodeIs
  <1>12. <<>> \in Seq(F!Char) /\ Len(<<>>) = 0 /\ 3 + Len(<<>>) = 3
    OBVIOUS
  <1>13. ASSUME NEW q, Begins(q, 124, <<>> \o F!FlattenSeq(s)), Lies(q, 3, <<>>), Len(q) >= 3 + Len(<<>>)
         PROVE  F!Extent(q) = F!EntriesEnd(q, 3 + Len(<<>>), Len(s), 0, 2, 6)
    <2>1. Len(q) \in Nat /\ Len(q) >= 3 /\ F!NumberAt(q, 0, 3) = 124
      BY <1>13 DEF Begins
    <2>2. F!Extent(q) = F!EntriesEnd(q, 3, 3, 0, 2, 6)
      BY <2>1, ExtentIs
    <2> QED BY <1>4, <1>12, <2>2
  <1>14. Splits(F!Digits(124) \o <<>> \o F!FlattenSeq(s))
    <2>1. IsCode(124)
      BY DEF IsCode
    <2> QED BY <1>4, <1>10, <1>12, <1>13, <2>1, ListSplits, ZenonT(30)
  <1>15. a \o <<>> = a
    <2> HIDE DEF a
    <2> QED BY <1>11, ConcatEmpty
  <1>16. Splits(a \o F!FlattenSeq(s))
    BY <1>14, <1>15
  <1> QED BY <1>5, <1>16

\* More after what begins with x.
LEMMA LongerLies ==
    ASSUME NEW x \in Seq(F!Char), NEW a \in Seq(F!Char), NEW c \in Seq(F!Char), Lies(a, 0, x)
    PROVE  a \o c \in Seq(F!Char) /\ Len(a \o c) = Len(a) + Len(c) /\ Lies(a \o c, 0, x)
  <1> DEFINE b == a \o c
  <1>1. b \in Seq(F!Char) /\ Len(b) = Len(a) + Len(c) /\ Lies(b, 0, a)
    BY ConcatIs, ConcatLies
  <1> HIDE DEF b
  <1>2. Lies(b, 0 + 0, x)
    BY <1>1, LiesIn
  <1>3. 0 + 0 = 0
    OBVIOUS
  <1> QED BY <1>1, <1>2, <1>3 DEF b

\* 126: the status of a player.
LEMMA StatisticsSplits ==
    ASSUME NEW games \in 0..2
    PROVE  Splits(F!Response126(<<games, 1, 1, 1, 2>>))
  <1> DEFINE b(n, w) == F!Padded(n, w)
             a == F!Digits(126)
             x == IF games = 0 THEN b(0, 4)
                  ELSE b(games, 4) \o b(1, 6) \o b(1, 6) \o b(1, 2) \o b(2, 2)
  <1>1. ASSUME NEW n \in 0..2, NEW w \in {2, 4, 6}
        PROVE  b(n, w) \in Seq(F!Char) /\ Len(b(n, w)) = w /\ Len(F!Digits(n)) <= w /\ w \in Nat /\ n \in Nat
    <2>1. n \in Nat /\ n <= 9 /\ w \in Nat
      OBVIOUS
    <2>2. Len(F!Digits(n)) <= 1 /\ Len(F!Digits(n)) \in Nat
      BY <2>1, DigitsWithin, DigitsAreChars
    <2>3. Len(F!Digits(n)) <= w
      BY <2>2
    <2> QED BY <2>1, <2>3, PaddedFits
  <1> HIDE DEF b
  <1>2. x \in Seq(F!Char) /\ Len(x) = (IF games = 0 THEN 4 ELSE 20) /\ Lies(x, 0, b(games, 4))
    <2> DEFINE b1 == b(games, 4)
               b2 == b(1, 6)
               b4 == b(1, 2)
               b5 == b(2, 2)
    <2>1. b1 \in Seq(F!Char) /\ Len(b1) = 4
      BY <1>1
    <2>2. b2 \in Seq(F!Char) /\ Len(b2) = 6
      BY <1>1
    <2>3. b4 \in Seq(F!Char) /\ Len(b4) = 2 /\ b5 \in Seq(F!Char) /\ Len(b5) = 2
      BY <1>1
    <2>4. Lies(b1, 0, b1)
      <3> HIDE DEF b1
      <3>1. b1 \o <<>> = b1 /\ <<>> \in Seq(F!Char)
        BY <2>1, ConcatEmpty
      <3>2. Lies(b1 \o <<>>, 0, b1)
        BY <2>1, <3>1, ConcatLies
      <3> QED BY <3>1, <3>2
    <2>5. CASE games = 0
      BY <2>1, <2>4, <2>5
    <2>6. CASE games # 0
      <3>0. x = b1 \o b2 \o b2 \o b4 \o b5
        BY <2>6
      <3> HIDE DEF b1, b2, b4, b5, x
      <3> DEFINE x2 == b1 \o b2
      <3>1. x2 \in Seq(F!Char) /\ Len(x2) = 10 /\ Lies(x2, 0, b1)
        <4>1. b1 \o b2 \in Seq(F!Char) /\ Len(b1 \o b2) = Len(b1) + Len(b2) /\ Lies(b1 \o b2, 0, b1)
          BY <2>1, <2>2, <2>4, LongerLies
        <4> QED BY <2>1, <2>2, <4>1
      <3> HIDE DEF x2
      <3> DEFINE x3 == x2 \o b2
      <3>2. x3 \in Seq(F!Char) /\ Len(x3) = 16 /\ Lies(x3, 0, b1)
        <4>1. x2 \o b2 \in Seq(F!Char) /\ Len(x2 \o b2) = Len(x2) + Len(b2) /\ Lies(x2 \o b2, 0, b1)
          BY <2>1, <2>2, <3>1, LongerLies
        <4> QED BY <2>2, <3>1, <4>1
      <3> HIDE DEF x3
      <3> DEFINE x4 == x3 \o b4
      <3>3. x4 \in Seq(F!Char) /\ Len(x4) = 18 /\ Lies(x4, 0, b1)
        <4>1. x3 \o b4 \in Seq(F!Char) /\ Len(x3 \o b4) = Len(x3) + Len(b4) /\ Lies(x3 \o b4, 0, b1)
          BY <2>1, <2>3, <3>2, LongerLies
        <4> QED BY <2>3, <3>2, <4>1
      <3> HIDE DEF x4
      <3> DEFINE x5 == x4 \o b5
      <3>4. x5 \in Seq(F!Char) /\ Len(x5) = 20 /\ Lies(x5, 0, b1)
        <4>1. x4 \o b5 \in Seq(F!Char) /\ Len(x4 \o b5) = Len(x4) + Len(b5) /\ Lies(x4 \o b5, 0, b1)
          BY <2>1, <2>3, <3>3, LongerLies
        <4> QED BY <2>3, <3>3, <4>1
      <3> HIDE DEF x5
      <3>5. x = x5
        BY <3>0 DEF x5, x4, x3, x2
      <3> QED BY <2>6, <3>4, <3>5 DEF b1
    <2> QED BY <2>5, <2>6
  <1>20. F!Response126(<<games, 1, 1, 1, 2>>) = a \o x
    <2> DEFINE lengths == <<games, 1, 1, 1, 2>>
    <2>1. lengths[1] = games /\ lengths[2] = 1 /\ lengths[3] = 1 /\ lengths[4] = 1 /\ lengths[5] = 2
      OBVIOUS
    <2> HIDE DEF lengths
    <2>2. F!Response126(lengths) = a \o x
      BY <2>1, Zenon DEF F!Response126, b
    <2> QED BY <2>2 DEF lengths
  <1> HIDE DEF x
  <1>3. ASSUME NEW q, Begins(q, 126, x) PROVE F!Extent(q) = 3 + Len(x)
    <2>1. Len(q) \in Nat /\ Len(q) >= 3 /\ F!NumberAt(q, 0, 3) = 126 /\ q \in Seq(F!Char) /\ Lies(q, 3, x)
      BY <1>3 DEF Begins
    <2>2. Lies(q, 3, b(games, 4))
      <3>1. b(games, 4) \in Seq(F!Char)
        BY <1>1
      <3> DEFINE c == b(games, 4)
      <3>2. c \in Seq(F!Char) /\ Lies(x, 0, c)
        BY <1>2, <3>1
      <3> HIDE DEF c
      <3>3. Lies(q, 3 + 0, c) /\ 3 + 0 = 3
        BY <1>2, <2>1, <3>2, LiesIn
      <3> QED BY <3>3 DEF c
    <2>3. F!NumberAt(q, 3, 4) = games
      <3>1. q \in Seq(Nat)
        BY <2>1, CharsAreNumbers
      <3>2. games \in Nat /\ 4 \in Nat /\ Len(F!Digits(games)) <= 4
        BY <1>1
      <3> QED BY <2>2, <3>1, <3>2, NumberLies DEF b
    <2>4. F!Extent(q) = IF F!NumberAt(q, 3, 4) = 0 THEN 7 ELSE 23
      BY <2>1, ExtentIs
    <2> QED BY <1>2, <2>3, <2>4
  <1>4. IsCode(126)
    BY DEF IsCode
  <1>5. Splits(F!Digits(126) \o x)
    BY <1>2, <1>3, <1>4, SplitsIf, ZenonT(30)
  <1> QED BY <1>5, <1>20

-----------------------------------------------------------------------------
\* Where the digits that std::stoi takes end.
IsRun(r, n) == /\ n \in 0..Len(r)
               /\ \A j \in 1..n : r[j] \in 0..9
               /\ n < Len(r) => r[n + 1] \notin 0..9

\* There is exactly one such place.
LEMMA RunIs ==
    ASSUME NEW r \in Seq(F!Char)
    PROVE  \E n \in 0..Len(r) : IsRun(r, n)
  <1> DEFINE T == {n \in 0..Len(r) : n < Len(r) => r[n + 1] \notin 0..9}
  <1>1. Len(r) \in T /\ T \in SUBSET Nat
    OBVIOUS
  <1>2. PICK n \in T : \A m \in T : n <= m
    BY <1>1, Least
  <1>3. ASSUME NEW j \in 1..n PROVE r[j] \in 0..9
    <2>1. j - 1 \in 0..Len(r) /\ j - 1 < n /\ (j - 1) + 1 = j /\ j - 1 < Len(r)
      BY <1>2
    <2>2. j - 1 \notin T
      BY <1>1, <1>2, <2>1
    <2> QED BY <2>1, <2>2
  <1>4. IsRun(r, n)
    BY <1>2, <1>3 DEF IsRun
  <1> QED BY <1>2, <1>4

\* The parts of what std::stoi takes.
Signed(q) == q # <<>> /\ q[1] = F!Minus
RestOf(q) == IF Signed(q) THEN Tail(q) ELSE q
RunOf(q) == CHOOSE n \in 0..Len(RestOf(q)) :
                /\ \A j \in 1..n : RestOf(q)[j] \in 0..9
                /\ n < Len(RestOf(q)) => RestOf(q)[n + 1] \notin 0..9

\* std::stoi by these parts.
LEMMA StoiIs ==
    ASSUME NEW q
    PROVE  F!Stoi(q) = IF RunOf(q) = 0 THEN {}
                       ELSE {(IF Signed(q) THEN -1 ELSE 1) * F!NumberAt(RestOf(q), 0, RunOf(q))}
  BY DEF F!Stoi, RunOf, RestOf, Signed

LEMMA RestIs ==
    ASSUME NEW q \in Seq(F!Char)
    PROVE  /\ RestOf(q) \in Seq(F!Char)
           /\ IsRun(RestOf(q), RunOf(q))
           /\ RunOf(q) \in Nat
  <1> DEFINE r == RestOf(q)
             n == RunOf(q)
  <1>1. r \in Seq(F!Char)
    BY DEF RestOf, Signed
  <1>2. \E k \in 0..Len(r) : IsRun(r, k)
    BY <1>1, RunIs
  <1>3. n = CHOOSE k \in 0..Len(r) : /\ \A j \in 1..k : r[j] \in 0..9
                                     /\ k < Len(r) => r[k + 1] \notin 0..9
    BY Zenon DEF RunOf
  <1> HIDE DEF r, n
  <1>4. IsRun(r, n)
    BY <1>2, <1>3 DEF IsRun
  <1>5. n \in Nat
    BY <1>1, <1>4 DEF IsRun
  <1> QED BY <1>1, <1>4, <1>5 DEF r, n

\* The result is a number or nothing.
LEMMA StoiTyped ==
    ASSUME NEW q \in Seq(F!Char)
    PROVE  F!Stoi(q) \in SUBSET Int
  <1> DEFINE v == F!NumberAt(RestOf(q), 0, RunOf(q))
  <1>1. RestOf(q) \in Seq(Nat) /\ RunOf(q) \in Nat /\ 0 \in Nat
    BY RestIs, CharsAreNumbers
  <1>2. v \in Nat
    BY <1>1, NumberTyped
  <1>3. F!Stoi(q) = IF RunOf(q) = 0 THEN {} ELSE {(IF Signed(q) THEN -1 ELSE 1) * v}
    BY StoiIs
  <1> HIDE DEF v
  <1> DEFINE z == (IF Signed(q) THEN -1 ELSE 1) * v
  <1>4. z \in Int
    <2>1. CASE Signed(q)
      BY <1>2, <2>1
    <2>2. CASE ~Signed(q)
      BY <1>2, <2>2
    <2> QED BY <2>1, <2>2
  <1>5. F!Stoi(q) = {} \/ F!Stoi(q) = {z}
    BY <1>3
  <1> HIDE DEF z
  <1> QED BY <1>4, <1>5

\* Digits to the end are all taken.
LEMMA RunOfDigits ==
    ASSUME NEW r \in Seq(0..9), NEW n, IsRun(r, n)
    PROVE  n = Len(r)
  <1>1. n \in 0..Len(r) /\ Len(r) \in Nat
    BY DEF IsRun
  <1>2. n < Len(r) => r[n + 1] \notin 0..9
    BY DEF IsRun
  <1>3. n < Len(r) => r[n + 1] \in 0..9
    BY <1>1
  <1> QED BY <1>1, <1>2, <1>3

\* Digits of either kind.
LEMMA DigitsAreCharSeq ==
    ASSUME NEW r \in Seq(0..9)
    PROVE  r \in Seq(F!Char)
  <1>1. \A j \in 1..Len(r) : r[j] \in F!Char
    BY DEF F!Char
  <1> QED BY <1>1

\* Without a sign, and with one in front.
LEMMA StoiUnsigned ==
    ASSUME NEW r \in Seq(0..9), Len(r) >= 1
    PROVE  F!Stoi(r) = {F!NumberAt(r, 0, Len(r))}
  <1>1. r[1] \in 0..9
    OBVIOUS
  <1>2. ~Signed(r)
    BY <1>1 DEF Signed, F!Minus
  <1>3. RestOf(r) = r
    BY <1>2 DEF RestOf
  <1>4. RunOf(r) = Len(r)
    <2>1. r \in Seq(F!Char)
      BY DigitsAreCharSeq
    <2>2. IsRun(r, RunOf(r))
      BY <1>3, <2>1, RestIs
    <2> QED BY <2>2, RunOfDigits
  <1> DEFINE v == F!NumberAt(r, 0, Len(r))
  <1>5. v \in Nat
    <2>1. r \in Seq(Nat) /\ 0 \in Nat /\ Len(r) \in Nat
      BY DigitsAreCharSeq, CharsAreNumbers
    <2> QED BY <2>1, NumberTyped
  <1>6. Len(r) # 0
    OBVIOUS
  <1>7. F!Stoi(r) = {1 * v}
    <2>1. F!Stoi(r) = IF RunOf(r) = 0 THEN {}
                      ELSE {(IF Signed(r) THEN -1 ELSE 1) * F!NumberAt(RestOf(r), 0, RunOf(r))}
      BY StoiIs
    <2> HIDE DEF v
    <2> QED BY <1>2, <1>3, <1>4, <1>6, <2>1 DEF v
  <1> HIDE DEF v
  <1>8. 1 * v = v
    BY <1>5
  <1> QED BY <1>7, <1>8 DEF v

LEMMA StoiSigned ==
    ASSUME NEW d \in Seq(0..9), Len(d) >= 1, NEW v \in Nat, F!NumberAt(d, 0, Len(d)) = v
    PROVE  F!Stoi(<<10>> \o d) = {-v}
  <1> DEFINE q == <<10>> \o d
  <1>1. d \in Seq(F!Char) /\ <<10>> \in Seq(F!Char) /\ Len(<<10>>) = 1
    <2>1. 10 \in F!Char
      BY DEF F!Char
    <2> QED BY <2>1, DigitsAreCharSeq
  <1>2. q \in Seq(F!Char) /\ q # <<>> /\ q[1] = 10 /\ Tail(q) = d
    BY <1>1
  <1> HIDE DEF q
  <1>3. Signed(q) /\ RestOf(q) = d
    BY <1>2 DEF Signed, RestOf, F!Minus
  <1>4. RunOf(q) = Len(d)
    <2>1. IsRun(d, RunOf(q))
      BY <1>2, <1>3, RestIs
    <2> QED BY <2>1, RunOfDigits
  <1>5. Len(d) # 0
    OBVIOUS
  <1>6. F!Stoi(q) = {(-1) * v}
    <2>1. F!Stoi(q) = IF RunOf(q) = 0 THEN {}
                      ELSE {(IF Signed(q) THEN -1 ELSE 1) * F!NumberAt(RestOf(q), 0, RunOf(q))}
      BY StoiIs
    <2> QED BY <1>3, <1>4, <1>5, <2>1
  <1>7. (-1) * v = -v
    OBVIOUS
  <1> QED BY <1>6, <1>7 DEF q

\* A sequence over a part of a set.
LEMMA SeqWithin ==
    ASSUME NEW C, NEW D, NEW r \in Seq(C), \A j \in 1..Len(r) : r[j] \in D
    PROVE  r \in Seq(D)
  OBVIOUS

\* std::stoi of the four characters of a room number in the list (106) gives the
\* room number, if it has no sign or the sign stands at the front of the field:
\* getPaddedNumber puts its zeros before the sign.
THEOREM StoiOfPadded ==
    ASSUME NEW id \in Int, Len(F!Text(id)) <= 4, id >= 0 \/ id <= -100
    PROVE  F!Stoi(F!Padded(id, 4)) = {id}
  <1> DEFINE p == F!Padded(id, 4)
             t == F!Text(id)
  <1>0. 4 \in Nat
    OBVIOUS
  <1>1. /\ p \in Seq(F!Char) /\ Len(p) = 4 /\ Len(t) \in Nat /\ Len(t) <= 4
        /\ \A j \in 1..(4 - Len(t)) : p[j] = 0
        /\ \A j \in 1..Len(t) : p[4 - Len(t) + j] = t[j]
        /\ Len(t) = 4 => p = t
    BY <1>0, PaddedIs, TextIs
  <1>2. CASE id >= 0
    <2>1. id \in Nat /\ t = F!Digits(id)
      BY <1>2, TextIs
    <2>2. t \in Seq(0..9)
      BY <2>1, DigitsTyped
    <2>3. F!NumberAt(p, 0, 4) = id
      <3>1. Len(F!Digits(id)) <= 4
        BY <1>1, <2>1
      <3> HIDE DEF t
      <3> QED BY <1>0, <2>1, <3>1, PaddedValue
    <2> HIDE DEF p, t
    <2>4. ASSUME NEW j \in 1..4 PROVE p[j] \in 0..9
      <3>1. CASE j <= 4 - Len(t)
        <4>1. j \in 1..(4 - Len(t))
          BY <1>1, <3>1
        <4> QED BY <1>1, <4>1
      <3>2. CASE ~(j <= 4 - Len(t))
        <4> DEFINE k == j - (4 - Len(t))
        <4>1. k \in 1..Len(t) /\ 4 - Len(t) + k = j
          BY <1>1, <3>2
        <4>2. t[k] \in 0..9
          BY <2>2, <4>1
        <4> HIDE DEF k
        <4>3. p[4 - Len(t) + k] = t[k]
          BY <1>1, <4>1
        <4> QED BY <4>1, <4>2, <4>3
      <3> QED BY <3>1, <3>2
    <2>5. p \in Seq(0..9)
      <3>1. \A j \in 1..Len(p) : p[j] \in 0..9
        BY <1>1, <2>4
      <3> QED BY <1>1, <3>1, SeqWithin
    <2>6. Len(p) >= 1
      BY <1>1
    <2>7. F!Stoi(p) = {F!NumberAt(p, 0, Len(p))}
      BY <2>5, <2>6, StoiUnsigned, Zenon
    <2> QED BY <1>1, <2>3, <2>7 DEF p
  <1>3. CASE id < 0
    <2> DEFINE n == -id
               d == F!Digits(n)
    <2>1. n \in Nat /\ 100 <= n /\ -n = id
      BY <1>3
    <2>2. t = <<10>> \o d /\ Len(t) = 1 + Len(d)
      <3>1. F!Text(id) = <<10>> \o F!Digits(-id) /\ Len(F!Text(id)) = 1 + Len(F!Digits(-id))
        BY <1>3, TextIs
      <3> QED BY <3>1
    <2>3. d \in Seq(0..9) /\ Len(d) >= 3 /\ Len(d) \in Nat /\ F!NumberAt(d, 0, Len(d)) = n
      <3> HIDE DEF n
      <3> QED BY <2>1, DigitsTyped, ManyDigits, DigitsAreChars, DigitsValue
    <2> HIDE DEF n, d, p, t
    <2>4. p = <<10>> \o d
      BY <1>1, <2>2, <2>3
    <2>5. Len(d) >= 1
      BY <2>3
    <2>6. F!Stoi(<<10>> \o d) = {-n}
      BY <2>1, <2>3, <2>5, StoiSigned
    <2> QED BY <2>1, <2>4, <2>6 DEF p
  <1> QED BY <1>2, <1>3
-----------------------------------------------------------------------------
(* The number of a listed room. *)

\* z is the w characters of q after the first p.
IsField(z, q, p, w) == /\ Len(z) = w
                       /\ \A j \in 1..w : z[j] = q[p + j]

\* SubSeq takes a field.
LEMMA FieldIs ==
    ASSUME NEW C, NEW q \in Seq(C), NEW p \in Nat, NEW w \in Nat, p + w <= Len(q)
    PROVE  SubSeq(q, p + 1, p + w) \in Seq(C) /\ IsField(SubSeq(q, p + 1, p + w), q, p, w)
  <1>1. SubSeq(q, p + 1, p + w) \in Seq(C)
    OBVIOUS
  <1>2. Len(SubSeq(q, p + 1, p + w)) = w
    OBVIOUS
  <1>3. \A j \in 1..w : SubSeq(q, p + 1, p + w)[j] = q[p + j]
    OBVIOUS
  <1> QED BY <1>1, <1>2, <1>3 DEF IsField

\* Where the number of a listed room stands, and that it is its number.
LEMMA AskedField ==
    ASSUME NEW rooms, Fits(rooms), NEW j \in 1..Len(rooms),
           NEW q, q = F!Response106(rooms), NEW p, p = F!EntriesEnd(q, 7, j - 1, 4, 2, 0)
    PROVE  SubSeq(q, p + 1, p + 4) = F!Padded(rooms[j].id, 4)
  <1> DEFINE n == Len(rooms)
             s == RoomEntries(rooms)
             a == F!Digits(106)
             b == F!Padded(n, 4)
             t == F!FlattenSeq(s)
             k == j - 1
             c == F!Padded(rooms[j].id, 4)
             x == s[j]
  <1>1. n \in Nat /\ n <= 9999 /\ s \in Seq(Seq(F!Char)) /\ Len(s) = n
    BY RoomEntriesAre DEF Fits
  <1>2. \A i1 \in 1..Len(s) : Entry(s[i1], 4, 2, 0)
    BY RoomEntriesAre
  <1>3. Len(F!Digits(n)) <= 4
    BY <1>1, DigitsWithin
  <1>4. b \in Seq(F!Char) /\ Len(b) = 4
    <2>1. 4 \in Nat
      OBVIOUS
    <2>2. n \in Nat
      BY <1>1
    <2> HIDE DEF n, s
    <2> QED BY <1>3, <2>1, <2>2, PaddedFits
  <1>5. t \in Seq(F!Char)
    BY <1>1, FlattenTyped
  <1>6. 106 \in Nat /\ 100 <= 106 /\ 106 <= 999
    OBVIOUS
  <1>7. a \in Seq(F!Char) /\ Len(a) = 3
    BY <1>6, CodeIs
  <1>8. q = (a \o b) \o t
    BY RoomsAre, Zenon
  <1>9. c \in Seq(F!Char) /\ Len(c) = 4 /\ x \in Seq(F!Char) /\ Lies(x, 0, c)
    <2>1. x = RoomEntry(rooms[j].id, rooms[j].name) /\ x \in Seq(F!Char)
      BY RoomEntriesAre DEF Entry
    <2>2. rooms[j].id \in Int /\ rooms[j].name \in 1..99 /\ Len(F!Text(rooms[j].id)) <= 4
      <3> DEFINE E == [id : Int, name : 1..99]
      <3>1. rooms \in Seq(E) /\ \A i1 \in DOMAIN rooms : Len(F!Text(rooms[i1].id)) <= 4
        BY DEF Fits
      <3> HIDE DEF E
      <3>2. \A i1 \in 1..Len(rooms) : rooms[i1] \in E /\ Len(F!Text(rooms[i1].id)) <= 4
        BY <3>1
      <3> QED BY <3>2 DEF E
    <2> DEFINE id == rooms[j].id
               name == rooms[j].name
    <2>3. id \in Int /\ name \in 1..99 /\ Len(F!Text(id)) <= 4 /\ x = RoomEntry(id, name) /\ c = F!Padded(id, 4)
      BY <2>1, <2>2
    <2> HIDE DEF id, name, c, x
    <2>4. Lies(RoomEntry(id, name), 0, F!Padded(id, 4))
      BY <2>3, RoomEntryIs
    <2>5. F!Padded(id, 4) \in Seq(F!Char) /\ Len(F!Padded(id, 4)) = 4
      <3>1. 4 \in Nat
        OBVIOUS
      <3> QED BY <2>3, <3>1, PaddedIs
    <2> QED BY <2>1, <2>3, <2>4, <2>5
  <1>10. PICK f : FlattensTo(f, s, F!Char)
    BY <1>1, FlattenIs
  <1>11. k \in Nat /\ k <= Len(s) /\ k + 1 <= Len(s) /\ k + 1 = j
    BY <1>1
  <1> HIDE DEF a, b, t, s, n, k, c, x
  <1>12. q \in Seq(F!Char) /\ Lies(q, 7, t)
    <2>1. a \o b \in Seq(F!Char) /\ Len(a \o b) = Len(a) + Len(b)
      BY <1>4, <1>7, ConcatIs
    <2> DEFINE d == a \o b
    <2>2. d \in Seq(F!Char) /\ Len(d) = 7 /\ q = d \o t
      BY <1>4, <1>7, <1>8, <2>1
    <2> HIDE DEF d
    <2>3. d \o t \in Seq(F!Char) /\ Lies(d \o t, Len(d), t)
      BY <1>5, <2>2, ConcatIs, ConcatLies
    <2> QED BY <2>2, <2>3
  <1>13. p = 7 + Len(f[k])
    <2>1. Lies(q, 7, F!FlattenSeq(s))
      BY <1>12 DEF t
    <2>2. 4 \in Nat /\ 2 \in Nat /\ 0 \in Nat
      OBVIOUS
    <2>3. ListEndsAt(q, 7, s, f, k, 4, 2, 0)
      <3>1. q \in Seq(F!Char)
        BY <1>12
      <3>2. s \in Seq(Seq(F!Char))
        BY <1>1
      <3>3. k \in Nat
        BY <1>11
      <3>4. k <= Len(s)
        BY <1>11
      <3> QED BY <1>2, <1>10, <2>1, <2>2, <3>1, <3>2, <3>3, <3>4, ListEnds, Zenon
    <2>4. p = F!EntriesEnd(q, 7, k, 4, 2, 0)
      BY DEF k
    <2> QED BY <2>3, <2>4 DEF ListEndsAt
  <1>14. StandsAfter(f, s, k)
    <2>1. k \in Nat
      BY <1>11
    <2>2. k + 1 <= Len(s)
      BY <1>11
    <2>3. s \in Seq(Seq(F!Char))
      BY <1>1
    <2> QED BY <1>10, <2>1, <2>2, <2>3, FlattenLies, Zenon
  <1> DEFINE m == Len(f[k])
  <1>15. m \in Nat /\ m + Len(x) <= Len(t) /\ \A i1 \in 1..Len(x) : t[m + i1] = x[i1]
    <2>1. x = s[k + 1]
      BY <1>11 DEF x
    <2> QED BY <1>14, <2>1 DEF StandsAfter, t
  <1>16. p = 7 + m
    BY <1>13
  <1> HIDE DEF m
  <1>17. Lies(t, m, x)
    BY <1>15 DEF Lies
  <1>18. Lies(q, 7 + m, x)
    <2>1. x \in Seq(F!Char) /\ t \in Seq(F!Char) /\ q \in Seq(F!Char)
      BY <1>5, <1>9, <1>12
    <2> QED BY <1>12, <1>17, <2>1, LiesIn
  <1>19. Lies(q, (7 + m) + 0, c)
    <2>1. x \in Seq(F!Char) /\ c \in Seq(F!Char) /\ q \in Seq(F!Char) /\ Lies(x, 0, c)
      BY <1>9, <1>12
    <2> DEFINE r == 7 + m
    <2>2. Lies(q, r, x)
      BY <1>18
    <2> HIDE DEF r
    <2>3. Lies(q, r + 0, c)
      BY <2>1, <2>2, LiesIn
    <2> QED BY <2>3 DEF r
  <1>20. p \in Nat /\ p + 4 <= Len(q) /\ \A i1 \in 1..4 : q[p + i1] = c[i1]
    <2>1. (7 + m) + 0 = p
      BY <1>15, <1>16
    <2>2. Lies(q, p, c)
      BY <1>19, <2>1
    <2> QED BY <1>9, <2>2 DEF Lies
  <1> DEFINE z == SubSeq(q, p + 1, p + 4)
  <1>21. z \in Seq(F!Char) /\ Len(z) = 4 /\ \A i1 \in 1..4 : z[i1] = q[p + i1]
    <2>1. q \in Seq(F!Char) /\ p \in Nat /\ p + 4 <= Len(q)
      BY <1>12, <1>20
    <2> DEFINE w == 4
    <2>2. w \in Nat /\ p + w <= Len(q)
      BY <2>1
    <2> HIDE DEF w
    <2>3. SubSeq(q, p + 1, p + w) \in Seq(F!Char) /\ IsField(SubSeq(q, p + 1, p + w), q, p, w)
      BY <2>1, <2>2, FieldIs, Zenon
    <2> QED BY <2>3 DEF w, z, IsField
  <1> HIDE DEF z
  <1>22. z = c
    <2>1. z \in Seq(F!Char) /\ c \in Seq(F!Char)
      BY <1>9, <1>21
    <2>2. Len(z) = Len(c) /\ \A i1 \in 1..Len(z) : z[i1] = c[i1]
      BY <1>9, <1>20, <1>21
    <2> QED BY <2>1, <2>2, SameSeq
  <1> QED BY <1>22 DEF z, c

\* std::stoi makes a number of it, and the right one as ListedRoomIsFound says.
LEMMA AskedIsInt ==
    ASSUME NEW rooms, Fits(rooms), NEW j \in 1..Len(rooms)
    PROVE  /\ rooms[j].id \in Int
           /\ F!Stoi(F!Padded(rooms[j].id, 4)) \in SUBSET Int
           /\ rooms[j].id >= 0 \/ rooms[j].id <= -100 =>
                 F!Stoi(F!Padded(rooms[j].id, 4)) = {rooms[j].id}
  <1> DEFINE id == rooms[j].id
  <1>1. id \in Int /\ Len(F!Text(id)) <= 4
    <2> DEFINE E == [id : Int, name : 1..99]
    <2>1. rooms \in Seq(E) /\ \A i1 \in DOMAIN rooms : Len(F!Text(rooms[i1].id)) <= 4
      BY DEF Fits
    <2> HIDE DEF E
    <2>2. \A i1 \in 1..Len(rooms) : rooms[i1] \in E /\ Len(F!Text(rooms[i1].id)) <= 4
      BY <2>1
    <2> QED BY <2>2 DEF E
  <1> HIDE DEF id
  <1>2. F!Padded(id, 4) \in Seq(F!Char)
    <2>1. 4 \in Nat
      OBVIOUS
    <2> QED BY <1>1, <2>1, PaddedIs
  <1>3. F!Stoi(F!Padded(id, 4)) \in SUBSET Int
    BY <1>2, StoiTyped
  <1>4. id >= 0 \/ id <= -100 => F!Stoi(F!Padded(id, 4)) = {id}
    BY <1>1, StoiOfPadded
  <1> QED BY <1>1, <1>3, <1>4 DEF id
-----------------------------------------------------------------------------
(* The inductive invariant of the replies. *)

\* A reply that lists rooms is the list of rooms that fit.
ListedIn(m) ==
    m.rooms = <<>> \/ \E rooms : /\ Fits(rooms)
                                 /\ m.bytes = F!Response106(rooms)
                                 /\ m.rooms = [j \in DOMAIN rooms |-> rooms[j].id]

\* The replies sent and not heard yet.
Pending == [j \in 1..(Len(said) - Len(heard)) |-> said[Len(heard) + j].bytes]

\* While no reply was one that cannot be told apart: every reply splits, what the
\* client took are the first replies, and the stream is the others.
Understood ==
    /\ \A j \in 1..Len(said) : Splits(said[j].bytes) /\ ListedIn(said[j])
    /\ Len(heard) <= Len(said)
    /\ \A j \in 1..Len(heard) : heard[j] = said[j].bytes
    /\ stream = F!FlattenSeq(Pending)

\* The inductive invariant of the replies.
RepliesInv == F!TypeOK /\ (clean => Understood) /\ F!ListedRoomIsFound

\* A reply as `said` records it.
Sent == [bytes : Seq(F!Char), rooms : Seq(RoomIds)]

\* What the type invariant says of each variable.
LEMMA FramingTypes ==
    ASSUME F!TypeOK
    PROVE  /\ said \in Seq(Sent) /\ Len(said) \in Nat
           /\ \A j \in 1..Len(said) : said[j] \in Sent /\ said[j].bytes \in Seq(F!Char)
           /\ clean \in BOOLEAN
           /\ stream \in Seq(F!Char)
           /\ heard \in Seq(Seq(F!Char)) /\ Len(heard) \in Nat
           /\ asked \in [meant : RoomIds \cup {0}, got : SUBSET Int]
           /\ down \in BOOLEAN
  <1>1. /\ said \in Seq(Sent) /\ clean \in BOOLEAN /\ stream \in Seq(F!Char)
        /\ heard \in Seq(Seq(F!Char)) /\ asked \in [meant : RoomIds \cup {0}, got : SUBSET Int]
        /\ down \in BOOLEAN
    BY DEF F!TypeOK, Sent
  <1>2. \A m \in Sent : m.bytes \in Seq(F!Char)
    BY DEF Sent
  <1>3. Len(said) \in Nat /\ \A j \in 1..Len(said) : said[j] \in Sent
    <2> HIDE DEF Sent
    <2> QED BY <1>1
  <1>4. Len(heard) \in Nat
    BY <1>1
  <1> QED BY <1>1, <1>2, <1>3, <1>4

\* The replies that are not heard yet, one by one.
LEMMA PendingIs ==
    ASSUME F!TypeOK, Len(heard) <= Len(said)
    PROVE  /\ Pending \in Seq(Seq(F!Char))
           /\ Len(Pending) = Len(said) - Len(heard)
           /\ \A j \in 1..(Len(said) - Len(heard)) : Pending[j] = said[Len(heard) + j].bytes
  <1> DEFINE n == Len(said)
             m == Len(heard)
             k == n - m
  <1>1. n \in Nat /\ m \in Nat /\ k \in Nat /\ m <= n
    BY FramingTypes
  <1>2. \A j \in 1..n : said[j].bytes \in Seq(F!Char)
    BY FramingTypes
  <1>3. Pending = [j \in 1..k |-> said[m + j].bytes]
    BY DEF Pending
  <1> HIDE DEF n, m
  <1>4. \A j \in 1..k : m + j \in 1..n
    BY <1>1
  <1> HIDE DEF k
  <1>5. \A j \in 1..k : Pending[j] = said[m + j].bytes /\ Pending[j] \in Seq(F!Char)
    BY <1>2, <1>3, <1>4
  <1>6. Pending = [j \in 1..k |-> Pending[j]]
    BY <1>3
  <1>7. Pending \in Seq(Seq(F!Char)) /\ Len(Pending) = k
    BY <1>1, <1>5, <1>6, MadeOf
  <1> QED BY <1>5, <1>7 DEF k, n, m

\* At first nothing is sent.
LEMMA RepliesInit == F!Init => RepliesInv
  <1> SUFFICES ASSUME F!Init PROVE RepliesInv
    OBVIOUS
  <1>1. /\ said = <<>> /\ clean = TRUE /\ stream = <<>> /\ heard = <<>>
        /\ asked = [meant |-> 0, got |-> {0}] /\ down = FALSE
    BY DEF F!Init
  <1>2. F!TypeOK
    <2>1. said \in Seq([bytes : Seq(F!Char), rooms : Seq(RoomIds)])
      BY <1>1
    <2>2. stream \in Seq(F!Char)
      BY <1>1
    <2>3. heard \in Seq(Seq(F!Char))
      BY <1>1
    <2>4. asked \in [meant : RoomIds \cup {0}, got : SUBSET Int]
      <3>1. {0} \in SUBSET Int /\ 0 \in RoomIds \cup {0}
        OBVIOUS
      <3> QED BY <1>1, <3>1
    <2> QED BY <1>1, <2>1, <2>2, <2>3, <2>4 DEF F!TypeOK
  <1>3. Len(said) = 0 /\ Len(heard) = 0
    BY <1>1
  <1>4. Pending = <<>>
    <2>1. Pending \in Seq(Seq(F!Char)) /\ Len(Pending) = 0
      BY <1>2, <1>3, PendingIs
    <2> QED BY <2>1
  <1>5. Understood
    <2>1. stream = F!FlattenSeq(Pending)
      BY <1>1, <1>4, FlattenEmpty
    <2>2. \A j \in 1..0 : FALSE
      OBVIOUS
    <2> QED BY <1>3, <2>1, <2>2 DEF Understood
  <1>6. F!ListedRoomIsFound
    BY <1>1 DEF F!ListedRoomIsFound
  <1> QED BY <1>2, <1>5, <1>6 DEF RepliesInv

\* A reply is sent.
LEMMA SendKeeps ==
    ASSUME RepliesInv, NEW bytes \in Seq(F!Char), NEW listed \in Seq(RoomIds), NEW fine \in BOOLEAN,
           F!SendData(bytes, listed, fine),
           fine => Splits(bytes) /\ ListedIn([bytes |-> bytes, rooms |-> listed])
    PROVE  RepliesInv'
  <1> DEFINE m == [bytes |-> bytes, rooms |-> listed]
  <1>1. F!TypeOK /\ (clean => Understood) /\ F!ListedRoomIsFound
    BY DEF RepliesInv
  <1>2. /\ said' = Append(said, m)
        /\ clean' = (clean /\ fine)
        /\ stream' = stream \o bytes
        /\ heard' = heard /\ asked' = asked /\ down' = down
    BY DEF F!SendData
  <1>3. m \in Sent /\ m.bytes = bytes
    BY DEF Sent
  <1> HIDE DEF m
  <1>4. /\ said' \in Seq(Sent) /\ Len(said') = Len(said) + 1
        /\ \A j \in 1..Len(said) : said'[j] = said[j]
        /\ said'[Len(said) + 1] = m
    <2>1. said \in Seq(Sent)
      BY <1>1, FramingTypes
    <2> HIDE DEF Sent
    <2> QED BY <1>2, <1>3, <2>1
  <1>5. F!TypeOK'
    <2>1. stream' \in Seq(F!Char)
      <3>1. stream \in Seq(F!Char)
        BY <1>1, FramingTypes
      <3>2. stream \o bytes \in Seq(F!Char)
        BY <3>1, ConcatIs
      <3> QED BY <1>2, <3>2
    <2>2. clean' \in BOOLEAN
      BY <1>2
    <2>3. heard' \in Seq(Seq(F!Char)) /\ down' \in BOOLEAN
      BY <1>1, <1>2, FramingTypes
    <2>4. asked' \in [meant : RoomIds \cup {0}, got : SUBSET Int]
      BY <1>1, <1>2, FramingTypes
    <2>5. said' \in Seq([bytes : Seq(F!Char), rooms : Seq(RoomIds)])
      BY <1>4 DEF Sent
    <2> QED BY <2>1, <2>2, <2>3, <2>4, <2>5 DEF F!TypeOK
  <1>6. F!ListedRoomIsFound'
    <2>1. clean' => clean
      BY <1>2
    <2> QED BY <1>1, <1>2, <2>1 DEF F!ListedRoomIsFound
  <1>7. clean' => Understood'
    <2> SUFFICES ASSUME clean' PROVE Understood'
      OBVIOUS
    <2>1. clean /\ fine
      BY <1>2
    <2>2. Understood /\ Splits(bytes) /\ ListedIn(m)
      BY <1>1, <2>1 DEF m
    <2>3. Len(said) \in Nat /\ Len(heard) \in Nat /\ Len(heard) <= Len(said)
      BY <1>1, <2>2, FramingTypes DEF Understood
    <2>4. \A j \in 1..Len(said') : Splits(said'[j].bytes) /\ ListedIn(said'[j])
      <3> SUFFICES ASSUME NEW j \in 1..Len(said') PROVE Splits(said'[j].bytes) /\ ListedIn(said'[j])
        OBVIOUS
      <3>1. CASE j = Len(said) + 1
        BY <1>3, <1>4, <2>2, <3>1
      <3>2. CASE j # Len(said) + 1
        <4>1. j \in 1..Len(said)
          BY <1>4, <2>3, <3>2
        <4>2. said'[j] = said[j]
          BY <1>4, <4>1
        <4> QED BY <2>2, <4>1, <4>2 DEF Understood
      <3> QED BY <3>1, <3>2
    <2>5. Len(heard') <= Len(said')
      BY <1>2, <1>4, <2>3
    <2>6. \A j \in 1..Len(heard') : heard'[j] = said'[j].bytes
      <3> SUFFICES ASSUME NEW j \in 1..Len(heard) PROVE heard[j] = said'[j].bytes
        BY <1>2
      <3>1. j \in 1..Len(said)
        BY <2>3
      <3>2. said'[j] = said[j]
        BY <1>4, <3>1
      <3> QED BY <2>2, <3>2 DEF Understood
    <2>7. stream' = F!FlattenSeq(Pending')
      <3>1. /\ Pending \in Seq(Seq(F!Char)) /\ Len(Pending) = Len(said) - Len(heard)
            /\ \A j \in 1..(Len(said) - Len(heard)) : Pending[j] = said[Len(heard) + j].bytes
        BY <1>1, <2>3, PendingIs
      <3>2. Pending' = [j \in 1..(Len(said') - Len(heard')) |-> said'[Len(heard') + j].bytes]
        BY DEF Pending
      <3>3. Pending' = Append(Pending, bytes)
        <4> DEFINE n == Len(said)
                   h == Len(heard)
                   k == n - h
        <4>1. Pending' = [j \in 1..(k + 1) |-> said'[h + j].bytes]
          <5>1. Len(said') - Len(heard') = k + 1 /\ Len(heard') = h
            BY <1>2, <1>4, <2>3
          <5> QED BY <3>2, <5>1
        <4>2. k \in Nat /\ h + (k + 1) = n + 1
          BY <2>3
        <4>3. \A j \in 1..k : h + j \in 1..n
          BY <2>3
        <4>4. \A j \in 1..k : said'[h + j].bytes = Pending[j]
          BY <1>4, <3>1, <4>3
        <4>5. said'[h + (k + 1)].bytes = bytes
          BY <1>3, <1>4, <4>2
        <4> DEFINE g == Append(Pending, bytes)
                   z == Pending'
        <4>6. /\ g \in Seq(Seq(F!Char)) /\ Len(g) = k + 1
              /\ \A j \in 1..k : g[j] = Pending[j]
              /\ g[k + 1] = bytes
          <5> DEFINE D == Seq(F!Char)
                     s == Pending
          <5>1. s \in Seq(D) /\ bytes \in D /\ Len(s) = k
            BY <3>1
          <5> HIDE DEF D, s, k
          <5>2. /\ Append(s, bytes) \in Seq(D) /\ Len(Append(s, bytes)) = k + 1
                /\ \A j \in 1..k : Append(s, bytes)[j] = s[j]
                /\ Append(s, bytes)[k + 1] = bytes
            BY <4>2, <5>1
          <5> QED BY <5>2, Zenon DEF s, D
        <4>7. z = [j \in 1..(k + 1) |-> said'[h + j].bytes]
          BY <4>1
        <4> HIDE DEF n, h, k, g, z
        <4>8. \A j \in 1..(k + 1) : z[j] = g[j]
          <5> SUFFICES ASSUME NEW j \in 1..(k + 1) PROVE z[j] = g[j]
            OBVIOUS
          <5>0. z[j] = said'[h + j].bytes
            BY <4>7
          <5>1. CASE j <= k
            <6>1. j \in 1..k
              BY <4>2, <5>1
            <6> QED BY <4>4, <4>6, <5>0, <6>1
          <5>2. CASE ~(j <= k)
            <6>1. j = k + 1
              BY <4>2, <5>2
            <6> QED BY <4>5, <4>6, <5>0, <6>1
          <5> QED BY <5>1, <5>2
        <4>9. z \in Seq(Seq(F!Char)) /\ Len(z) = k + 1
          <5>1. \A j \in 1..(k + 1) : z[j] \in Seq(F!Char)
            BY <4>2, <4>6, <4>8
          <5>2. k + 1 \in Nat
            BY <4>2
          <5>3. z = [j \in 1..(k + 1) |-> z[j]]
            BY <4>7
          <5> DEFINE l == k + 1
          <5>4. l \in Nat /\ z = [j \in 1..l |-> z[j]] /\ \A j \in 1..l : z[j] \in Seq(F!Char)
            BY <5>1, <5>2, <5>3
          <5> HIDE DEF l
          <5>5. z \in Seq(Seq(F!Char)) /\ Len(z) = l
            BY <5>4, MadeOf
          <5> QED BY <5>5 DEF l
        <4>10. z = g
          <5> DEFINE D == Seq(F!Char)
          <5>1. z \in Seq(D) /\ g \in Seq(D) /\ Len(z) = Len(g) /\ \A j \in 1..Len(z) : z[j] = g[j]
            BY <4>6, <4>8, <4>9
          <5> HIDE DEF D
          <5> QED BY <5>1, SameSeq
        <4> QED BY <4>10 DEF z, g
      <3>4. F!FlattenSeq(Append(Pending, bytes)) = F!FlattenSeq(Pending) \o bytes
        BY <3>1, FlattenAppend
      <3>5. stream = F!FlattenSeq(Pending)
        BY <2>2 DEF Understood
      <3> QED BY <1>2, <3>3, <3>4, <3>5
    <2> QED BY <2>4, <2>5, <2>6, <2>7 DEF Understood
  <1> QED BY <1>5, <1>6, <1>7 DEF RepliesInv
-----------------------------------------------------------------------------
(* What is sent is characters. *)

\* Whatever is sent is characters.
LEMMA ListTyped ==
    ASSUME NEW code \in Nat, NEW head \in Seq(F!Char), NEW s \in Seq(Seq(F!Char))
    PROVE  F!Digits(code) \o head \o F!FlattenSeq(s) \in Seq(F!Char)
  <1> DEFINE a == F!Digits(code)
             t == F!FlattenSeq(s)
  <1>1. a \in Seq(F!Char) /\ t \in Seq(F!Char)
    BY DigitsAreChars, FlattenTyped
  <1> HIDE DEF a, t
  <1>2. a \o head \in Seq(F!Char)
    BY <1>1, ConcatIs
  <1> DEFINE b == a \o head
  <1>3. b \in Seq(F!Char)
    BY <1>2
  <1> HIDE DEF b
  <1>4. b \o t \in Seq(F!Char)
    BY <1>1, <1>3, ConcatIs
  <1> QED BY <1>4 DEF a, b, t

\* Fields.
LEMMA PaddedTyped ==
    ASSUME NEW n \in Int, NEW w \in Nat
    PROVE  F!Padded(n, w) \in Seq(F!Char)
  BY PaddedIs

LEMMA SizedTyped ==
    ASSUME NEW n \in Nat, NEW w \in Nat
    PROVE  F!Sized(n, w) \in Seq(F!Char)
  <1> DEFINE a == F!Padded(n, w)
             b == F!Letters(n)
  <1>0. n \in Int
    OBVIOUS
  <1>1. a \in Seq(F!Char) /\ b \in Seq(F!Char)
    BY <1>0, PaddedTyped, LettersIs
  <1> HIDE DEF a, b
  <1>2. a \o b \in Seq(F!Char)
    BY <1>1, ConcatIs
  <1> QED BY <1>2 DEF F!Sized, a, b

LEMMA TwoTyped ==
    ASSUME NEW a \in Seq(F!Char), NEW b \in Seq(F!Char)
    PROVE  a \o b \in Seq(F!Char)
  BY ConcatIs

\* Replies of any numbers, fitting or not.
LEMMA RoomsTyped ==
    ASSUME NEW n \in Nat, NEW rooms \in [1..n -> F!Room]
    PROVE  /\ F!Response106(rooms) \in Seq(F!Char)
           /\ [j \in DOMAIN rooms |-> rooms[j].id] \in Seq(RoomIds)
  <1> DEFINE s == RoomEntries(rooms)
  <1>1. Len(rooms) = n /\ DOMAIN rooms = 1..n
    OBVIOUS
  <1>2. ASSUME NEW j \in 1..n PROVE rooms[j].id \in RoomIds /\ rooms[j].name \in TextLengths
    <2> DEFINE r == rooms[j]
    <2>1. r \in F!Room
      OBVIOUS
    <2> HIDE DEF r
    <2>2. r.id \in RoomIds /\ r.name \in TextLengths
      BY <2>1 DEF F!Room
    <2> QED BY <2>2 DEF r
  <1>3. ASSUME NEW j \in 1..n PROVE RoomEntry(rooms[j].id, rooms[j].name) \in Seq(F!Char)
    <2> DEFINE i1 == rooms[j].id
               m == rooms[j].name
    <2>1. i1 \in RoomIds /\ m \in TextLengths
      BY <1>2
    <2> HIDE DEF i1, m
    <2>2. i1 \in Int /\ m \in Nat /\ 4 \in Nat /\ 2 \in Nat
      BY <2>1, LengthsAre
    <2>3. F!Padded(i1, 4) \in Seq(F!Char) /\ F!Sized(m, 2) \in Seq(F!Char)
      BY <2>2, PaddedTyped, SizedTyped
    <2>4. RoomEntry(i1, m) \in Seq(F!Char)
      BY <2>3, TwoTyped DEF RoomEntry
    <2> QED BY <2>4 DEF i1, m
  <1>4. s \in Seq(Seq(F!Char))
    <2> DEFINE e == [j \in 1..n |-> RoomEntry(rooms[j].id, rooms[j].name)]
    <2>1. s = e
      BY <1>1, Zenon DEF RoomEntries
    <2>2. \A j \in 1..n : e[j] \in Seq(F!Char)
      BY <1>3
    <2>3. e = [j \in 1..n |-> e[j]]
      OBVIOUS
    <2> HIDE DEF e
    <2> QED BY <2>1, <2>2, <2>3, MadeOf
  <1>5. F!Response106(rooms) \in Seq(F!Char)
    <2>1. F!Padded(n, 4) \in Seq(F!Char)
      <3>1. n \in Int /\ 4 \in Nat
        OBVIOUS
      <3> QED BY <3>1, PaddedTyped
    <2>2. F!Response106(rooms) = F!Digits(106) \o F!Padded(n, 4) \o F!FlattenSeq(s)
      BY <1>1, RoomsAre, Zenon
    <2>3. 106 \in Nat
      OBVIOUS
    <2> HIDE DEF s
    <2>4. F!Digits(106) \o F!Padded(n, 4) \o F!FlattenSeq(s) \in Seq(F!Char)
      BY <1>4, <2>1, <2>3, ListTyped, Zenon
    <2> QED BY <2>2, <2>4
  <1>6. [j \in DOMAIN rooms |-> rooms[j].id] \in Seq(RoomIds)
    BY <1>1, <1>2
  <1> QED BY <1>5, <1>6

LEMMA RoomsAreEntries == F!Room \subseteq [id : Int, name : 1..99]
  <1> DEFINE L == 1..99
  <1>1. RoomIds \subseteq Int /\ TextLengths \subseteq L
    BY WireAssumption DEF F!FramingAssumption
  <1> HIDE DEF L
  <1>2. F!Room \subseteq [id : Int, name : L]
    BY <1>1 DEF F!Room
  <1> QED BY <1>2 DEF L

\* If they fit, their list can be told apart.
LEMMA RoomsFit ==
    ASSUME NEW n \in Nat, n <= 9999, NEW rooms \in [1..n -> F!Room],
           \A j \in DOMAIN rooms : Len(F!Text(rooms[j].id)) <= 4
    PROVE  Fits(rooms)
  <1> DEFINE L == 1..99
             E == [id : Int, name : L]
  <1>1. F!Room \subseteq E
    BY RoomsAreEntries
  <1>2. \A j \in 1..n : rooms[j] \in E
    BY <1>1
  <1> HIDE DEF E
  <1>3. rooms \in Seq(E) /\ Len(rooms) = n
    BY <1>2
  <1>4. Len(rooms) <= 9999
    BY <1>3
  <1> QED BY <1>3, <1>4 DEF Fits, E, L

LEMMA UsersTyped ==
    ASSUME NEW n \in Nat, NEW names \in [1..n -> TextLengths]
    PROVE  F!Response108(names) \in Seq(F!Char)
  <1>1. Len(names) = n /\ DOMAIN names = 1..n
    OBVIOUS
  <1>2. CASE names = <<>>
    <2>1. 1080 \in Nat
      OBVIOUS
    <2>2. F!Digits(1080) \in Seq(F!Char)
      BY <2>1, DigitsAreChars
    <2> QED BY <1>2, <2>2 DEF F!Response108
  <1>3. CASE names # <<>>
    <2> DEFINE e == [j \in 1..n |-> F!Sized(names[j], 2)]
    <2>1. \A j \in 1..n : e[j] \in Seq(F!Char)
      <3> SUFFICES ASSUME NEW j \in 1..n PROVE F!Sized(names[j], 2) \in Seq(F!Char)
        OBVIOUS
      <3> DEFINE m == names[j]
      <3>1. m \in TextLengths
        OBVIOUS
      <3> HIDE DEF m
      <3>2. m \in Nat /\ 2 \in Nat
        BY <3>1, LengthsAre
      <3>3. F!Sized(m, 2) \in Seq(F!Char)
        BY <3>2, SizedTyped
      <3> QED BY <3>3 DEF m
    <2>2. e = [j \in 1..n |-> e[j]]
      OBVIOUS
    <2>3. F!Response108(names) = F!Digits(108) \o F!Padded(n, 3) \o F!FlattenSeq(e)
      BY <1>1, <1>3, Zenon DEF F!Response108
    <2> HIDE DEF e
    <2>4. e \in Seq(Seq(F!Char))
      BY <2>1, <2>2, MadeOf
    <2>5. n \in Int /\ 3 \in Nat /\ 108 \in Nat
      OBVIOUS
    <2>6. F!Padded(n, 3) \in Seq(F!Char)
      BY <2>5, PaddedTyped
    <2>7. F!Digits(108) \o F!Padded(n, 3) \o F!FlattenSeq(e) \in Seq(F!Char)
      BY <2>4, <2>5, <2>6, ListTyped, Zenon
    <2> QED BY <2>3, <2>7
  <1> QED BY <1>2, <1>3

LEMMA FinishedTyped ==
    ASSUME NEW n \in Nat, NEW players \in [1..n -> F!Player]
    PROVE  F!Response121(players) \in Seq(F!Char)
  <1>1. Len(players) = n /\ DOMAIN players = 1..n
    OBVIOUS
  <1> DEFINE e == [j \in 1..n |-> F!Sized(players[j].name, 2)
                                     \o F!Padded(Len(F!Text(players[j].points)), 2)]
  <1>2. \A j \in 1..n : e[j] \in Seq(F!Char)
    <2> SUFFICES ASSUME NEW j \in 1..n
                 PROVE  F!Sized(players[j].name, 2)
                           \o F!Padded(Len(F!Text(players[j].points)), 2) \in Seq(F!Char)
      OBVIOUS
    <2> DEFINE r == players[j]
               m == r.name
               k == r.points
    <2>1. r \in F!Player
      OBVIOUS
    <2> HIDE DEF r
    <2>2. m \in TextLengths /\ k \in Counts
      BY <2>1 DEF F!Player
    <2> HIDE DEF m, k
    <2>3. m \in Nat /\ k \in Int /\ 2 \in Nat
      <3>1. m \in Nat /\ k \in Nat
        BY <2>2, LengthsAre
      <3> QED BY <3>1
    <2> DEFINE l == Len(F!Text(k))
    <2>4. l \in Int
      <3>1. l \in Nat
        BY <2>3, TextIs
      <3> QED BY <3>1
    <2> HIDE DEF l
    <2>5. F!Sized(m, 2) \in Seq(F!Char) /\ F!Padded(l, 2) \in Seq(F!Char)
      BY <2>3, <2>4, SizedTyped, PaddedTyped
    <2>6. F!Sized(m, 2) \o F!Padded(l, 2) \in Seq(F!Char)
      BY <2>5, TwoTyped
    <2> QED BY <2>6 DEF l, k, m, r
  <1>3. e = [j \in 1..n |-> e[j]]
    OBVIOUS
  <1>4. F!Response121(players) = F!Digits(121) \o F!Padded(n, 1) \o F!FlattenSeq(e)
    BY <1>1, ZenonT(60) DEF F!Response121
  <1> HIDE DEF e
  <1>5. e \in Seq(Seq(F!Char))
    BY <1>2, <1>3, MadeOf
  <1>6. n \in Int /\ 1 \in Nat /\ 121 \in Nat
    OBVIOUS
  <1>7. F!Padded(n, 1) \in Seq(F!Char)
    BY <1>6, PaddedTyped
  <1>8. F!Digits(121) \o F!Padded(n, 1) \o F!FlattenSeq(e) \in Seq(F!Char)
    BY <1>5, <1>6, <1>7, ListTyped, Zenon
  <1> QED BY <1>4, <1>8

LEMMA QuestionTyped ==
    ASSUME NEW question \in TextLengths \cup {0}, NEW first \in AnswerLengths,
           NEW other \in AnswerLengths, question = 0 \/ first <= 4
    PROVE  F!Response118(question, <<first, other, other, other>>) \in Seq(F!Char)
  <1> DEFINE answers == <<first, other, other, other>>
  <1>1. first \in Nat /\ other \in Nat
    BY LengthsAre
  <1>2. /\ answers[1] = first
        /\ \A j \in 1..4 : answers[j] \in Nat
    BY <1>1
  <1> HIDE DEF answers
  <1>3. ASSUME question = 0 PROVE F!Response118(question, answers) \in Seq(F!Char)
    <2>1. 1180 \in Nat
      OBVIOUS
    <2>2. F!Digits(1180) \in Seq(F!Char)
      BY <2>1, DigitsAreChars
    <2> QED BY <1>3, <2>2 DEF F!Response118
  <1>4. ASSUME question # 0 PROVE F!Response118(question, answers) \in Seq(F!Char)
    <2> DEFINE e == [j \in 1..first |-> F!Sized(answers[j], 3)]
    <2>1. \A j \in 1..first : e[j] \in Seq(F!Char)
      <3> SUFFICES ASSUME NEW j \in 1..first PROVE F!Sized(answers[j], 3) \in Seq(F!Char)
        OBVIOUS
      <3> DEFINE m == answers[j]
      <3>1. m \in Nat /\ 3 \in Nat
        BY <1>1, <1>2, <1>4
      <3> HIDE DEF m
      <3>2. F!Sized(m, 3) \in Seq(F!Char)
        BY <3>1, SizedTyped
      <3> QED BY <3>2 DEF m
    <2>2. e = [j \in 1..first |-> e[j]]
      OBVIOUS
    <2>3. F!Response118(question, answers) = F!Digits(118) \o F!Sized(question, 3) \o F!FlattenSeq(e)
      BY <1>2, <1>4, ZenonT(60) DEF F!Response118
    <2> HIDE DEF e
    <2>4. e \in Seq(Seq(F!Char))
      BY <1>1, <2>1, <2>2, MadeOf
    <2>5. question \in Nat /\ 3 \in Nat /\ 118 \in Nat
      BY <1>4, LengthsAre
    <2>6. F!Sized(question, 3) \in Seq(F!Char)
      BY <2>5, SizedTyped
    <2>7. F!Digits(118) \o F!Sized(question, 3) \o F!FlattenSeq(e) \in Seq(F!Char)
      BY <2>4, <2>5, <2>6, ListTyped, Zenon
    <2> QED BY <2>3, <2>7
  <1>5. F!Response118(question, answers) \in Seq(F!Char)
    BY <1>3, <1>4
  <1> QED BY <1>5 DEF answers

LEMMA NoneTyped == F!Response124(<<>>) \in Seq(F!Char)
  <1> DEFINE top == <<>>
             s == [j \in DOMAIN top |-> F!Sized(top[j].name, 2) \o F!Padded(top[j].points, 6)]
  <1>1. F!Response124(top) = F!Digits(124) \o F!FlattenSeq(s)
    BY Zenon DEF F!Response124
  <1>0. DOMAIN top = 1..0
    OBVIOUS
  <1> HIDE DEF top
  <1>2. s \in Seq(Seq(F!Char))
    <2>1. s = [j \in 1..0 |-> F!Sized(top[j].name, 2) \o F!Padded(top[j].points, 6)]
      BY <1>0
    <2>2. s = [j \in 1..0 |-> s[j]]
      BY <2>1
    <2>3. \A j \in 1..0 : s[j] \in Seq(F!Char)
      OBVIOUS
    <2>4. 0 \in Nat
      OBVIOUS
    <2> HIDE DEF s
    <2> QED BY <2>2, <2>3, <2>4, MadeOf
  <1>3. 124 \in Nat
    OBVIOUS
  <1> DEFINE a == F!Digits(124)
             b == F!FlattenSeq(s)
  <1>4. a \in Seq(F!Char) /\ b \in Seq(F!Char)
    BY <1>2, <1>3, DigitsAreChars, FlattenTyped
  <1> HIDE DEF a, b
  <1>5. a \o b \in Seq(F!Char)
    BY <1>4, TwoTyped
  <1>6. F!Response124(top) \in Seq(F!Char)
    BY <1>1, <1>5 DEF a, b
  <1> QED BY <1>6 DEF top
-----------------------------------------------------------------------------
(* Each action keeps the invariant. *)

\* A reply that lists no room.
LEMMA SendPlainKeeps ==
    ASSUME RepliesInv, NEW bytes \in Seq(F!Char), NEW fine \in BOOLEAN,
           F!SendData(bytes, <<>>, fine), fine => Splits(bytes)
    PROVE  RepliesInv'
  <1> DEFINE listed == <<>>
  <1>1. listed \in Seq(RoomIds)
    OBVIOUS
  <1>2. ListedIn([bytes |-> bytes, rooms |-> listed])
    BY DEF ListedIn
  <1>3. fine => Splits(bytes) /\ ListedIn([bytes |-> bytes, rooms |-> listed])
    BY <1>2
  <1>4. F!SendData(bytes, listed, fine)
    OBVIOUS
  <1> HIDE DEF listed
  <1> QED BY <1>1, <1>3, <1>4, SendKeeps

\* The senders.
LEMMA SendStatusKeeps == RepliesInv /\ F!SendStatus => RepliesInv'
  <1> SUFFICES ASSUME RepliesInv, F!SendStatus PROVE RepliesInv'
    OBVIOUS
  <1>0. PICK code \in {102, 104, 114, 120}, status \in 0..1 :
            F!SendData(F!Response(code, status), <<>>, TRUE)
    BY Zenon DEF F!SendStatus
  <1> DEFINE b == F!Response(code, status)
  <1>1. Splits(b)
    BY StatusSplits
  <1>2. b \in Seq(F!Char)
    BY <1>1 DEF Splits
  <1>3. F!SendData(b, <<>>, TRUE)
    BY <1>0
  <1> HIDE DEF b
  <1> QED BY <1>1, <1>2, <1>3, SendPlainKeeps

LEMMA SendJoinedKeeps == RepliesInv /\ F!SendJoined => RepliesInv'
  <1> SUFFICES ASSUME RepliesInv, NEW status \in 0..2, NEW n \in Counts,
                      F!SendData(F!Response110(status, n, n), <<>>, TRUE)
               PROVE  RepliesInv'
    BY DEF F!SendJoined
  <1> DEFINE b == F!Response110(status, n, n)
  <1>0. n \in 0..99
    BY WireAssumption DEF F!FramingAssumption
  <1>1. Splits(b)
    BY <1>0, JoinedSplits
  <1>2. b \in Seq(F!Char)
    BY <1>1 DEF Splits
  <1>3. F!SendData(b, <<>>, TRUE)
    OBVIOUS
  <1> HIDE DEF b
  <1> QED BY <1>1, <1>2, <1>3, SendPlainKeeps

LEMMA SendLeftKeeps == RepliesInv /\ F!SendLeft => RepliesInv'
  <1> SUFFICES ASSUME RepliesInv, NEW success \in BOOLEAN,
                      F!SendData(F!Response112(success), <<>>, TRUE)
               PROVE  RepliesInv'
    BY DEF F!SendLeft
  <1> DEFINE b == F!Response112(success)
  <1>1. Splits(b)
    BY LeftSplits
  <1>2. b \in Seq(F!Char)
    BY <1>1 DEF Splits
  <1>3. F!SendData(b, <<>>, TRUE)
    OBVIOUS
  <1> HIDE DEF b
  <1> QED BY <1>1, <1>2, <1>3, SendPlainKeeps

LEMMA SendClosedKeeps == RepliesInv /\ F!SendClosed => RepliesInv'
  <1> SUFFICES ASSUME RepliesInv, NEW id \in RoomIds, F!SendData(F!Text(id), <<>>, FALSE)
               PROVE  RepliesInv'
    BY DEF F!SendClosed
  <1> DEFINE b == F!Text(id)
  <1>1. id \in Int
    BY WireAssumption DEF F!FramingAssumption
  <1>2. b \in Seq(F!Char)
    BY <1>1, TextIs
  <1>3. F!SendData(b, <<>>, FALSE)
    OBVIOUS
  <1> HIDE DEF b
  <1> QED BY <1>2, <1>3, SendPlainKeeps

LEMMA SendStatisticsKeeps == RepliesInv /\ F!SendStatistics => RepliesInv'
  <1> SUFFICES ASSUME RepliesInv, NEW games \in 0..2,
                      F!SendData(F!Response126(<<games, 1, 1, 1, 2>>), <<>>, TRUE)
               PROVE  RepliesInv'
    BY DEF F!SendStatistics
  <1> DEFINE b == F!Response126(<<games, 1, 1, 1, 2>>)
  <1>1. Splits(b)
    BY StatisticsSplits
  <1>2. b \in Seq(F!Char)
    BY <1>1 DEF Splits
  <1>3. F!SendData(b, <<>>, TRUE)
    OBVIOUS
  <1> HIDE DEF b
  <1> QED BY <1>1, <1>2, <1>3, SendPlainKeeps

LEMMA SendBestKeeps == RepliesInv /\ F!SendBest => RepliesInv'
  <1>1. ASSUME RepliesInv, NEW p \in F!Player, NEW r \in F!Player,
               F!SendData(F!Response124(<<p, r, [name |-> 0, points |-> 0]>>), <<>>, TRUE)
        PROVE  RepliesInv'
    <2> DEFINE b == F!Response124(<<p, r, [name |-> 0, points |-> 0]>>)
    <2>1. Splits(b)
      BY BestSplits
    <2>2. b \in Seq(F!Char)
      BY <2>1 DEF Splits
    <2>3. F!SendData(b, <<>>, TRUE)
      BY <1>1
    <2> HIDE DEF b
    <2> QED BY <1>1, <2>1, <2>2, <2>3, SendPlainKeeps
  <1>2. ASSUME RepliesInv, F!SendData(F!Response124(<<>>), <<>>, FALSE) PROVE RepliesInv'
    <2> DEFINE b == F!Response124(<<>>)
    <2>1. b \in Seq(F!Char)
      BY NoneTyped
    <2>2. F!SendData(b, <<>>, FALSE)
      BY <1>2
    <2> HIDE DEF b
    <2> QED BY <1>2, <2>1, <2>2, SendPlainKeeps
  <1> QED BY <1>1, <1>2, Zenon DEF F!SendBest

LEMMA SendUsersKeeps == RepliesInv /\ F!SendUsers => RepliesInv'
  <1> SUFFICES ASSUME RepliesInv, F!SendUsers PROVE RepliesInv'
    OBVIOUS
  <1>l. PICK names \in F!Lists(TextLengths) :
            F!SendData(F!Response108(names), <<>>, Len(names) \in 1..999)
    BY Zenon DEF F!SendUsers
  <1>n. PICK n \in 0..MaxList : names \in [1..n -> TextLengths]
    BY Zenon DEF F!Lists
  <1>1. n \in Nat /\ Len(names) = n
    BY <1>n, WireAssumption DEF F!FramingAssumption
  <1> DEFINE b == F!Response108(names)
             fine == Len(names) \in 1..999
  <1>2. b \in Seq(F!Char)
    BY <1>n, <1>1, UsersTyped
  <1>3. F!SendData(b, <<>>, fine)
    BY <1>l, Zenon
  <1>4. ASSUME fine PROVE Splits(b)
    <2>1. n >= 1 /\ n <= 999
      BY <1>1, <1>4
    <2> QED BY <1>n, <1>1, <2>1, UsersSplit
  <1>5. fine \in BOOLEAN
    BY <1>1
  <1> HIDE DEF b, fine
  <1> QED BY <1>2, <1>3, <1>4, <1>5, SendPlainKeeps

LEMMA SendFinishedKeeps == RepliesInv /\ F!SendFinished => RepliesInv'
  <1> SUFFICES ASSUME RepliesInv, F!SendFinished PROVE RepliesInv'
    OBVIOUS
  <1>l. PICK players \in F!Lists(F!Player) :
            F!SendData(F!Response121(players), <<>>, Len(players) <= 9)
    BY Zenon DEF F!SendFinished
  <1>n. PICK n \in 0..MaxList : players \in [1..n -> F!Player]
    BY Zenon DEF F!Lists
  <1> DEFINE b == F!Response121(players)
             fine == n <= 9
  <1>1. n \in Nat /\ Len(players) = n
    BY <1>n, WireAssumption DEF F!FramingAssumption
  <1>2. b \in Seq(F!Char)
    BY <1>n, <1>1, FinishedTyped
  <1>3. F!SendData(b, <<>>, fine)
    BY <1>l, <1>1
  <1>4. ASSUME fine PROVE Splits(b)
    <2>1. n <= 9
      BY <1>4
    <2> QED BY <1>n, <1>1, <2>1, FinishedSplits
  <1>5. fine \in BOOLEAN
    BY <1>1
  <1> HIDE DEF b, fine
  <1> QED BY <1>2, <1>3, <1>4, <1>5, SendPlainKeeps

LEMMA SendRoomsKeeps == RepliesInv /\ F!SendRooms => RepliesInv'
  <1> SUFFICES ASSUME RepliesInv, F!SendRooms PROVE RepliesInv'
    OBVIOUS
  <1>l. PICK rooms \in F!Lists(F!Room) :
            F!SendData(F!Response106(rooms), [j \in DOMAIN rooms |-> rooms[j].id],
                       F!FitTheirWidths(rooms))
    BY Zenon DEF F!SendRooms
  <1>n. PICK n \in 0..MaxList : rooms \in [1..n -> F!Room]
    BY Zenon DEF F!Lists
  <1> DEFINE b == F!Response106(rooms)
             listed == [j \in DOMAIN rooms |-> rooms[j].id]
             fine == F!FitTheirWidths(rooms)
  <1>1. n \in Nat /\ Len(rooms) = n
    BY <1>n, WireAssumption DEF F!FramingAssumption
  <1>2. b \in Seq(F!Char) /\ listed \in Seq(RoomIds)
    BY <1>n, <1>1, RoomsTyped
  <1>3. F!SendData(b, listed, fine)
    BY <1>l, Zenon
  <1>4. ASSUME fine PROVE Splits(b) /\ ListedIn([bytes |-> b, rooms |-> listed])
    <2>0. n <= 9999
      BY <1>1, <1>4 DEF F!FitTheirWidths
    <2>1. \A j \in DOMAIN rooms : Len(F!Text(rooms[j].id)) <= 4
      BY <1>4 DEF F!FitTheirWidths
    <2> HIDE DEF b, listed, fine
    <2>2. Fits(rooms)
      BY <1>n, <1>1, <2>0, <2>1, RoomsFit
    <2> USE DEF b, listed
    <2>3. Splits(b)
      BY <2>2, RoomsSplit
    <2> DEFINE m == [bytes |-> b, rooms |-> listed]
    <2>4. m.bytes = F!Response106(rooms) /\ m.rooms = [j \in DOMAIN rooms |-> rooms[j].id]
      OBVIOUS
    <2> HIDE DEF m
    <2>5. ListedIn(m)
      BY <2>2, <2>4, Zenon DEF ListedIn
    <2> QED BY <2>3, <2>5 DEF m
  <1>5. fine \in BOOLEAN
    BY <1>1 DEF F!FitTheirWidths
  <1> HIDE DEF b, listed, fine
  <1> QED BY <1>2, <1>3, <1>4, <1>5, SendKeeps

\* A step that leaves everything alone except whether the process is up.
LEMMA FrameKeeps ==
    ASSUME RepliesInv, down' \in BOOLEAN, said' = said, clean' = clean, stream' = stream,
           heard' = heard, asked' = asked
    PROVE  RepliesInv'
  <1>1. F!TypeOK'
    BY DEF RepliesInv, F!TypeOK
  <1>2. Pending' = Pending
    BY DEF Pending
  <1>3. clean' => Understood'
    BY <1>2 DEF RepliesInv, Understood
  <1>4. F!ListedRoomIsFound'
    BY DEF RepliesInv, F!ListedRoomIsFound
  <1> QED BY <1>1, <1>3, <1>4 DEF RepliesInv

\* A question may end the process.
LEMMA SendQuestionKeeps == RepliesInv /\ F!SendQuestion => RepliesInv'
  <1> SUFFICES ASSUME RepliesInv, F!SendQuestion PROVE RepliesInv'
    OBVIOUS
  <1>0. PICK question \in TextLengths \cup {0}, first \in AnswerLengths, other \in AnswerLengths :
            \/ /\ question = 0 \/ first <= 4
               /\ F!SendData(F!Response118(question, <<first, other, other, other>>), <<>>,
                             question # 0 /\ first = 4 /\ other <= 999)
            \/ /\ question # 0
               /\ first > 4
               /\ ~down
               /\ down' = TRUE
               /\ UNCHANGED <<said, clean, stream, heard, asked>>
    BY Zenon DEF F!SendQuestion
  <1> DEFINE b == F!Response118(question, <<first, other, other, other>>)
             fine == question # 0 /\ first = 4 /\ other <= 999
  <1>1. ASSUME question = 0 \/ first <= 4, F!SendData(b, <<>>, fine) PROVE RepliesInv'
    <2>1. b \in Seq(F!Char)
      BY <1>1, QuestionTyped
    <2>2. ASSUME fine PROVE Splits(b)
      <3>1. question \in TextLengths /\ other <= 999 /\ first = 4
        BY <2>2
      <3>2. Splits(F!Response118(question, <<4, other, other, other>>))
        BY <3>1, QuestionSplits
      <3> QED BY <3>1, <3>2
    <2>3. fine \in BOOLEAN
      BY LengthsAre
    <2>4. F!SendData(b, <<>>, fine)
      BY <1>1
    <2> HIDE DEF b, fine
    <2> QED BY <2>1, <2>2, <2>3, <2>4, SendPlainKeeps
  <1>2. ASSUME down' = TRUE, UNCHANGED <<said, clean, stream, heard, asked>> PROVE RepliesInv'
    BY <1>2, FrameKeeps
  <1> QED BY <1>0, <1>1, <1>2

\* The parts of a concatenation.
LEMMA ConcatParts ==
    ASSUME NEW C, NEW a \in Seq(C), NEW b \in Seq(C)
    PROVE  /\ SubSeq(a \o b, 1, Len(a)) = a
           /\ SubSeq(a \o b, Len(a) + 1, Len(a \o b)) = b
  <1> DEFINE q == a \o b
             n == Len(a)
             m == Len(b)
  <1>1. /\ q \in Seq(C) /\ Len(q) = n + m /\ n \in Nat /\ m \in Nat
        /\ \A j \in 1..n : q[j] = a[j]
        /\ \A j \in 1..m : q[n + j] = b[j]
    BY ConcatIs
  <1> HIDE DEF q
  <1>2. SubSeq(q, 1, n) = a
    <2> DEFINE s == SubSeq(q, 1, n)
    <2>1. s \in Seq(C) /\ Len(s) = n /\ \A j \in 1..n : s[j] = q[j]
      BY <1>1
    <2> HIDE DEF s
    <2>2. \A j \in 1..Len(s) : s[j] = a[j]
      BY <1>1, <2>1
    <2> QED BY <2>1, <2>2, SameSeq DEF s
  <1>3. SubSeq(q, n + 1, Len(q)) = b
    <2> DEFINE s == SubSeq(q, n + 1, Len(q))
    <2>1. s \in Seq(C) /\ Len(s) = m /\ \A j \in 1..m : s[j] = q[n + j]
      BY <1>1
    <2> HIDE DEF s, n
    <2>2. \A j \in 1..Len(s) : s[j] = b[j]
      BY <1>1, <2>1
    <2> QED BY <2>1, <2>2, SameSeq DEF s
  <1> QED BY <1>2, <1>3 DEF q, n

\* What the client reads next is the first reply it has not heard.
LEMMA FirstPending ==
    ASSUME F!TypeOK, Understood, Len(heard) < Len(said)
    PROVE  /\ Pending \in Seq(Seq(F!Char)) /\ Pending # <<>>
           /\ Pending[1] = said[Len(heard) + 1].bytes
           /\ Pending[1] \in Seq(F!Char)
           /\ F!FlattenSeq(Tail(Pending)) \in Seq(F!Char)
           /\ stream = Pending[1] \o F!FlattenSeq(Tail(Pending))
           /\ F!Extent(stream) = Len(Pending[1])
  <1>1. Len(said) \in Nat /\ Len(heard) \in Nat /\ Len(heard) <= Len(said)
    BY FramingTypes DEF Understood
  <1> DEFINE k == Len(said) - Len(heard)
  <1>2. k \in Nat /\ 1 \in 1..k /\ Len(heard) + 1 \in 1..Len(said) /\ k > 0
    BY <1>1
  <1>3. /\ Pending \in Seq(Seq(F!Char)) /\ Len(Pending) = k
        /\ Pending[1] = said[Len(heard) + 1].bytes
    BY <1>1, <1>2, PendingIs
  <1> HIDE DEF k
  <1>4. Pending # <<>>
    BY <1>2, <1>3
  <1>5. /\ Pending[1] \in Seq(F!Char)
        /\ F!FlattenSeq(Tail(Pending)) \in Seq(F!Char)
        /\ F!FlattenSeq(Pending) = Pending[1] \o F!FlattenSeq(Tail(Pending))
    BY <1>3, <1>4, FlattenHead
  <1>6. stream = Pending[1] \o F!FlattenSeq(Tail(Pending))
    BY <1>5 DEF Understood
  <1>7. Splits(Pending[1])
    BY <1>2, <1>3 DEF Understood
  <1>8. F!Extent(stream) = Len(Pending[1])
    BY <1>5, <1>6, <1>7 DEF Splits
  <1> QED BY <1>3, <1>4, <1>5, <1>6, <1>8

\* The client takes the first reply and leaves the others.
LEMMA HearKeeps == RepliesInv /\ F!Hear => RepliesInv'
  <1> SUFFICES ASSUME RepliesInv, F!Hear PROVE RepliesInv'
    OBVIOUS
  <1> DEFINE k == F!Extent(stream)
             x == SubSeq(stream, 1, k)
             y == SubSeq(stream, k + 1, Len(stream))
  <1>0. F!TypeOK /\ (clean => Understood) /\ F!ListedRoomIsFound
    BY DEF RepliesInv
  <1>1. /\ k \in 1..Len(stream)
        /\ heard' = Append(heard, x)
        /\ stream' = y
        /\ said' = said /\ clean' = clean /\ asked' = asked /\ down' = down
    BY DEF F!Hear
  <1>2. stream \in Seq(F!Char) /\ Len(stream) \in Nat /\ k \in Nat /\ k <= Len(stream) /\ k >= 1
    <2>1. stream \in Seq(F!Char)
      BY <1>0, FramingTypes
    <2>2. Len(stream) \in Nat
      BY <2>1
    <2> HIDE DEF k
    <2> QED BY <1>1, <2>1, <2>2
  <1>3. x \in Seq(F!Char) /\ y \in Seq(F!Char)
    <2> HIDE DEF k
    <2> QED BY <1>2
  <1>4. /\ heard' \in Seq(Seq(F!Char)) /\ Len(heard') = Len(heard) + 1
        /\ \A j \in 1..Len(heard) : heard'[j] = heard[j]
        /\ heard'[Len(heard) + 1] = x
    <2> DEFINE D == Seq(F!Char)
    <2>1. heard \in Seq(D) /\ x \in D
      BY <1>0, <1>3, FramingTypes
    <2> HIDE DEF D, x
    <2>2. /\ heard' \in Seq(D) /\ Len(heard') = Len(heard) + 1
          /\ \A j \in 1..Len(heard) : heard'[j] = heard[j]
          /\ heard'[Len(heard) + 1] = x
      BY <1>1, <2>1
    <2> QED BY <2>2, Zenon DEF D
  <1>5. F!TypeOK'
    <2>1. /\ said' \in Seq([bytes : Seq(F!Char), rooms : Seq(RoomIds)])
          /\ clean' \in BOOLEAN /\ down' \in BOOLEAN
          /\ asked' \in [meant : RoomIds \cup {0}, got : SUBSET Int]
      BY <1>0, <1>1 DEF F!TypeOK
    <2>2. stream' \in Seq(F!Char)
      BY <1>1, <1>3
    <2> QED BY <1>4, <2>1, <2>2 DEF F!TypeOK
  <1>6. F!ListedRoomIsFound'
    BY <1>0, <1>1 DEF F!ListedRoomIsFound
  <1>7. ASSUME clean' PROVE Understood'
    <2>1. Understood
      BY <1>0, <1>1, <1>7
    <2>2. Len(said) \in Nat /\ Len(heard) \in Nat /\ Len(heard) <= Len(said)
      BY <1>0, <2>1, FramingTypes DEF Understood
    <2>3. Len(heard) < Len(said)
      <3> SUFFICES ASSUME Len(heard) = Len(said) PROVE FALSE
        BY <2>2
      <3>1. Pending \in Seq(Seq(F!Char)) /\ Len(Pending) = 0
        BY <1>0, <2>2, PendingIs
      <3>2. Pending = <<>>
        BY <3>1
      <3>3. stream = <<>>
        BY <2>1, <3>2, FlattenEmpty DEF Understood
      <3>4. Len(stream) = 0
        BY <3>3
      <3> QED BY <1>2, <3>4
    <2> DEFINE a == Pending[1]
               b == F!FlattenSeq(Tail(Pending))
    <2>4. /\ Pending \in Seq(Seq(F!Char)) /\ Pending # <<>>
          /\ a = said[Len(heard) + 1].bytes
          /\ a \in Seq(F!Char) /\ b \in Seq(F!Char)
          /\ stream = a \o b /\ k = Len(a)
      BY <1>0, <2>1, <2>3, FirstPending
    <2>5. x = a /\ y = b
      <3> HIDE DEF a, b, k
      <3>1. SubSeq(a \o b, 1, Len(a)) = a /\ SubSeq(a \o b, Len(a) + 1, Len(a \o b)) = b
        BY <2>4, ConcatParts
      <3> QED BY <2>4, <3>1
    <2>6. \A j \in 1..Len(said') : Splits(said'[j].bytes) /\ ListedIn(said'[j])
      BY <1>1, <2>1 DEF Understood
    <2>7. Len(heard') <= Len(said')
      BY <1>1, <1>4, <2>2, <2>3
    <2>8. \A j \in 1..Len(heard') : heard'[j] = said'[j].bytes
      <3> SUFFICES ASSUME NEW j \in 1..Len(heard') PROVE heard'[j] = said'[j].bytes
        OBVIOUS
      <3>1. CASE j = Len(heard) + 1
        BY <1>1, <1>4, <2>4, <2>5, <3>1
      <3>2. CASE j # Len(heard) + 1
        <4>1. j \in 1..Len(heard)
          BY <1>4, <2>2, <3>2
        <4>2. heard'[j] = heard[j]
          BY <1>4, <4>1
        <4>3. heard[j] = said[j].bytes
          BY <2>1, <4>1 DEF Understood
        <4> QED BY <1>1, <4>2, <4>3
      <3> QED BY <3>1, <3>2
    <2>9. Pending' = Tail(Pending)
      <3> DEFINE h == Len(heard)
                 n == Len(said) - h
                 m == Len(said) - (h + 1)
                 D == Seq(F!Char)
      <3>1. h \in Nat /\ n \in Nat /\ m \in Nat /\ n = m + 1
        BY <2>2, <2>3
      <3>2. /\ Pending \in Seq(D) /\ Len(Pending) = n
            /\ \A j \in 1..n : Pending[j] = said[h + j].bytes
        BY <1>0, <2>2, PendingIs
      <3>3. Pending' = [j \in 1..m |-> said[(h + 1) + j].bytes]
        <4>1. Pending' = [j \in 1..(Len(said') - Len(heard')) |-> said'[Len(heard') + j].bytes]
          BY DEF Pending
        <4>2. Len(heard') = h + 1 /\ said' = said
          BY <1>1, <1>4
        <4> QED BY <4>1, <4>2
      <3> DEFINE z == Pending'
                 t == Tail(Pending)
      <3> HIDE DEF D, n, m, h
      <3>4. t \in Seq(D) /\ Len(t) = m /\ \A j \in 1..m : t[j] = Pending[j + 1]
        BY <2>4, <3>1, <3>2
      <3>5. z = [j \in 1..m |-> said[(h + 1) + j].bytes]
        BY <3>3
      <3> HIDE DEF z, t
      <3>6. ASSUME NEW j \in 1..m PROVE z[j] = t[j]
        <4>1. z[j] = said[(h + 1) + j].bytes
          BY <3>5
        <4>2. j + 1 \in 1..n /\ (h + 1) + j = h + (j + 1)
          BY <3>1
        <4>3. Pending[j + 1] = said[h + (j + 1)].bytes
          BY <3>2, <4>2
        <4> QED BY <3>4, <4>1, <4>2, <4>3
      <3>7. z = [j \in 1..m |-> t[j]]
        <4>1. z = [j \in 1..m |-> z[j]]
          BY <3>5
        <4> QED BY <3>6, <4>1
      <3>8. t = [j \in 1..m |-> t[j]]
        BY <3>1, <3>4
      <3>9. z = t
        BY <3>7, <3>8
      <3> QED BY <3>9 DEF z, t
    <2>10. stream' = F!FlattenSeq(Pending')
      BY <1>1, <2>5, <2>9
    <2> QED BY <2>6, <2>7, <2>8, <2>10 DEF Understood
  <1> QED BY <1>5, <1>6, <1>7 DEF RepliesInv

\* The number comes from the list of a reply that was heard.
LEMMA AskForRoomKeeps == RepliesInv /\ F!AskForRoom => RepliesInv'
  <1> SUFFICES ASSUME RepliesInv, F!AskForRoom PROVE RepliesInv'
    OBVIOUS
  <1>0. F!TypeOK /\ (clean => Understood) /\ F!ListedRoomIsFound
    BY DEF RepliesInv
  <1>1. clean /\ said' = said /\ clean' = clean /\ stream' = stream /\ heard' = heard /\ down' = down
    BY DEF F!AskForRoom
  <1>2. PICK n \in DOMAIN heard : \E j \in DOMAIN said[n].rooms :
             LET p == F!EntriesEnd(heard[n], 7, j - 1, 4, 2, 0)
             IN asked' = [meant |-> said[n].rooms[j],
                          got |-> F!Stoi(SubSeq(heard[n], p + 1, p + 4))]
    BY DEF F!AskForRoom
  <1>3. PICK j \in DOMAIN said[n].rooms :
             LET p == F!EntriesEnd(heard[n], 7, j - 1, 4, 2, 0)
             IN asked' = [meant |-> said[n].rooms[j],
                          got |-> F!Stoi(SubSeq(heard[n], p + 1, p + 4))]
    BY <1>2
  <1> DEFINE q == heard[n]
             p == F!EntriesEnd(q, 7, j - 1, 4, 2, 0)
             got == F!Stoi(SubSeq(q, p + 1, p + 4))
             meant == said[n].rooms[j]
  <1>4. asked' = [meant |-> meant, got |-> got]
    BY <1>3
  <1>5. Understood
    BY <1>0, <1>1
  <1>6. n \in 1..Len(heard) /\ n \in 1..Len(said)
    <2>1. /\ heard \in Seq(Seq(F!Char)) /\ Len(heard) \in Nat /\ Len(said) \in Nat
          /\ Len(heard) <= Len(said)
      BY <1>0, <1>5, FramingTypes DEF Understood
    <2> DEFINE D == Seq(F!Char)
    <2>2. heard \in Seq(D)
      BY <2>1
    <2> HIDE DEF D
    <2>3. DOMAIN heard = 1..Len(heard)
      BY <2>2
    <2> QED BY <2>1, <2>3
  <1>7. q = said[n].bytes /\ ListedIn(said[n]) /\ said[n] \in Sent
    BY <1>0, <1>5, <1>6, FramingTypes DEF Understood
  <1>8. said[n].rooms \in Seq(RoomIds)
    BY <1>7 DEF Sent
  <1>9. said[n].rooms # <<>>
    <2>1. DOMAIN <<>> = {}
      OBVIOUS
    <2> QED BY <1>3, <2>1
  <1>10. PICK rooms : /\ Fits(rooms)
                      /\ said[n].bytes = F!Response106(rooms)
                      /\ said[n].rooms = [l \in DOMAIN rooms |-> rooms[l].id]
    BY <1>7, <1>9, Zenon DEF ListedIn
  <1>11. j \in 1..Len(rooms) /\ meant = rooms[j].id
    <2> DEFINE E == [id : Int, name : 1..99]
    <2>1. rooms \in Seq(E)
      BY <1>10 DEF Fits
    <2> HIDE DEF E
    <2>2. DOMAIN rooms = 1..Len(rooms)
      BY <2>1
    <2>3. j \in DOMAIN rooms
      BY <1>10
    <2> QED BY <1>10, <2>2, <2>3
  <1>12. meant \in RoomIds
    BY <1>3, <1>8
  <1>13. q = F!Response106(rooms)
    BY <1>7, <1>10
  <1>14. Fits(rooms) /\ p = F!EntriesEnd(q, 7, j - 1, 4, 2, 0)
    BY <1>10
  <1> HIDE DEF q, p
  <1>15. SubSeq(q, p + 1, p + 4) = F!Padded(rooms[j].id, 4)
    BY <1>11, <1>13, <1>14, AskedField
  <1>16. got = F!Stoi(F!Padded(rooms[j].id, 4))
    BY <1>15
  <1>17. /\ got \in SUBSET Int
         /\ rooms[j].id >= 0 \/ rooms[j].id <= -100 => got = {rooms[j].id}
    BY <1>11, <1>14, <1>16, AskedIsInt
  <1> HIDE DEF got, meant
  <1>18. asked' \in [meant : RoomIds \cup {0}, got : SUBSET Int]
    <2>1. meant \in RoomIds \cup {0}
      BY <1>12
    <2> QED BY <1>4, <1>17, <2>1, Zenon
  <1>19. F!TypeOK'
    BY <1>0, <1>1, <1>18 DEF F!TypeOK
  <1>20. F!ListedRoomIsFound'
    <2>1. asked'.meant = meant /\ asked'.got = got
      BY <1>4
    <2> QED BY <1>11, <1>17, <2>1 DEF F!ListedRoomIsFound
  <1>21. Understood'
    <2>1. Pending' = Pending
      BY <1>1 DEF Pending
    <2> QED BY <1>1, <1>5, <2>1 DEF Understood
  <1> QED BY <1>19, <1>20, <1>21 DEF RepliesInv
-----------------------------------------------------------------------------
(* The theorems. *)

\* Every step.
LEMMA RepliesStep == RepliesInv /\ [F!Next]_(F!vars) => RepliesInv'
  <1> SUFFICES ASSUME RepliesInv, [F!Next]_(F!vars) PROVE RepliesInv'
    OBVIOUS
  <1>1. ASSUME F!Next PROVE RepliesInv'
    BY <1>1, SendStatusKeeps, SendRoomsKeeps, SendUsersKeeps, SendJoinedKeeps, SendLeftKeeps, SendClosedKeeps,
       SendQuestionKeeps, SendFinishedKeeps, SendBestKeeps, SendStatisticsKeeps, HearKeeps, AskForRoomKeeps, Zenon DEF F!Next
  <1>2. ASSUME UNCHANGED F!vars PROVE RepliesInv'
    <2>1. /\ said' = said /\ clean' = clean /\ stream' = stream /\ heard' = heard
          /\ asked' = asked /\ down' = down
      BY <1>2 DEF F!vars
    <2>2. down' \in BOOLEAN
      BY <2>1 DEF RepliesInv, F!TypeOK
    <2> QED BY <2>1, <2>2, FrameKeeps
  <1> QED BY <1>1, <1>2

\* The replies that were sent are those heard and those that are not.
Bytes == [j \in DOMAIN said |-> said[j].bytes]

LEMMA BytesAre ==
    ASSUME F!TypeOK, Understood
    PROVE  /\ Bytes \in Seq(Seq(F!Char)) /\ Len(Bytes) = Len(said)
           /\ \A j \in 1..Len(said) : Bytes[j] = said[j].bytes
           /\ \A j \in 1..Len(heard) : heard[j] = Bytes[j]
           /\ Bytes = heard \o Pending
  <1> DEFINE D == Seq(F!Char)
             n == Len(said)
             h == Len(heard)
             k == n - h
  <1>1. n \in Nat /\ h \in Nat /\ h <= n /\ k \in Nat /\ n = h + k
    BY FramingTypes DEF Understood
  <1>2. \A j \in 1..n : said[j].bytes \in D
    BY FramingTypes
  <1>3. \A j \in 1..h : heard[j] = said[j].bytes
    BY DEF Understood
  <1>4. heard \in Seq(D)
    BY FramingTypes
  <1>5. /\ Pending \in Seq(D) /\ Len(Pending) = k
        /\ \A j \in 1..k : Pending[j] = said[h + j].bytes
    BY <1>1, PendingIs
  <1>6. DOMAIN said = 1..n
    <2>1. said \in Seq(Sent)
      BY FramingTypes
    <2> HIDE DEF Sent
    <2> QED BY <2>1
  <1> DEFINE t == Bytes
             s == heard
             p == Pending
  <1>7. t = [j \in 1..n |-> said[j].bytes]
    BY <1>6 DEF Bytes
  <1>8. s \in Seq(D) /\ Len(s) = h /\ p \in Seq(D) /\ Len(p) = k
    BY <1>4, <1>5
  <1> HIDE DEF D, n, h, k, t, s, p
  <1>9. \A j \in 1..n : t[j] = said[j].bytes
    BY <1>7
  <1>10. t \in Seq(D) /\ Len(t) = n
    <2>1. t = [j \in 1..n |-> t[j]]
      BY <1>7
    <2>2. \A j \in 1..n : t[j] \in D
      BY <1>2, <1>9
    <2>3. [j \in 1..n |-> t[j]] \in Seq(D) /\ Len([j \in 1..n |-> t[j]]) = n
      BY <1>1, <2>2
    <2> QED BY <2>1, <2>3
  <1>11. \A j \in 1..h : s[j] = t[j]
    <2> SUFFICES ASSUME NEW j \in 1..h PROVE s[j] = t[j]
      OBVIOUS
    <2>1. j \in 1..n
      BY <1>1
    <2> QED BY <1>3, <1>9, <2>1 DEF s
  <1>12. t = s \o p
    <2> DEFINE c == s \o p
    <2>1. /\ c \in Seq(D) /\ Len(c) = h + k
          /\ \A j \in 1..h : c[j] = s[j]
          /\ \A j \in 1..k : c[h + j] = p[j]
      <3>1. /\ s \o p \in Seq(D) /\ Len(s \o p) = Len(s) + Len(p)
            /\ \A j \in 1..Len(s) : (s \o p)[j] = s[j]
            /\ \A j \in 1..Len(p) : (s \o p)[Len(s) + j] = p[j]
        BY <1>8
      <3> QED BY <1>8, <3>1
    <2> HIDE DEF c
    <2>2. \A j \in 1..n : t[j] = c[j]
      <3> SUFFICES ASSUME NEW j \in 1..n PROVE t[j] = c[j]
        OBVIOUS
      <3>1. CASE j <= h
        <4>1. j \in 1..h
          BY <1>1, <3>1
        <4> QED BY <1>11, <2>1, <4>1
      <3>2. CASE ~(j <= h)
        <4> DEFINE m == j - h
        <4>1. m \in 1..k /\ j = h + m
          BY <1>1, <3>2
        <4> HIDE DEF m
        <4>2. p[m] = said[h + m].bytes
          BY <1>5, <4>1 DEF p
        <4>3. c[h + m] = p[m]
          BY <2>1, <4>1
        <4> QED BY <1>9, <4>1, <4>2, <4>3
      <3> QED BY <3>1, <3>2
    <2>3. Len(c) = n
      BY <1>1, <2>1
    <2>4. t = c
      BY <1>10, <2>1, <2>2, <2>3, SameSeq
    <2> QED BY <2>4 DEF c
  <1> QED BY <1>9, <1>10, <1>11, <1>12 DEF D, n, h, t, s, p

\* The invariant is strong enough.
LEMMA SplitsIfUnderstood == RepliesInv => F!SplitsAsSent
  <1> SUFFICES ASSUME RepliesInv, clean PROVE
        /\ F!IsPrefix(heard, Bytes)
        /\ heard # Bytes => F!Extent(stream) = Len(Bytes[Len(heard) + 1])
        /\ F!FlattenSeq(heard) \o stream = F!FlattenSeq(Bytes)
    BY Zenon DEF F!SplitsAsSent, Bytes
  <1>1. F!TypeOK /\ Understood
    BY DEF RepliesInv
  <1>2. /\ Len(said) \in Nat /\ Len(heard) \in Nat /\ Len(heard) <= Len(said)
        /\ heard \in Seq(Seq(F!Char))
    BY <1>1, FramingTypes DEF Understood
  <1>3. /\ Bytes \in Seq(Seq(F!Char)) /\ Len(Bytes) = Len(said)
        /\ \A j \in 1..Len(said) : Bytes[j] = said[j].bytes
        /\ \A j \in 1..Len(heard) : heard[j] = Bytes[j]
        /\ Bytes = heard \o Pending
    BY <1>1, BytesAre
  <1>4. F!IsPrefix(heard, Bytes)
    <2> DEFINE D == Seq(F!Char)
               n == Len(heard)
               a == SubSeq(heard, 1, n)
               b == SubSeq(Bytes, 1, n)
    <2>1. heard \in Seq(D) /\ Bytes \in Seq(D) /\ n \in Nat /\ n <= Len(Bytes)
      BY <1>2, <1>3
    <2> HIDE DEF D
    <2>2. a \in Seq(D) /\ Len(a) = n /\ \A j \in 1..n : a[j] = heard[j]
      BY <2>1
    <2>3. b \in Seq(D) /\ Len(b) = n /\ \A j \in 1..n : b[j] = Bytes[j]
      BY <2>1
    <2> HIDE DEF a, b
    <2>4. \A j \in 1..Len(a) : a[j] = b[j]
      BY <1>3, <2>2, <2>3
    <2>5. a = b
      BY <2>2, <2>3, <2>4, SameSeq
    <2> QED BY <1>2, <1>3, <2>5 DEF F!IsPrefix, a, b
  <1>5. ASSUME heard # Bytes PROVE F!Extent(stream) = Len(Bytes[Len(heard) + 1])
    <2>1. Len(heard) < Len(said)
      <3> SUFFICES ASSUME Len(heard) = Len(said) PROVE FALSE
        BY <1>2
      <3> DEFINE D == Seq(F!Char)
      <3>1. heard \in Seq(D) /\ Bytes \in Seq(D) /\ Len(heard) = Len(Bytes)
        BY <1>2, <1>3
      <3> HIDE DEF D
      <3>2. heard = Bytes
        BY <1>3, <3>1, SameSeq
      <3> QED BY <1>5, <3>2
    <2>2. Pending[1] = said[Len(heard) + 1].bytes /\ F!Extent(stream) = Len(Pending[1])
      BY <1>1, <2>1, FirstPending
    <2>3. Len(heard) + 1 \in 1..Len(said)
      BY <1>2, <2>1
    <2>4. Bytes[Len(heard) + 1] = said[Len(heard) + 1].bytes
      BY <1>3, <2>3
    <2> QED BY <2>2, <2>4
  <1>6. F!FlattenSeq(heard) \o stream = F!FlattenSeq(Bytes)
    <2>1. Pending \in Seq(Seq(F!Char))
      BY <1>1, <1>2, PendingIs
    <2>2. F!FlattenSeq(heard \o Pending) = F!FlattenSeq(heard) \o F!FlattenSeq(Pending)
      BY <1>2, <2>1, FlattenConcat
    <2>3. stream = F!FlattenSeq(Pending)
      BY <1>1 DEF Understood
    <2> QED BY <1>3, <2>2, <2>3
  <1> QED BY <1>4, <1>5, <1>6

\* The types of Framing: only characters are sent, and what std::stoi makes of a
\* room number is a number.
THEOREM ReplyTypeCorrect == F!Spec => []F!TypeOK
  <1>1. RepliesInv => F!TypeOK
    BY DEF RepliesInv
  <1> QED BY <1>1, RepliesInit, RepliesStep, PTL DEF F!Spec

\* Until the server has sent a reply that cannot be told apart (a room number of
\* five characters, a list too long for its count, the list of an empty room, ...),
\* a client that takes every field at the width Protocol.cpp pads it to gets the
\* replies that were sent, one by one, and a room number it takes from a list is
\* the number of that room when it comes back.
THEOREM RepliesUnderstood == F!Spec => []RepliesAreUnderstood
  <1>1. RepliesInv => RepliesAreUnderstood
    BY SplitsIfUnderstood DEF RepliesInv, RepliesAreUnderstood
  <1> QED BY <1>1, RepliesInit, RepliesStep, PTL DEF F!Spec

\* The types of the requests, the sign-up and the replies together.
THEOREM WireTypeCorrect == R!Spec /\ Spec /\ F!Spec => []TypesOK
  <1>1. CredentialsAssumption
    BY WireAssumption
  <1>2. R!Spec => []R!TypeOK
    BY RequestTypeCorrect
  <1>3. Spec => []TypeOK
    BY <1>1, SignupTypeCorrect
  <1>4. F!Spec => []F!TypeOK
    BY ReplyTypeCorrect
  <1>5. R!TypeOK /\ TypeOK /\ F!TypeOK => TypesOK
    BY DEF TypesOK
  <1> QED BY <1>2, <1>3, <1>4, <1>5, PTL
=============================================================================
