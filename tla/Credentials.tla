---------------------------- MODULE Credentials ----------------------------
(***************************************************************************)
(* Validator and the sign-up it guards: the two predicates walk the text   *)
(* character by character and collect what they have seen; handleSignup    *)
(* uses both, asks the database whether the name is taken and adds the     *)
(* user.                                                                   *)
(*                                                                         *)
(* Of a character only its class counts.  A definition marked "Slip" is a  *)
(* wrong variant of the one after it; no action uses it.                   *)
(***************************************************************************)
EXTENDS Naturals, Sequences, SequencesExt

CONSTANTS
    Signups,        \* the names and passwords that users sign up with
    None            \* no reply

Class == {"lower", "upper", "digit", "space", "other"}
Letters == {"lower", "upper"}

CredentialsAssumption ==
    /\ Signups \subseteq Seq(Class) \X Seq(Class)
    /\ None \notin 0..4

VARIABLES
    username, password,     \* the parameters of the sign-up
    pc,             \* which walk is under way
    i,              \* its loop variable, from 1
    seen,           \* the classes whose counters or flags are set
    added,          \* the insert of addNewUser has run
    reply           \* the status that was last handed to response104

vars == <<username, password, pc, i, seen, added, reply>>

\* The text that is walked through.
Walked == IF pc = "password" THEN password ELSE username

TypeOK ==
    /\ username \in Seq(Class)
    /\ password \in Seq(Class)
    /\ pc \in {"password", "username", "database", "done"}
    /\ i \in 1..(Len(Walked) + 1)
    /\ seen \subseteq Class
    /\ added \in BOOLEAN
    /\ reply \in {None, 0, 1, 2, 3, 4}

\* handleSignup has been called.
Init ==
    /\ \E s \in Signups : username = s[1] /\ password = s[2]
    /\ pc = "password"
    /\ i = 1
    /\ seen = {}
    /\ added = FALSE
    /\ reply = None
-----------------------------------------------------------------------------
\* The counters and flags after a character of this class.
Counted(class) == seen \cup {class}

\* Slip: the loop variable is also counted up in the body.
CountedTwice == i + 2

\* i++ of both loops.
NextIndex == i + 1

\* One iteration of the loop in isPasswrodValid or isUserNameValid.
Look ==
    /\ pc \in {"password", "username"}
    /\ i <= Len(Walked)
    /\ seen' = Counted(Walked[i])
    /\ i' = NextIndex
    /\ UNCHANGED <<username, password, pc, added, reply>>

\* Slip: the length is not looked at.
PasswordOfAnyLength == {"lower", "upper", "digit"} \subseteq seen /\ "space" \notin seen

\* What isPasswrodValid returns after its loop, which a short password skips.
PasswordValid ==
    /\ Len(password) >= 4
    /\ {"lower", "upper", "digit"} \subseteq seen
    /\ "space" \notin seen

\* What isUserNameValid returns: one character that is no space is enough.
UserNameValid ==
    /\ username # <<>>
    /\ username[1] \in Letters
    /\ seen \ {"space"} # {}

Replied(status) == /\ reply' = status
                   /\ pc' = "done"

\* handleSignup after the walks.
PasswordChecked ==
    /\ pc = "password"
    /\ i > Len(password)
    /\ \/ /\ PasswordValid
          /\ pc' = "username"
          /\ UNCHANGED reply
       \/ /\ ~PasswordValid
          /\ Replied(1)
    /\ i' = 1
    /\ seen' = {}
    /\ UNCHANGED <<username, password, added>>

UserNameChecked ==
    /\ pc = "username"
    /\ i > Len(username)
    /\ \/ /\ UserNameValid
          /\ pc' = "database"
          /\ UNCHANGED reply
       \/ /\ ~UserNameValid
          /\ Replied(3)
    /\ i' = 1
    /\ seen' = {}
    /\ UNCHANGED <<username, password, added>>

\* isUserExist never finds anybody, its statement names a column that does not
\* exist.  What addNewUser returns is not looked at: without quotes around its
\* texts the statement runs for few of them.  When '0' cannot be sent '4' is tried.
AddNewUser ==
    /\ pc = "database"
    /\ added' \in BOOLEAN
    /\ \E status \in {0, 4} : Replied(status)
    /\ UNCHANGED <<username, password, i, seen>>

Next == Look \/ PasswordChecked \/ UserNameChecked \/ AddNewUser

Spec == Init /\ [][Next]_vars
-----------------------------------------------------------------------------
\* Validator.h: "valid password: 4 chars min, we dont have space, min 1
\* number, 1 upper and lower letter".  The counters decide exactly that, at
\* whatever place the characters stand.
PasswordPolicy(p) ==
    /\ Len(p) >= 4
    /\ {"lower", "upper", "digit"} \subseteq ToSet(p)
    /\ "space" \notin ToSet(p)

PasswordsByPolicy ==
    pc # "password" => (reply # 1) = PasswordPolicy(password)

\* Validator.h: "valid username: starting with char, we dont have spaces, !NULL".
NamePolicy(u) ==
    /\ u # <<>>
    /\ Head(u) \in Letters
    /\ "space" \notin ToSet(u)

Accepted == reply \in {0, 4}

\* No name that keeps the policy is refused, wherever its characters stand, and
\* none is let through that is empty or starts with another character.
NamesNotMisjudged ==
    pc = "done" /\ reply # 1 =>
        /\ NamePolicy(username) => Accepted
        /\ Accepted => username # <<>> /\ Head(username) \in Letters

\* Both: which texts a sign-up is refused for, and which are let through.
SignupDecision == PasswordsByPolicy /\ NamesNotMisjudged

\* The comment in full: a name is accepted iff it keeps the policy.  It does not
\* hold: the loop of isUserNameValid looks for one character that is no space,
\* and the first letter is one.
NamesByPolicy == pc = "done" /\ reply # 1 => Accepted = NamePolicy(username)
=============================================================================
