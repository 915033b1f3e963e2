---------------------------- MODULE ModeChanges -----------------------------
(***************************************************************************)
(* What a list of MODE changes makes of a channel.  The handler applies    *)
(* them one after the other, so for each flag, and for "o" for each        *)
(* member, the last change that names it decides.                          *)
(***************************************************************************)
EXTENDS Naturals, Sequences

CONSTANT NoKey      \* the empty string: no channel key

NoLimit == 0

Flags == {"i", "t", "k", "l", "o"}

NewModes == [inviteOnly |-> FALSE, topicRestricted |-> FALSE,
             key |-> NoKey, limit |-> NoLimit]

Concerning(req, flag) == {n \in DOMAIN req : req[n].mode = flag}

Promoting(req, p) == {n \in Concerning(req, "o") : req[n].arg = p}

Latest(S) == CHOOSE n \in S : \A k \in S : k <= n

FlagAfter(req, flag, old) ==
    LET S == Concerning(req, flag)
    IN  IF S = {} THEN old ELSE req[Latest(S)].add

ArgAfter(req, flag, unset, old) ==
    LET S == Concerning(req, flag)
    IN  IF S = {} THEN old
        ELSE IF req[Latest(S)].add THEN req[Latest(S)].arg ELSE unset

ModesAfterMixedUp(req, m) ==
    [inviteOnly |-> FlagAfter(req, "i", m.inviteOnly),
     topicRestricted |-> FlagAfter(req, "t", m.topicRestricted),
     key |-> ArgAfter(req, "l", NoKey, m.key),
     limit |-> ArgAfter(req, "k", NoLimit, m.limit)]

ModesAfter(req, m) ==
    [inviteOnly |-> FlagAfter(req, "i", m.inviteOnly),
     topicRestricted |-> FlagAfter(req, "t", m.topicRestricted),
     key |-> ArgAfter(req, "k", NoKey, m.key),
     limit |-> ArgAfter(req, "l", NoLimit, m.limit)]

OperatorsAfter(req, present, old) ==
    {p \in present :
        LET S == Promoting(req, p)
        IN  IF S = {} THEN p \in old ELSE req[Latest(S)].add}

=============================================================================
