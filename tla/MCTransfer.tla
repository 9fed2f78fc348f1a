------------------------------ MODULE MCTransfer ------------------------------
(***************************************************************************)
(* Two vaults for Transfer: three nodes in the first and one in the        *)
(* second, and room for three more.                                         *)
(***************************************************************************)
EXTENDS Transfer

MCTitleHas(t, q) == q <= t

Pad(f) == [n \in Nodes |-> IF n \in DOMAIN f THEN f[n] ELSE 0]

Version(number, text) == [number |-> number, text |-> text]

\* Texts and locks: an image in the older or in the current version, links that
\* lead out.
Contents ==
    [mixed |->
        [history |-> << <<Version(1, {2, 4})>>, <<Version(1, {Image, 3}), Version(3, {1, 2})>>,
                        <<Version(2, {})>>, <<Version(1, {3})>> >>,
         lock |-> <<Open, HumanLocked, Open, Open>>],
     image |->
        [history |-> << <<Version(1, {3})>>, <<Version(1, {2})>>, <<Version(1, {Image, 1})>>,
                        <<Version(1, {})>> >>,
         lock |-> <<Open, Open, Open, HumanLocked>>]]

\* The last version of each is the current one.
Newest(h) == [n \in DOMAIN h |-> h[n][Len(h[n])].number]

Store(parent, policy, c) ==
    [nodes |-> 1..4, vault |-> [n \in Nodes |-> IF n = 4 THEN 2 ELSE 1],
     parent |-> Pad(parent), policy |-> Pad(policy),
     lock |-> Pad([n \in 1..4 |-> IF policy[n] = Allow THEN c.lock[n] ELSE AiLocked]),
     history |-> [n \in Nodes |-> IF n \in 1..4 THEN c.history[n] ELSE <<>>],
     current |-> Pad(Newest(c.history))]

\* Trees whose ids do not run from the root down, and one with a cycle, which
\* NodeTree shows that moves can make; nodes denied or quarantined above, below
\* and at the place where copies go.
MCStores ==
    {Store(<<2, 3, 0, 0>>, <<Allow, Allow, ExplicitOnly, Allow>>, Contents.mixed),
     Store(<<0, 1, 0, 0>>, <<Allow, Deny, Allow, ExplicitOnly>>, Contents.mixed),
     Store(<<0, 3, 1, 0>>, <<Deny, Allow, Allow, ExplicitOnly>>, Contents.mixed),
     Store(<<0, 3, 1, 0>>, <<Allow, Allow, Allow, Allow>>, Contents.image),
     Store(<<0, 3, 2, 0>>, <<Allow, Allow, ExplicitOnly, Allow>>, Contents.mixed)}
===============================================================================
