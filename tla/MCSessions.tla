------------------------------ MODULE MCSessions ------------------------------
(* Two children of one shell, the first with a start that cannot be read and *)
(* no uid; the second may lose its parent.  g1 and g2 are dies of one card.  *)
EXTENDS ProcessSessions, TLC

CONSTANTS g1, g2, g3, c1, c2, m1, m2, alice, bob, u

Cards == (g1 :> c1) @@ (g2 :> c1) @@ (g3 :> c2)
Models == (g1 :> m1) @@ (g2 :> m1) @@ (g3 :> m2)

Process(pid, start, ppid, parentStart, uid) ==
    [pid |-> pid, start |-> start, ppid |-> ppid, parentStart |-> parentStart,
     user |-> u, uid |-> uid]

Unread == Process(11, None, 10, 1, None)
Child == Process(12, 2, 10, 1, 7)
Orphan == Process(12, 2, 1, 0, 7)

Placements == {<<Unread, g1>>, <<Unread, g3>>, <<Child, g2>>, <<Orphan, g3>>}

Binding(user, uid, from, to) ==
    [account |-> u, uid |-> uid, user |-> user, from |-> from, to |-> to]

\* Handed over at once; given back, with a gap; a second uid of the same name.
HandOvers == {{Binding(alice, 7, 3, 5), Binding(bob, 7, 5, None)},
              {Binding(alice, 7, 2, 3), Binding(alice, 7, 5, None)},
              {Binding(alice, 8, 3, None), Binding(bob, 7, 4, None)}}
=============================================================================
