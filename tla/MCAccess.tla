------------------------------- MODULE MCAccess -------------------------------
(* Two workspaces: w1 of olga, w2 of mira, who may have a seat in w1 (and    *)
(* olga in w2).                                                              *)
EXTENDS AccessRules

CONSTANTS mira, olga, ada, w1, w2, i1, i2, i3, t1, t2, p1, p2, m1, m2, v1, v2, c1, c2

U(id, role)    == [id |-> id, table |-> "user", role |-> role]
W(id, owner)   == [id |-> id, table |-> "workspace", owner |-> owner]
Of(id, t, w)   == [id |-> id, table |-> t, workspace |-> w]
Seat(id, u, w) == [id |-> id, table |-> "member", user |-> u, workspace |-> w,
                   active |-> FALSE]
Inv(id, a, b, w) == [id |-> id, table |-> "invite", inviter |-> a, invitee |-> b,
                     workspace |-> w]

Everything ==
  {U(mira, "USER"), U(olga, "USER"), U(ada, "ADMIN"), W(w1, olga), W(w2, mira),
   Of(i1, "item", w1), Of(i2, "item", w1), Of(i3, "item", w2),
   Of(t1, "tag", w1), Of(t2, "tag", w2), Seat(m1, mira, w1), Seat(m2, olga, w2),
   [id |-> p1, table |-> "payment", item |-> i1],
   [id |-> p2, table |-> "payment", item |-> i3],
   Inv(v1, mira, olga, w1), Inv(v2, olga, mira, w1),
   [id |-> c1, table |-> "contact", source |-> mira],
   [id |-> c2, table |-> "contact", source |-> olga]}

RowsMC == [i \in {r.id : r \in Everything} |-> CHOOSE r \in Everything : r.id = i]
===============================================================================
