---------------------------- MODULE MCBackOffice ----------------------------
(* Instances of BackOffice for TLC.  Requests are named by strings. *)
EXTENDS BackOffice

CONSTANTS u1, u2, u3, u4, u5, e1, e2, e3, p0, p1, p2, p3,
          a1, a2, a3, a5, a6, a7, a8, a9, a10, a11, a12, x1, x2, x3, x4, s1

(* A request of u1 in session s1; the others differ from it in some fields. *)
Mine ==
  [op |-> "", user |-> u1, token |-> s1, email |-> e1, password |-> p1, old |-> p1,
   account |-> a1, type |-> "checking", amount |-> 0, status |-> "", to |-> u1,
   accounts |-> [checking |-> a5, savings |-> a6],
   external |-> x1, number |-> "n1", verifier |-> ""]
Admins == [Mine EXCEPT !.token = Staff]

Enter(password) == [Mine EXCEPT !.op = "login", !.password = password]
Exchange(token) == [Mine EXCEPT !.op = "refresh", !.token = token]
Register3 == [Mine EXCEPT !.op = "register", !.user = u3, !.email = e3]
Open5(account, amount) ==
  [Mine EXCEPT !.op = "open", !.type = "money_market", !.account = account, !.amount = amount]
Status(account, status) ==
  [Mine EXCEPT !.op = "set status", !.account = account, !.status = status]
External(op, x, number, verifier) ==
  [Mine EXCEPT !.op = op, !.external = x, !.number = number, !.verifier = verifier]

MCPool == [
  bad1 |-> Enter(p0), bad2 |-> Enter(p0), bad3 |-> Enter(p0),
  good1 |-> Enter(p1), good2 |-> Enter(p1), new |-> Enter(p2),
  out |-> [Mine EXCEPT !.op = "logout"], me |-> [Mine EXCEPT !.op = "profile"],
  ref1 |-> Exchange(s1), ref2 |-> Exchange(s1), chain |-> Exchange("good1"),
  change |-> [Mine EXCEPT !.op = "change password", !.password = p2],
  reset |-> [Admins EXCEPT !.op = "reset password", !.password = p3],
  unlock |-> [Admins EXCEPT !.op = "unlock"],
  delete |-> [Admins EXCEPT !.op = "delete user"],
  trespass |-> [Mine EXCEPT !.op = "delete user"],
  reg1 |-> Register3,
  reg2 |-> [Register3 EXCEPT !.user = u4, !.email = e1,
                             !.accounts = [checking |-> a7, savings |-> a8]],
  create |-> [Admins EXCEPT !.op = "create customer", !.user = u5, !.email = e3],
  mail |-> [Mine EXCEPT !.op = "change email", !.email = e3],
  profile |-> [Admins EXCEPT !.op = "profile of"],
  open1 |-> Open5(a9, 0), open2 |-> Open5(a10, 1),
  openFor |-> [Admins EXCEPT !.op = "open for", !.type = "money_market", !.account = a11],
  reopen |-> [Mine EXCEPT !.op = "open", !.account = a12],
  close |-> [Status(a1, "closed") EXCEPT !.op = "close"],
  off |-> Status(a1, "inactive"), on |-> Status(a2, "active"),
  deposit |-> [Mine EXCEPT !.op = "deposit"],
  move |-> [Admins EXCEPT !.op = "move", !.user = u2, !.account = a3],
  give |-> [Admins EXCEPT !.op = "move", !.account = a2, !.to = u2],
  drop |-> [Admins EXCEPT !.op = "delete customer"],
  list |-> [Mine EXCEPT !.op = "accounts"], listOf |-> [Admins EXCEPT !.op = "accounts of"],
  add1 |-> External("register external", x2, "n2", "verify1"),
  add2 |-> External("register external", x3, "n2", "verify2"),
  addOld |-> External("register external", x4, "n1", "verifyOld"),
  verify1 |-> External("verify", x2, "n2", ""), verify2 |-> External("verify", x3, "n2", ""),
  verifyOld |-> External("verify", x4, "n1", ""),
  remove1 |-> External("delete external", x2, "n2", ""),
  removeOld |-> External("delete external", x1, "n1", ""),
  show |-> External("external", x1, "n1", "")]

MCFirstRow == [u \in Clients |->
  IF u \in {u3, u4, u5} THEN NoUser ELSE NewUser(IF u = u1 THEN e1 ELSE e2, p1)]
MCSessionOwner == [s \in OldSessions |-> IF s = Staff THEN Staff ELSE u1]

(* The customer u1 has an account that is empty and one with money that is *)
(* inactive; u2 has one of the type that the requests open.                *)
MCFirstAccount == [a \in Accounts |->
  CASE a = a1 -> NewAccount(u1, "checking", 0)
    [] a = a2 -> [NewAccount(u1, "savings", 1) EXCEPT !.status = "inactive"]
    [] a = a3 -> NewAccount(u2, "money_market", 0)
    [] OTHER -> NoAccount]
MCFirstExternal == [x \in Externals |->
  IF x = x1 THEN [NewExternal(u1, "n1") EXCEPT !.status = "verified"] ELSE NoExternal]

AtLogin == {"bad1", "bad2", "good1", "good2", "new", "out", "ref1", "ref2", "chain", "me",
            "change", "reset", "unlock", "delete"}
AtCustomers == {"good1", "ref1", "me", "reg1", "reg2", "create", "mail", "open1", "open2", "openFor",
                "reopen", "close", "off", "on", "deposit", "move", "give", "drop"}
Views == {"profile", "list", "listOf", "trespass"}
AtExternals == {"add1", "add2", "addOld", "remove1", "removeOld", "show", "drop"}

Sensible(w) == /\ "bad2" \in w => "bad1" \in w
               /\ "good2" \in w => "good1" \in w
               /\ "ref2" \in w => "ref1" \in w
Two(jobs) == {w \in {{q, r} : q, r \in jobs} : Sensible(w)}
Three(jobs) == {w \in {{q, r, s} : q, r, s \in jobs} : Sensible(w)}

WithLoad(works, attempts, max, rejects) ==
  [work : {w \cup ({MCPool[r].verifier : r \in w} \ {""}) : w \in works},
   attempts : {attempts}, errors : {max}, rejects : rejects]

(* Three requests at a time, two when one statement may fail; three wrong  *)
(* passwords and a right one.                                              *)
MCLoads ==
  WithLoad(Three(AtLogin), 1, 0, {TRUE})
  \cup WithLoad(Two(AtLogin), 2, 1, {TRUE})
  \cup WithLoad({{"bad1", "bad2", "bad3", "good1"}}, 0, 0, {TRUE})
  \cup WithLoad(Three(AtCustomers), 0, 0, {TRUE, FALSE})
  \cup WithLoad(Two(AtCustomers \cup Views), 0, 1, {TRUE, FALSE})
  \cup WithLoad(Three(AtExternals), 0, 0, {TRUE})
  \cup WithLoad(Two(AtExternals), 0, 1, {TRUE})
=============================================================================
