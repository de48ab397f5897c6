--------------------------- MODULE MCUserAccounts ---------------------------
EXTENDS UserAccounts, TLC

CONSTANTS w, up, m, b1, b2, s1, p1, t1, m1

Call(verbs, kinds, subjects) ==
    [verb: verbs, kind: kinds, browser: {b1}, subject: subjects]

Resources == {"policy", "household", "simulation", "report"}

One(verb, browser, subject) ==
    [verb |-> verb, kind |-> "account", browser |-> browser, subject |-> subject]

\* w is a request of a signed-out browser, up its upgrade or the closing of its
\* account, m a request of the signed-in user.
Races ==
    {[r \in Requests |-> CASE r = w -> cw [] r = up -> cu [] r = m -> cm] :
        cw \in Call({"create", "delete"}, {"policy"}, {NoSubject})
               \union Call({"create", "patch"}, {"report"}, {NoSubject}),
        <<cu, cm>> \in
            ({One("upgrade", b1, s1)} \X ({One("close", b1, s1)} \union Call({"patch"}, {"report"}, {s1})
                                         \union Call({"delete"}, {"policy"}, {s1})))
            \union {<<One("close", b1, NoSubject), One("upgrade", b1, s1)>>}}

\* Two browsers upgrade to one subject.
Merges ==
    {[r \in Requests |-> CASE r = w -> cw [] r = up -> One("upgrade", b1, s1)
                           [] r = m -> One("upgrade", b2, s1)] :
        cw \in Call({"create"}, {"policy"}, {NoSubject, s1})}

\* The other writes, next to an upgrade and a closing of the account, and the
\* reads next to one of them.
Others ==
    {[r \in Requests |-> CASE r = w -> cw [] r = up -> One("upgrade", b1, s1) [] r = m -> One("close", b1, s1)] :
        cw \in Call({"create"}, {"household", "simulation"}, {NoSubject, s1})
               \union Call({"create", "patch"}, {"policy"}, {s1})
               \union Call({"create", "delete"}, {"report"}, {s1})
               \union Call({"upgrade"}, {"account"}, {s1})}

Reads ==
    {[r \in Requests |-> CASE r = w -> cw [] r = up -> One(verb, b1, s1) [] r = m -> shared] :
        cw \in Call({"get"}, Resources \union {"account"}, {NoSubject, s1})
               \union Call({"list"}, Resources, {NoSubject, s1})
               \union Call({"patch", "export", "upgrade"}, {"account"}, {NoSubject, s1}),
        verb \in {"upgrade", "close"},
        shared \in Call({"shared"}, {"report"}, {NoSubject})}

\* Households and simulations: a browser saves one and asks for it again, next
\* to its upgrade.
Again ==
    {[r \in Requests |-> CASE r = w -> cw [] r = up -> One("upgrade", b1, s1) [] r = m -> [cw EXCEPT !.verb = again]] :
        cw \in Call({"create"}, {"household", "simulation"}, {NoSubject}),
        again \in {"get", "patch", "delete"}}

\* A browser starts over while its account is closed and a request of that
\* account is open.
Reuses ==
    {[r \in Requests |-> CASE r = w -> cw [] r = up -> One("close", b1, s1) [] r = m -> cm] :
        cw \in Call({"create"}, {"policy"}, {NoSubject}),
        cm \in {One("close", b1, s1)} \union Call({"delete"}, {"policy"}, {s1})
               \union Call({"create"}, {"report"}, {s1})}

MCCalls == Races \union Merges \union Others \union Reads \union Again \union Reuses
MCStoredKind == (p1 :> "policy") @@ (m1 :> "policy") @@ (t1 :> "report")
=============================================================================
