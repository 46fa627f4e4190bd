------------------------------- MODULE Gates -------------------------------
(***************************************************************************)
(* Who is let through to an operation (src/src/auth.ts), and what becomes  *)
(* of the answer on the way out: the REST routes, the MCP transport, the   *)
(* guard of an application's own routes, and the machine payment that may  *)
(* lift one refusal. No state. An answer is "ok" or why it is refused.     *)
(*                                                                         *)
(* A request carries a header (a key, an OAuth token, a payment, none),    *)
(* what asking for its key comes to, possibly a person, and possibly the   *)
(* operator's token. A deployment is what its adapter can do (adapter) and *)
(* what is configured (has).                                               *)
(***************************************************************************)
EXTENDS Ladder

\* The first refusal, in the order they are made.
First(answers) ==
    LET refused == {i \in DOMAIN answers : answers[i] # "ok"}
    IN IF refused = {} THEN "ok" ELSE answers[Least(refused)]
Unless(fine, refusal) == IF fine THEN "ok" ELSE refusal

-----------------------------------------------------------------------------
(* The gates. A caller is what a surface established of a request. *)

\* (mutant of EnforceAccess) a key that could not be checked is a bad key.
EnforceAccessBlaming(c) == Unless(c.resolved \/ (c.header \in {"key", "oauth"} /\ c.key = "valid"), "401")

\* A key that could not be checked is not a key that was rejected.
EnforceAccess(c) ==
    CASE c.resolved -> "ok"
      [] ~c.resolved /\ c.header \notin {"key", "oauth"} -> "401"
      [] OTHER -> CASE c.key = "valid" -> "ok" [] c.key = "rejected" -> "401" [] c.key = "unchecked" -> "503"

\* A key of the organization has nobody behind it; a role that cannot be asked allows.
EnforceAdmin(d, c) ==
    First(<<EnforceAccess(c),
            Unless(\A p \in c.person : p.role = "admin" \/ "isAdmin" \notin d.adapter \/ p.really, "403")>>)

EnforceMember(d, o, member) == Unless("listMemberIds" \in d.adapter => member \in o.members, "403")

\* The one that fails closed.
EnforceOperator(d, c) ==
    Unless(\/ "token" \in d.operators /\ c.token
           \/ "email" \in d.operators /\ \E p \in c.person : p.operator, "403")

\* The same question of a bare request, for what is advertised.
OperatorFromRequest(d, r, person) ==
    \/ "token" \in d.operators /\ r.token
    \/ "email" \in d.operators /\ \E p \in person : p.operator

\* Domains as they are once trimmed and lowered; an empty one is none.
IsInternalOrg(d, o) == (d.internal \cap o.domains) \ {""} # {}

\* The balance is read and then debited; what runs between two is Metering's.
EnforceCredits(d, o, cost) ==
    IF cost = 0 \/ "stripe" \notin d.has \/ IsInternalOrg(d, o) THEN "ok"
    ELSE First(<<Unless(o.customer, "no account"), Unless(o.credits >= cost, "insufficient")>>)

-----------------------------------------------------------------------------
(* REST. *)

OperatorTools == {"quote_plan_change", "sell_credits"}

\* What a caller is told exists, over REST and over MCP; what they may do is the gate's.
ToolList(d, r, tools) == IF OperatorFromRequest(d, r, {}) THEN tools ELSE tools \ OperatorTools

RestCaller(r) == [header |-> r.header, key |-> r.key, resolved |-> FALSE, person |-> r.person, token |-> r.token]

\* The check against the tool's own schema comes before its handler; fits stands for it.
DispatchTool(tools, tool, fits, answer) ==
    First(<<Unless(tool \in tools, "unknown tool"), Unless(fits, "invalid"), answer>>)

Status(answer) ==
    CASE answer = "ok" -> 200
      [] answer = "invalid" -> 400
      [] answer = "401" -> 401
      [] answer = "insufficient" -> 402
      [] answer = "403" -> 403
      [] answer = "unknown tool" -> 404
      [] answer = "wait" -> 429
      [] answer = "503" -> 503
      [] OTHER -> 500

-----------------------------------------------------------------------------
(* A machine payment. r.pays is what settling its credential would come to,  *)
(* r.credits whether Stripe takes the grant.                                 *)

HasCredential(r) == r.header = "payment" \/ r.xpayment

\* Who paid: the bearer, or the key beside the payment credential; nobody when
\* the key cannot be checked.
OrgForRequest(r) == (r.header \in {"key", "oauth"} \/ r.xkey) /\ r.key = "valid"

\* A challenge costs what the tool in the path does, or one.
ChallengeFor(d, cost) == Or(d.price, IF cost = 0 THEN 1 ELSE cost)

\* What is paid goes to a wallet when there is one to credit.
CreditsPaid(d, o, r, cost) ==
    IF "creditWallet" \in d.has /\ OrgForRequest(r) /\ o.customer THEN {ChallengeFor(d, cost)} ELSE {}

\* A grant that Stripe refuses is told as a payment that failed.
RequirePayment(d, o, r, cost) ==
    LET settled == HasCredential(r) /\ "settle" \in d.has /\ r.pays = "settled"
        wallet == CreditsPaid(d, o, r, cost)
        paid == settled /\ (wallet # {} => r.credits)
    IN [charged |-> settled, paid |-> paid, credit |-> IF paid THEN Or(wallet, 0) ELSE 0]

Response(status, payment) == [status |-> status, charged |-> payment.charged, credit |-> payment.credit]
NoPayment == [charged |-> FALSE, paid |-> FALSE, credit |-> 0]

\* A call of a tool that costs, and the second one a payment buys; a refusal of
\* the second escapes the handler.
RestCall(d, o, r, cost) ==
    LET says(org) == First(<<EnforceAccess(RestCaller(r)), EnforceCredits(d, org, cost)>>)
        payment == RequirePayment(d, o, r, cost)
        offered == Status(says(o)) = 402 /\ "payment" \in d.has
        again == says([o EXCEPT !.credits = @ + payment.credit])
    IN CASE ~offered -> Response(Status(says(o)), NoPayment)
         [] offered /\ ~payment.paid -> Response(402, payment)
         [] OTHER -> Response(IF again = "ok" THEN 200 ELSE 500, payment)

\* What the meter answers (Metering): time lifts a pace, and money the rest.
MeterAnswer(d, o, cost) == First(<<Unless(~o.paced, "wait"), EnforceCredits(d, o, cost)>>)

\* The guard of a route that is no tool: the meter's answer, and after a payment
\* the meter's answer once more. Whatever the header holds is taken for a key, a
\* payment too; a key that cannot be checked throws past the guard.
ApiGuard(d, o, r, cost) ==
    LET told(answer) == CASE answer = "ok" -> 200 [] answer = "wait" -> 429 [] OTHER -> 402
        first == MeterAnswer(d, o, cost)
        payment == RequirePayment(d, o, r, 0)
    IN CASE r.header = "none" -> Response(401, NoPayment)
         [] r.header # "none" /\ r.key = "unchecked" -> Response(500, NoPayment)
         [] r.header # "none" /\ r.key # "unchecked" /\ (r.header = "payment" \/ r.key = "rejected") ->
              Response(401, NoPayment)
         [] OTHER ->
              IF first \in {"ok", "wait"} \/ "payment" \notin d.has THEN Response(told(first), NoPayment)
              ELSE IF ~payment.paid THEN Response(402, payment)
              ELSE Response(told(MeterAnswer(d, [o EXCEPT !.credits = @ + payment.credit], cost)), payment)

-----------------------------------------------------------------------------
(* MCP. calls says whether the request calls a tool; r.grants whom an OAuth  *)
(* token, or the session behind it, opens an organization to.                *)

ByOauth(d, r) == r.header = "oauth" /\ "resolveOauthOrg" \in d.adapter /\ r.grants
AskedUpFront(d, r, calls) == ~ByOauth(d, r) /\ r.header = "key" /\ ("requireAuth" \in d.has \/ calls)

\* What is said before the handler is reached.
McpDoor(d, r, calls) ==
    CASE AskedUpFront(d, r, calls) /\ r.key = "unchecked" -> "503"
      [] ByOauth(d, r) -> "ok"
      [] OTHER -> Unless("requireAuth" \in d.has => r.header = "key" /\ r.key = "valid", "401")

\* What its tools are told of the caller: never the operator's token.
McpCaller(d, r, calls) ==
    [RestCaller(r) EXCEPT !.token = FALSE,
        !.resolved = ByOauth(d, r) \/ (AskedUpFront(d, r, calls) /\ r.key = "valid")]
=============================================================================
