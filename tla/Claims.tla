------------------------------- MODULE Claims -------------------------------
(***************************************************************************)
(* How an agent obtains a key of its own (auth.md): it registers without   *)
(* anybody, or names a user's address, the user is sent a code and reads   *)
(* it back, and the agent collects the key that was minted. The store of   *)
(* claims is the memory of one process, so each of its calls is one step.  *)
(*                                                                         *)
(* One user, who may be signing in for the first time.                     *)
(***************************************************************************)
EXTENDS Integers, FiniteSets, Sequences

CONSTANTS
    Claims,         \* claim tokens
    Desks,       \* requests being served
    MaxRequests,    \* bound: requests begun
    ClaimScenes     \* what varies between deployments

\* serial: requests follow one another. expires: a claim may outlive its ten
\* minutes. guesses: a code may be read back wrong. kinds: what is asked for.
ClaimKinds == {"anonymous", "identity", "claim", "token"}
ClaimSceneType ==
    [kinds : SUBSET ClaimKinds, serial : BOOLEAN, expires : BOOLEAN, guesses : BOOLEAN,
     requests : 0..MaxRequests, faults : SUBSET {"send", "org", "member", "stripe", "mint"}]
ASSUME ClaimAssumption == MaxRequests \in Nat /\ IsFiniteSet(Claims)
ASSUME ClaimSceneAssumption == ClaimScenes \subseteq ClaimSceneType

VARIABLES
    claimScene,
    claim,      \* claim[c]: its status, and the key it holds
    codes,      \* codes the user has been sent and WorkOS would accept
    orgCount,   \* organizations made
    joined,     \* those the user is a member of
    keys,       \* keys minted: the organization each opens, and the claim it is for
    handed,     \* handed[k]: the claims key k was handed out for
    serving,    \* serving[h]: where request h is, and what it has read
    requests    \* requests begun

claimVars == <<claimScene, claim, codes, orgCount, joined, keys, handed, serving, requests>>

-----------------------------------------------------------------------------
NoKey == 0
NoClaim == [status |-> "none", key |-> NoKey]
NoRequest == [pc |-> "idle", kind |-> "none", claim |-> {}, org |-> 0, right |-> FALSE, key |-> NoKey]
Serving(h, pc) == serving[h].pc = pc
Continue(h, pc) == serving' = [serving EXCEPT ![h].pc = pc]
Answered(h) == serving' = [serving EXCEPT ![h] = NoRequest]
Breaks(fault) == fault \in claimScene.faults
ForClaim(h) == serving[h].claim # {}
ClaimOf(h) == CHOOSE c \in Claims : c \in serving[h].claim

Request(h, begun) ==
    /\ Serving(h, "idle") /\ requests < claimScene.requests
    /\ claimScene.serial => \A other \in Desks : Serving(other, "idle")
    /\ serving' = [serving EXCEPT ![h] = begun]
    /\ requests' = requests + 1
    /\ UNCHANGED <<claimScene, claim, codes, orgCount, joined, keys, handed>>

\* identity: with no user, an organization of its own; otherwise the user is sent
\* a code. A request for a claim is refused unless it is pending, and told that a
\* ready one is.
AskAnonymous(h) ==
    /\ "anonymous" \in claimScene.kinds
    /\ Request(h, [NoRequest EXCEPT !.pc = "makeOrg", !.kind = "anonymous"])
AskIdentity(h) == "identity" \in claimScene.kinds /\ Request(h, [NoRequest EXCEPT !.pc = "send", !.kind = "identity"])
AskClaim(h, c, right) ==
    /\ "claim" \in claimScene.kinds /\ (right \/ claimScene.guesses)
    /\ claim[c].status = "pending"
    /\ Request(h, [NoRequest EXCEPT !.pc = "verify", !.kind = "claim", !.claim = {c}, !.right = right])
AskToken(h, c) ==
    /\ "token" \in claimScene.kinds
    /\ claim[c].status \in {"ready", "error"}
    /\ Request(h, [NoRequest EXCEPT !.pc = "consume", !.kind = "token", !.claim = {c}])

\* sendMagicAuth, then store.create: the code is out before the claim exists.
SendCode(h) ==
    /\ Serving(h, "send")
    /\ codes' = codes + 1 /\ Continue(h, "create")
    /\ UNCHANGED <<claimScene, claim, orgCount, joined, keys, handed, requests>>

SendFails(h) ==
    /\ Serving(h, "send") /\ Breaks("send")
    /\ codes' \in {codes, codes + 1} /\ Answered(h)
    /\ UNCHANGED <<claimScene, claim, orgCount, joined, keys, handed, requests>>

CreateClaim(h) ==
    /\ Serving(h, "create")
    /\ \E c \in Claims :
          /\ claim[c].status = "none"
          /\ claim' = [claim EXCEPT ![c].status = "pending"]
    /\ Answered(h)
    /\ UNCHANGED <<claimScene, codes, orgCount, joined, keys, handed, requests>>

\* markReady and markError look only at whether the entry is there.
MarkReady(c, key) ==
    claim' = [claim EXCEPT ![c] = IF @.status = "gone" THEN @ ELSE [status |-> "ready", key |-> key]]
MarkError(c) ==
    claim' = [claim EXCEPT ![c] = IF @.status = "gone" THEN @ ELSE [status |-> "error", key |-> NoKey]]

\* verifyMagicAuth: WorkOS accepts a code once. Refused, the claim is over.
Verify(h) ==
    /\ Serving(h, "verify")
    /\ IF serving[h].right /\ codes > 0
       THEN codes' = codes - 1 /\ Continue(h, "listOrgs") /\ UNCHANGED claim
       ELSE MarkError(ClaimOf(h)) /\ Answered(h) /\ UNCHANGED codes
    /\ UNCHANGED <<claimScene, orgCount, joined, keys, handed, requests>>

\* ensureOrgForUser: the first organization the user is in, or a new one.
ListOrgs(h) ==
    /\ Serving(h, "listOrgs")
    /\ IF joined = {} THEN Continue(h, "makeOrg")
       ELSE \E o \in joined : serving' = [serving EXCEPT ![h].pc = "customer", ![h].org = o]
    /\ UNCHANGED <<claimScene, claim, codes, orgCount, joined, keys, handed, requests>>

MakeOrg(h) ==
    /\ Serving(h, "makeOrg")
    /\ orgCount' = orgCount + 1
    /\ serving' = [serving EXCEPT ![h].pc = IF ForClaim(h) THEN "join" ELSE "customer", ![h].org = orgCount + 1]
    /\ UNCHANGED <<claimScene, claim, codes, joined, keys, handed, requests>>

Join(h) ==
    /\ Serving(h, "join")
    /\ joined' = joined \cup {serving[h].org} /\ Continue(h, "customer")
    /\ UNCHANGED <<claimScene, claim, codes, orgCount, keys, handed, requests>>

\* ensureStripeCustomer: see Purchase.
EnsureCustomer(h) ==
    /\ Serving(h, "customer")
    /\ Continue(h, "mint")
    /\ UNCHANGED <<claimScene, claim, codes, orgCount, joined, keys, handed, requests>>

Minted(h) == keys \cup {[id |-> Cardinality(keys) + 1, org |-> serving[h].org, for |-> serving[h].claim]}

\* Without a claim to hold it, a key is the answer to the request.
Mint(h) ==
    /\ Serving(h, "mint")
    /\ keys' = Minted(h)
    /\ LET key == Cardinality(keys) + 1 IN
          IF ForClaim(h)
          THEN serving' = [serving EXCEPT ![h].pc = "mark", ![h].key = key] /\ UNCHANGED handed
          ELSE Answered(h) /\ handed' = [handed EXCEPT ![key] = Append(@, {})]
    /\ UNCHANGED <<claimScene, claim, codes, orgCount, joined, requests>>

Mark(h) ==
    /\ Serving(h, "mark")
    /\ MarkReady(ClaimOf(h), serving[h].key) /\ Answered(h)
    /\ UNCHANGED <<claimScene, codes, orgCount, joined, keys, handed, requests>>

\* Whatever throws on the way ends the claim; with no claim it is an error. What
\* WorkOS or Stripe did before the answer was lost stands.
ThrowsAt(h, fault, pc) == Breaks(fault) /\ Serving(h, pc)
ClaimThrows(h) ==
    /\ \/ ThrowsAt(h, "org", "makeOrg") /\ orgCount' \in {orgCount, orgCount + 1} /\ UNCHANGED <<joined, keys>>
       \/ /\ ThrowsAt(h, "member", "join")
          /\ joined' \in {joined, joined \cup {serving[h].org}} /\ UNCHANGED <<orgCount, keys>>
       \/ ThrowsAt(h, "stripe", "customer") /\ UNCHANGED <<orgCount, joined, keys>>
       \/ ThrowsAt(h, "mint", "mint") /\ keys' \in {keys, Minted(h)} /\ UNCHANGED <<orgCount, joined>>
    /\ IF ForClaim(h) THEN MarkError(ClaimOf(h)) ELSE UNCHANGED claim
    /\ Answered(h)
    /\ UNCHANGED <<claimScene, codes, handed, requests>>

\* handleClaimGrant: the peek was AskToken; what is there now is returned and removed.
ConsumeClaim(h) ==
    /\ Serving(h, "consume")
    /\ LET entry == claim[ClaimOf(h)] IN
       /\ handed' = IF entry.status = "ready" THEN [handed EXCEPT ![entry.key] = Append(@, serving[h].claim)] ELSE handed
       /\ claim' = IF entry.status \in {"ready", "error"}
                   THEN [claim EXCEPT ![ClaimOf(h)] = [status |-> "gone", key |-> NoKey]] ELSE claim
    /\ Answered(h)
    /\ UNCHANGED <<claimScene, codes, orgCount, joined, keys, requests>>

Expire(c) ==
    /\ claimScene.expires /\ claim[c].status \notin {"none", "gone"}
    /\ claim' = [claim EXCEPT ![c] = [status |-> "gone", key |-> NoKey]]
    /\ UNCHANGED <<claimScene, codes, orgCount, joined, keys, handed, serving, requests>>

ClaimInit ==
    /\ claimScene \in ClaimScenes
    /\ claim = [c \in Claims |-> NoClaim]
    /\ codes = 0 /\ orgCount = 0 /\ joined = {} /\ keys = {} /\ requests = 0
    /\ handed = [k \in 1..MaxRequests |-> <<>>]
    /\ serving = [h \in Desks |-> NoRequest]

ClaimNext ==
    \/ \E h \in Desks :
          \/ AskAnonymous(h) \/ AskIdentity(h)
          \/ \E c \in Claims : AskToken(h, c) \/ \E right \in BOOLEAN : AskClaim(h, c, right)
          \/ SendCode(h) \/ SendFails(h) \/ CreateClaim(h)
          \/ Verify(h) \/ ListOrgs(h) \/ MakeOrg(h) \/ Join(h)
          \/ EnsureCustomer(h) \/ Mint(h) \/ Mark(h) \/ ClaimThrows(h)
          \/ ConsumeClaim(h)
    \/ \E c \in Claims : Expire(c)

-----------------------------------------------------------------------------
\* A key is handed out once at the most, for the claim it was minted for, "a
\* one-shot ready delivery" (claim-store.ts:13-14); and while requests follow one
\* another, nothing fails and no claim runs out, one that was minted is waiting
\* for its claim's agent, in a request's hands, or handed out. (Two requests for a
\* claim: the second finds the code used, and marks the ready claim an error.)
Held(key) ==
    \/ handed[key.id] # <<>>
    \/ \E h \in Desks : serving[h].key = key.id
    \/ \E c \in Claims : claim[c] = [status |-> "ready", key |-> key.id]
KeyReachesItsAgent ==
    \A key \in keys :
       /\ handed[key.id] \in {<<>>, <<key.for>>}
       /\ claimScene.serial /\ claimScene.faults = {} /\ ~claimScene.expires => Held(key)

\* First sign-ins that follow one another put a user in one organization, whatever
\* fails on the way, and every key they are minted opens it.
OneOrgPerUser ==
    claimScene.serial =>
       /\ Cardinality(joined) <= 1
       /\ \A key \in keys : key.for # {} => key.org \in joined
=============================================================================
