------------------------------ MODULE Autonomy ------------------------------
(***************************************************************************)
(* Graduated autonomy: the runtime grants of capabilities between agents   *)
(* (autonomy.py, CapabilityDelegation).                                    *)
(*                                                                         *)
(* `tokens' is _tokens, with the token ids as its domain, and `byGrantee'  *)
(* the index _by_grantee.  `granted' and `withdrawn' are history: every    *)
(* grant ever made and the ids ever revoked.                               *)
(***************************************************************************)
EXTENDS Clock, FiniteSetsExt, Functions

CONSTANTS
  Agents,
  Capabilities,
  Anything,    \* the capability "*"
  Offers,      \* the capability lists that are granted
  Ttls,        \* ttl_seconds, 0 for no expiry
  TokenIds     \* bound: as many grants are made

ASSUME AutonomyAssumption ==
  /\ Anything \notin Capabilities
  /\ Offers \subseteq SUBSET (Capabilities \cup {Anything})
  /\ Ttls \subseteq Nat

VARIABLES tokens, byGrantee, granted, withdrawn

autonomyVars == <<tokens, byGrantee, granted, withdrawn>>

\* _AUTONOMY_ORDER: watch, guide, delegate, autonomous, by their index.
Watch == 0
Guide == 1
Delegate == 2
Autonomous == 3
Levels == Watch .. Autonomous

\* Mutant: a revoked token counts until it is cleaned up.
ValidRevoked(t) == t.expiresAt <= 0 \/ now <= t.expiresAt

\* RuntimeToken.valid
Valid(t) == ~t.revoked /\ (t.expiresAt <= 0 \/ now <= t.expiresAt)

\* RuntimeToken.allows
Allows(t, c) == Valid(t) /\ {c, Anything} \cap t.capabilities # {}

\* The tokens a grantee's list leads to; ids that are gone are skipped.
TokensOf(a) == {tokens[i] : i \in byGrantee[a] \cap DOMAIN tokens}

IsAuthorized(a, c, min) ==
  \E t \in TokensOf(a) : Allows(t, c) /\ t.level >= min

\* get_autonomy_level, watch if nothing is granted.
AutonomyLevel(a) == Max({Watch} \cup {t.level : t \in {u \in TokensOf(a) : Valid(u)}})

-----------------------------------------------------------------------------
AutonomyInit ==
  /\ tokens = <<>>
  /\ byGrantee = [a \in Agents |-> {}]
  /\ granted = <<>>
  /\ withdrawn = {}

Grant(i, a, offer, level, ttl) ==
  LET t == [grantee |-> a, capabilities |-> offer, level |-> level,
            expiresAt |-> IF ttl > 0 THEN now + ttl ELSE 0, revoked |-> FALSE] IN
  /\ i \in TokenIds \ DOMAIN granted
  /\ tokens' = [j \in DOMAIN tokens \cup {i} |-> IF j = i THEN t ELSE tokens[j]]
  /\ byGrantee' = [byGrantee EXCEPT ![a] = @ \cup {i}]
  /\ granted' = [j \in DOMAIN granted \cup {i} |-> IF j = i THEN t ELSE granted[j]]
  /\ UNCHANGED withdrawn

Revoke(i) ==
  /\ i \in DOMAIN tokens
  /\ tokens' = [tokens EXCEPT ![i].revoked = TRUE]
  /\ withdrawn' = withdrawn \cup {i}
  /\ UNCHANGED <<byGrantee, granted>>

CleanUp == {i \in DOMAIN tokens : ~Valid(tokens[i])}

\* cleanup_expired drops them from both tables.
CleanupExpired ==
  /\ CleanUp # {}
  /\ tokens' = Restrict(tokens, DOMAIN tokens \ CleanUp)
  /\ byGrantee' = [a \in Agents |-> byGrantee[a] \ CleanUp]
  /\ UNCHANGED <<granted, withdrawn>>

AutonomyNext ==
  \/ Tick /\ UNCHANGED autonomyVars
  \/ /\ UNCHANGED now
     /\ \E i \in TokenIds, a \in Agents, offer \in Offers, level \in Levels, ttl \in Ttls :
          Grant(i, a, offer, level, ttl)
  \/ UNCHANGED now /\ \E i \in TokenIds : Revoke(i)
  \/ UNCHANGED now /\ CleanupExpired

AutonomySpec == ClockInit /\ AutonomyInit /\ [][AutonomyNext]_<<now, autonomyVars>>

-----------------------------------------------------------------------------
\* A grant as its grantor knows it: made, not withdrawn, not past its time.
InForce(i) ==
  i \notin withdrawn /\ (granted[i].expiresAt = 0 \/ now <= granted[i].expiresAt)

GrantsTo(a) == {i \in DOMAIN granted : granted[i].grantee = a /\ InForce(i)}

(* is_authorized and get_autonomy_level answer as if every grant had been  *)
(* kept: whatever was granted again, revoked, cleaned up or left to expire *)
(* in between, an agent may do at a level what some one grant in force     *)
(* allows at that level, and its autonomy is the highest of its grants.    *)
AnswersAsGranted ==
  \A a \in Agents :
    /\ \A c \in Capabilities, min \in Levels :
         IsAuthorized(a, c, min) <=>
           \E i \in GrantsTo(a) :
             {c, Anything} \cap granted[i].capabilities # {} /\ granted[i].level >= min
    /\ AutonomyLevel(a) = Max({Watch} \cup {granted[i].level : i \in GrantsTo(a)})
=============================================================================
