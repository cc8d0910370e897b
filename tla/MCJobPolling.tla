------------------------------ MODULE MCJobPolling ------------------------------
(* What the TLC run of JobPolling adds to it. *)
EXTENDS JobPolling, TLC

CONSTANTS u1, u2

Token(use, sub, client, groups) ==
    [token_use |-> use, sub |-> sub, client_id |-> client, groups |-> groups]

\* Two users and an admin, one of them with a group that is no role, and claims
\* that make no principal: no access token, no subject, no client, a blank group
\* and no role.
MCClaims ==
    {Token("access", u1, TRUE, {"User", "other"}),
     Token("access", u2, TRUE, {"User"}),
     Token("access", u2, TRUE, {"Admin"}),
     Token("id", u1, TRUE, {"User"}),
     Token("access", None, TRUE, {"User"}),
     Token("access", u1, FALSE, {"User"}),
     Token("access", u1, TRUE, {"User", "blank"}),
     Token("access", u1, TRUE, {"other"})}

\* Neither the outcome of a caller nor what was acknowledged is looked at.
PollingView == <<table, requests, waiting, past, polls>>
================================================================================
