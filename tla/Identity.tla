------------------------------ MODULE Identity ------------------------------
(***************************************************************************)
(* The pod's identity (identity.go): the private key, kept in a file that  *)
(* the first start writes and every later start reads, and the token that  *)
(* the API server gives for it, which a goroutine of main.go renews before *)
(* it expires.                                                             *)
(*                                                                         *)
(* Time passes in ticks of any length; the goroutine sleeps a number of    *)
(* them after each check, after the request too if it has made one.  A     *)
(* token is the number of ticks it remains valid, 0 when it has expired.   *)
(***************************************************************************)
EXTENDS Integers

CONSTANTS
  Key,          \* the private keys that NewPodIdentity can draw
  Lifetime,     \* external: how long a new token is valid, in ticks
  RenewBefore,  \* renewBefore, in ticks
  Interval,     \* checkInterval, in ticks
  NoKey

\* What a 200 answer without a token leaves, and a text that is no token.
Empty == -1
Garbage == -2

ASSUME IdentityAssumption ==
  /\ RenewBefore \in Nat
  /\ Lifetime \in Nat
  /\ Interval \in Nat \ {0}
  /\ Key \cap {"absent", "partial", "saving", NoKey} = {}
  /\ NoKey # "saving"

VARIABLES
  keyFile,      \* the key file: absent, not written to the end, or a key
  identity,     \* the identity of the running process
  authToken,    \* its token
  renewing,     \* the renewing goroutine
  wait,         \* how long it still sleeps
  excused       \* history: time since the last renewal that the goroutine has
                \* spent waiting for answers, and asleep after failed ones

idVars == <<keyFile, identity, authToken, renewing, wait, excused>>
tokenVars == <<authToken, renewing, wait, excused>>

Token == Garbage..Lifetime

\* How long before its end a token is due to be renewed.
Reserve == IF Lifetime < RenewBefore THEN Lifetime ELSE RenewBefore

IdentityTypeOK ==
  /\ keyFile \in Key \cup {"absent", "partial"}
  /\ identity \in Key \cup {"saving", NoKey}
  /\ authToken \in Token
  /\ renewing \in {"off", "check", "auth", "sleep"}
  /\ wait \in 0..Interval
  /\ renewing = "sleep" <=> wait > 0
  /\ excused \in 0..Reserve

\* No process runs, or it has just begun.
NoIdentity ==
  /\ identity = NoKey
  /\ authToken = Empty
  /\ renewing = "off"
  /\ wait = 0
  /\ excused = 0

IdentityInit == keyFile = "absent" /\ NoIdentity
-----------------------------------------------------------------------------
(* The key.  An error of any of these steps makes main panic.              *)

\* Mutation: the file is not looked for, but created anew.
OpenKeyFileAlways ==
  /\ identity = NoKey
  /\ keyFile' = "partial"
  /\ identity' = "saving"
  /\ UNCHANGED tokenVars

\* The key file is created, empty at first.
OpenKeyFile ==
  /\ identity = NoKey
  /\ keyFile = "absent"
  /\ keyFile' = "partial"
  /\ identity' = "saving"
  /\ UNCHANGED tokenVars

\* Mutation: an error of SaveKey is ignored.
SaveKeyUnchecked(key) ==
  /\ identity = "saving"
  /\ keyFile' \in {key, keyFile}
  /\ identity' = key
  /\ UNCHANGED tokenVars

SaveKey(key) ==
  /\ identity = "saving"
  /\ keyFile' = key
  /\ identity' = key
  /\ UNCHANGED tokenVars

LoadKey ==
  /\ identity = NoKey
  /\ keyFile \in Key
  /\ identity' = keyFile
  /\ UNCHANGED <<keyFile, tokenVars>>
-----------------------------------------------------------------------------
(* The token.                                                              *)

\* The server accepts a token until it expires.
Valid(token) == token \in 1..Lifetime

\* What Auth stores of an answer with status 200.
AuthAnswers == {Lifetime, Empty, Garbage}

\* A read while Auth may be storing another token can yield a mixture of the
\* two: nothing synchronises the goroutines.
AuthToken == {authToken} \cup (IF renewing = "auth" THEN {Garbage} ELSE {})

\* The goroutine authenticates if the token is due, and sleeps.
CheckAgainst(time) ==
  /\ renewing = "check"
  /\ authToken >= 0
  /\ IF authToken < time
       THEN renewing' = "auth" /\ wait' = 0
       ELSE renewing' = "sleep" /\ wait' = Interval
  /\ UNCHANGED <<keyFile, identity, authToken, excused>>

\* Mutation: the token is renewed when it has expired.
CheckExpired == CheckAgainst(1)

\* With an empty token the goroutine waits, for another goroutine to get one;
\* an unparsable one makes it panic.
Check == CheckAgainst(RenewBefore)

Renew ==
  /\ renewing = "auth"
  /\ authToken' \in AuthAnswers
  /\ renewing' = "sleep"
  /\ wait' = Interval
  /\ excused' = 0
  /\ UNCHANGED <<keyFile, identity>>

\* Counted up to the time that matters.
Excuse(time) ==
  excused' = IF excused + time < Reserve THEN excused + time ELSE Reserve

RenewFails ==
  /\ renewing = "auth"
  /\ renewing' = "sleep"
  /\ wait' = Interval
  /\ Excuse(Interval)
  /\ UNCHANGED <<keyFile, identity, authToken>>

Older(token) == IF token > 0 THEN token - 1 ELSE token

\* Time passes while the goroutine sleeps, waits for a first token, or waits
\* for the answer of Auth, whose request has no timeout.
Tick ==
  /\ \/ /\ renewing = "sleep"
        /\ wait' = wait - 1
        /\ renewing' = IF wait = 1 THEN "check" ELSE "sleep"
        /\ UNCHANGED excused
     \/ renewing = "auth" /\ Excuse(1) /\ UNCHANGED <<renewing, wait>>
     \/ /\ renewing = "check"
        /\ authToken = Empty
        /\ UNCHANGED <<renewing, wait, excused>>
  /\ authToken' = Older(authToken)
  /\ UNCHANGED <<keyFile, identity>>
-----------------------------------------------------------------------------
(* Properties.                                                             *)

\* The pod serves only under a key that is on disk: clients bind to its DID,
\* and would lose it at the next restart.
IdentityOnDisk == identity \in Key => keyFile = identity

\* Whatever start fails or dies half way, a key that is in the file is never
\* replaced, so that the pod keeps the identity it has once taken.
KeyFileKept == [][(keyFile \in Key) => (keyFile' = keyFile)]_idVars

\* A token expires only if all but one interval of the time in which it was
\* due has been lost to failure: waiting for the answers of renewals, however
\* long each took, and sleeping after those that failed.
ExpiresAfterFailures == authToken = 0 => Reserve <= Interval + excused
=============================================================================
