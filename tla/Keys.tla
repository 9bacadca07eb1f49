-------------------------------- MODULE Keys --------------------------------
(***************************************************************************)
(* Challenge-response pairs and the certificate checks built on them.      *)
(*                                                                         *)
(* The answers of a store are random, so two stores made by different      *)
(* calls of new_random never agree: an answer is known by the store it     *)
(* comes from and the challenge.  A certificate is known by the challenge  *)
(* it carries in its extension (NoChallenge when it carries none), the     *)
(* answer mixed into its signature, and the names it is good for.          *)
(***************************************************************************)
EXTENDS Naturals

CONSTANTS
  NChallenges,     \* how many challenges a store answers: u16::MAX
  CertChallenge    \* the challenge gen_cert uses: 1045

ASSUME KeysAssumption == NChallenges \in Nat /\ CertChallenge \in Nat

\* KeySource::new_random, called by `origin`.
NewRandom(origin) == [origin |-> origin, used |-> {}]

NoAnswer == [origin |-> 0, challenge |-> NChallenges]
NoChallenge == NChallenges + CertChallenge + 1

\* CrpSource::respond for InMemory
Respond(store, challenge) ==
  [kind |-> IF challenge >= NChallenges THEN "Invalid"
            ELSE IF challenge \in store.used THEN "Used" ELSE "Unused",
   answer |-> IF challenge >= NChallenges THEN NoAnswer
              ELSE [origin |-> store.origin, challenge |-> challenge]]

\* CrpSource::mark_used, which nothing calls.
MarkUsed(store, challenge) ==
  [store EXCEPT !.used = IF challenge < NChallenges THEN @ \union {challenge} ELSE @]

\* gen_cert refuses any answer that is not unused with a panic.
GenCertPanics(store) == Respond(store, CertChallenge).kind # "Unused"

GenCert(store) ==
  [challenge |-> CertChallenge, answer |-> Respond(store, CertChallenge).answer,
   names |-> {"localhost"}]

\* The certificates both programs have built in (made by `rcgen`).
PreShared == [challenge |-> NoChallenge, answer |-> NoAnswer, names |-> {"localhost"}]

\* Mutant: an answer counts whatever store it comes from.
MutSignatureHolds(store, cert) == TRUE

\* verify_is_valid_tls_*_cert_with_aux_data: the signature was made over the
\* answer that this side's own store gives.
SignatureHolds(store, cert) == Respond(store, cert.challenge).answer = cert.answer

\* verify_server_cert.  A certificate without a challenge is left to webpki,
\* which knows the pre-shared one.  An IP address is never accepted as a name.
VerifyServerCert(store, cert, name) ==
  IF cert.challenge = NoChallenge THEN IF name \in cert.names THEN "ok" ELSE "refused"
  ELSE IF Respond(store, cert.challenge).kind # "Unused" THEN "panic"
  ELSE IF name # "ip" /\ SignatureHolds(store, cert) /\ name \in cert.names THEN "ok"
  ELSE "refused"

\* verify_client_cert
VerifyClientCert(store, cert) ==
  IF cert.challenge = NoChallenge THEN "ok"
  ELSE IF Respond(store, cert.challenge).kind # "Unused" THEN "panic"
  ELSE IF SignatureHolds(store, cert) THEN "ok" ELSE "refused"

(***************************************************************************)
(* TlsMode                                                                 *)
(***************************************************************************)
TlsMode == {"NoTls", "ServerAuth", "ClientServerAuth", "PufTls"}

IsTlsUsed(mode) == mode # "NoTls"
GenerateCrps(mode) == mode = "PufTls"

\* What the server of a mode shows to clients; `crps` is its store.
OwnCert(mode, crps) == IF GenerateCrps(mode) THEN GenCert(crps) ELSE PreShared

\* Only two modes ask for the client's certificate, one of them with
\* CrpClientTlsVerifier.
AcceptsClient(mode, crps, cert) ==
  CASE mode = "PufTls" -> VerifyClientCert(crps, cert) = "ok"
    [] mode = "ClientServerAuth" -> cert = PreShared
    [] OTHER -> TRUE
=============================================================================
