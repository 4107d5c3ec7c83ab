----------------------------- MODULE ImageTrust -----------------------------
(***************************************************************************)
(* The image-trust job (plugins/image-trust).  It reads its configuration, *)
(* lists the images of the pods in scope, resolves tags to digests, asks   *)
(* cosign about each image, in goroutines below a semaphore, with several  *)
(* modes, several keys in a mode, retries and a timeout for each image,    *)
(* applies the allowlists and writes a report of findings.                 *)
(*                                                                         *)
(* A check is one cosign command: a mode with one key, or with the trusted *)
(* identities.  Whether an image passes a check is decided when it is      *)
(* first asked for, and then stays so.  Errors of cosign are transient or  *)
(* not by the text of their reason (IsTransientFailure).                   *)
(***************************************************************************)
EXTENDS Integers, Sequences, FiniteSets, Functions

CONSTANTS
  Images,
  Kind,               \* of each image: "digest", "tag" or "none"
  Pods,               \* [image, owner, via, scope] of the pods that run
  Configs,            \* configurations users may write
  ImageAllowlist,     \* images that the image or registry allowlist matches
  SignerAllowlist,    \* checks whose signer the signer allowlist matches
  MaxConcurrentScans, VerifyRetries

ASSUME ImageTrustAssumption ==
  MaxConcurrentScans \in Nat \ {0} /\ VerifyRetries \in Nat \ {0}

VARIABLES
  phase,      \* where the job is
  config,     \* the Config
  images,     \* the images that were discovered
  ref,        \* for each image its reference: "digest", "tag", "none" or "failed"
  stage,      \* where the goroutine of each image is
  mode, check,        \* the verifier and the check it is at
  inMode, byMode,     \* attempts of this verifier, and of those before
  tries, expired,     \* attempts of VerifyWithRetries; the context of the image is done
  result,     \* the observation each image ends with
  findings,   \* owners and images the report complains about
  \* history
  truth,      \* what each check that was asked would say of the image
  failed,     \* a call of the last attempt failed
  basis       \* for each result, what was true and known when it was reached

imageVars == <<stage, mode, check, inMode, byMode, tries, expired, truth, failed>>
vars == <<phase, config, images, ref, imageVars, result, findings, basis>>

AllModes == {"keyless", "key", "attestation-keyless", "attestation-key"}
ChecksOf == [m \in AllModes |->
               CASE m = "keyless" -> <<"identity">>
                 [] m = "key" -> <<"key1", "key2">>
                 [] m = "attestation-keyless" -> <<"attestedIdentity">>
                 [] m = "attestation-key" -> <<"attestedKey">>]
Keyless == {"identity", "attestedIdentity"}
Observation(status, signers) == [status |-> status, signers |-> signers]
-----------------------------------------------------------------------------
(* Configuration                                                           *)

\* The modes in the order of the list, without repetition; if attestations are wanted, the
\* attestation mode that goes with each signature mode comes after them.
ResolveVerificationModes(c) ==
  LET also(m, signed) ==
        IF (c.attestations \/ c.types) /\ signed \in Range(c.modes) /\ m \notin Range(c.modes)
          THEN <<m>> ELSE <<>>
  IN  c.modes \o also("attestation-keyless", "keyless") \o also("attestation-key", "key")

Resolved(c) == Range(ResolveVerificationModes(c))

Validate(c) ==
  LET modes == Resolved(c) IN
  /\ modes \cap {"keyless", "attestation-keyless"} # {} => c.identities
  /\ modes \cap {"key", "attestation-key"} # {} => c.keys
  /\ modes \cap {"attestation-keyless", "attestation-key"} # {} => c.types
  /\ c.attestations => c.types
  /\ c.attestations \/ c.types => modes \cap {"attestation-keyless", "attestation-key"} # {}

\* LoadFromEnvironment reads the keys only for the mode cosign-key, and NewVerifier
\* refuses a mode without what it needs.
NewVerifier(c) ==
  LET modes == Resolved(c)
      TrustedPublicKeys == "key" \in modes /\ c.keys
  IN  /\ modes \cap {"key", "attestation-key"} # {} => TrustedPublicKeys
      /\ modes \cap {"attestation-keyless", "attestation-key"} # {} => c.types

\* NewCompositeVerifier: the modes are tried in their order.
Modes == ResolveVerificationModes(config)

LoadFromEnvironment ==
  /\ phase = "load"
  /\ phase' = IF Validate(config) THEN "discover" ELSE "refused"
  /\ UNCHANGED <<config, images, ref, imageVars, result, findings, basis>>
-----------------------------------------------------------------------------
(* Discovery and digests                                                   *)

\* ListImages: pods of controllers, pods without one, and pods of active Jobs.
listed(via) == {p \in Pods : p.scope /\ p.via = via}
discovered == listed("controller") \cup listed("orphan") \cup listed("job")

ListImages ==
  /\ phase = "discover"
  /\ images' = {p.image : p \in discovered}
  /\ phase' = "resolve"
  /\ stage' = [i \in Images |-> IF i \in images' THEN "queued" ELSE "none"]
  /\ UNCHANGED <<config, ref, mode, check, inMode, byMode, tries, expired, truth,
                 failed, result, findings, basis>>

\* EnrichDigest, in a goroutine for each image: only a tag is looked up.
EnrichDigest(i) ==
  /\ phase = "resolve" /\ stage[i] = "queued"
  /\ \E found \in {"digest", "failed"} :
        ref' = IF ref[i] = "tag" /\ config.resolveDigests THEN [ref EXCEPT ![i] = found] ELSE ref
  /\ stage' = [stage EXCEPT ![i] = "resolved"]
  /\ UNCHANGED <<phase, config, images, mode, check, inMode, byMode, tries, expired,
                 truth, failed, result, findings, basis>>

\* wg.Wait, and NewVerifier.
StartVerifying ==
  /\ phase = "resolve" /\ \A i \in images : stage[i] = "resolved"
  /\ phase' = IF NewVerifier(config) THEN "verify" ELSE "fatal"
  /\ UNCHANGED <<config, images, ref, imageVars, result, findings, basis>>
-----------------------------------------------------------------------------
(* The goroutine of an image                                               *)

Active == {i \in images : stage[i] \in {"checking", "backoff"}}

\* What the checks say of an image: surely passed, and possibly passed.
passes(i, c) == c \in DOMAIN truth[i] /\ truth[i][c] = "good"
mayPass(i, c) == c \in DOMAIN truth[i] => truth[i][c] = "good"
Trusted(i, P(_, _)) ==
  LET modes == Resolved(config)
      ok(m) == \E c \in Range(ChecksOf[m]) : P(i, c)
  IN  IF config.policy = "any" THEN \E m \in modes : ok(m) ELSE \A m \in modes : ok(m)

Basis(i) == [trusted |-> Trusted(i, passes), maybe |-> Trusted(i, mayPass), failed |-> failed[i],
             signers |-> {c \in DOMAIN truth[i] : truth[i][c] # "none"}]

\* The slot of the image in results is set, and the goroutine ends.
Finish(i, o) ==
  /\ result' = [result EXCEPT ![i] = o]
  /\ stage' = [stage EXCEPT ![i] = "done"]
  /\ mode' = [mode EXCEPT ![i] = 1] /\ check' = [check EXCEPT ![i] = 1]
  /\ inMode' = [inMode EXCEPT ![i] = <<>>] /\ byMode' = [byMode EXCEPT ![i] = <<>>]
  /\ tries' = [tries EXCEPT ![i] = 0] /\ expired' = [expired EXCEPT ![i] = FALSE]
  /\ truth' = [truth EXCEPT ![i] = <<>>] /\ failed' = [failed EXCEPT ![i] = FALSE]

\* Preflight: without an immutable reference cosign is not asked.
Preflight(i) ==
  /\ phase = "verify" /\ stage[i] = "resolved" /\ Cardinality(Active) < MaxConcurrentScans
  /\ IF ref[i] = "digest"
       THEN /\ stage' = [stage EXCEPT ![i] = "checking"]
            /\ UNCHANGED <<mode, check, inMode, byMode, tries, expired, truth, failed, result, basis>>
       ELSE /\ Finish(i, Observation(IF ref[i] = "failed" THEN "error" ELSE "unknown", {}))
            /\ basis' = [basis EXCEPT ![i] = Basis(i)]
  /\ UNCHANGED <<phase, config, images, ref, findings>>

\* mergeObservations: the first attempt of the status that ranks highest.
Priority == [untrusted |-> 1, unsigned |-> 2, transient |-> 3, error |-> 3, unknown |-> 4]

mergeObservations(attempts) ==
  LET priority(n) == Priority[attempts[n].status]
  IN  attempts[CHOOSE n \in DOMAIN attempts : \A m \in DOMAIN attempts :
                 priority(n) < priority(m) \/ (priority(n) = priority(m) /\ n <= m)]

\* mergeVerifiedObservations keeps the signers of all modes.
mergeVerified(attempts) == Observation("verified", UNION {o.signers : o \in Range(attempts)})

\* VerifyWithRetries: a transient error is tried again, after a pause.
AfterTry(i, o) ==
  IF o.status = "transient" /\ tries[i] + 1 < VerifyRetries
    THEN /\ stage' = [stage EXCEPT ![i] = "backoff"]
         /\ UNCHANGED <<mode, check, inMode, byMode, tries, expired, truth, failed, result, basis>>
    ELSE Finish(i, o) /\ basis' = [basis EXCEPT ![i] = Basis(i)]

Goto(i, m, c, attempts, earlier) ==
  /\ mode' = [mode EXCEPT ![i] = m] /\ check' = [check EXCEPT ![i] = c]
  /\ inMode' = [inMode EXCEPT ![i] = attempts] /\ byMode' = [byMode EXCEPT ![i] = earlier]
  /\ UNCHANGED <<stage, tries, expired, truth, failed, result, basis>>

\* Mutant: with the policy "all" a mode that fails is passed over.
AfterModeAny(i, o) ==
  LET attempts == Append(byMode[i], o)
  IN  IF o.status = "verified" THEN AfterTry(i, o)
      ELSE IF mode[i] < Len(Modes) THEN Goto(i, mode[i] + 1, 1, <<>>, attempts)
      ELSE AfterTry(i, mergeObservations(attempts))

\* verifyAny and verifyAll: the verifier has answered.
AfterMode(i, o) ==
  LET attempts == Append(byMode[i], o)
      last == mode[i] = Len(Modes)
  IN  IF (o.status = "verified") = (config.policy = "any") THEN AfterTry(i, o)
      ELSE IF ~last THEN Goto(i, mode[i] + 1, 1, <<>>, attempts)
      ELSE AfterTry(i, IF config.policy = "any" THEN mergeObservations(attempts)
                       ELSE mergeVerified(attempts))

\* Verify of a verifier: the next key or type, until one passes.
AfterCheck(i, o) ==
  LET attempts == Append(inMode[i], o)
      last == check[i] = Len(ChecksOf[Modes[mode[i]]])
  IN  IF o.status = "verified" THEN AfterMode(i, o)
      ELSE IF ~last THEN Goto(i, mode[i], check[i] + 1, attempts, byMode[i])
      ELSE \E merged \in {mergeObservations(attempts)} : AfterMode(i, merged)

\* What is made of a call that fails, by the words of its text: some errors are transient,
\* and some read as if there were no signature or one of somebody else, but none does when
\* the command was killed.  Without a signature cosign fails too, with a text of its own.
classifyCosignFailure(killed) ==
  {"error"} \cup (IF killed THEN {} ELSE {"transient", "unsigned", "untrusted"})
NoSignature == Observation("unsigned", {})

\* The verifiers.  The keyless ones accept any identity and then look for a trusted one
\* among the signers; the key decides for the others, whose signature may name a signer too.
verifyKeyless(c, t) ==
  CASE t = "good" -> Observation("verified", {c})
    [] t = "untrusted" -> Observation("untrusted", {c})
    [] OTHER -> NoSignature

verifyWithKey(c, t) == IF t = "good" THEN Observation("verified", {c}) ELSE NoSignature

verifyType(c, t) == verifyKeyless(c, t)

verifyTypeWithKey(c, t) == verifyWithKey(c, t)

observe(c, t) ==
  CASE c = "identity" -> verifyKeyless(c, t)
    [] c = "attestedIdentity" -> verifyType(c, t)
    [] c = "attestedKey" -> verifyTypeWithKey(c, t)
    [] OTHER -> verifyWithKey(c, t)

AtCheck(i) == phase = "verify" /\ stage[i] = "checking"
Current(i) == ChecksOf[Modes[mode[i]]][check[i]]

\* It is decided what cosign would say of a check that is asked for the first time.
Decide(i) ==
  /\ AtCheck(i) /\ Current(i) \notin DOMAIN truth[i]
  /\ \E t \in {"good", "none"} \cup (IF Current(i) \in Keyless THEN {"untrusted"} ELSE {}) :
        truth' = [truth EXCEPT ![i] = [c \in DOMAIN truth[i] \cup {Current(i)} |->
                                         IF c = Current(i) THEN t ELSE truth[i][c]]]
  /\ UNCHANGED <<phase, config, images, ref, stage, mode, check, inMode, byMode, tries,
                 expired, failed, result, findings, basis>>

\* cosign answers ...
Answer(i) ==
  /\ AtCheck(i) /\ Current(i) \in DOMAIN truth[i] /\ ~expired[i]
  /\ AfterCheck(i, observe(Current(i), truth[i][Current(i)]))
  /\ UNCHANGED <<phase, config, images, ref, findings>>

\* ... or fails; first this is noted, then the code goes on.
CallFails(i) ==
  /\ AtCheck(i) /\ ~failed[i]
  /\ failed' = [failed EXCEPT ![i] = TRUE]
  /\ UNCHANGED <<phase, config, images, ref, stage, mode, check, inMode, byMode, tries,
                 expired, truth, result, findings, basis>>

AnswerFailed(i) ==
  /\ AtCheck(i) /\ failed[i]
  /\ \E status \in classifyCosignFailure(expired[i]) :
        AfterCheck(i, Observation(status, {}))
  /\ UNCHANGED <<phase, config, images, ref, findings>>

\* The timeout of the image: every command is killed from now on.
Timeout(i) ==
  /\ stage[i] \in {"checking", "backoff"} /\ ~expired[i]
  /\ expired' = [expired EXCEPT ![i] = TRUE]
  /\ failed' = [failed EXCEPT ![i] = TRUE]
  /\ UNCHANGED <<phase, config, images, ref, stage, mode, check, inMode, byMode, tries,
                 truth, result, findings, basis>>

\* Mutant: the attempts are not counted.
BackoffForever(i) ==
  /\ stage[i] = "backoff"
  /\ stage' = [stage EXCEPT ![i] = "checking"]
  /\ mode' = [mode EXCEPT ![i] = 1] /\ check' = [check EXCEPT ![i] = 1]
  /\ inMode' = [inMode EXCEPT ![i] = <<>>] /\ byMode' = [byMode EXCEPT ![i] = <<>>]
  /\ failed' = [failed EXCEPT ![i] = expired[i]]
  /\ UNCHANGED <<phase, config, images, ref, tries, expired, truth, findings, result, basis>>

\* The pause ends, with the next attempt or with the context.
Backoff(i) ==
  /\ stage[i] = "backoff"
  /\ IF expired[i]
       THEN Finish(i, Observation("error", {})) /\ basis' = [basis EXCEPT ![i] = Basis(i)]
       ELSE /\ stage' = [stage EXCEPT ![i] = "checking"]
            /\ mode' = [mode EXCEPT ![i] = 1] /\ check' = [check EXCEPT ![i] = 1]
            /\ inMode' = [inMode EXCEPT ![i] = <<>>] /\ byMode' = [byMode EXCEPT ![i] = <<>>]
            /\ tries' = [tries EXCEPT ![i] = @ + 1]
            /\ failed' = [failed EXCEPT ![i] = FALSE]
            /\ UNCHANGED <<expired, truth, result, basis>>
  /\ UNCHANGED <<phase, config, images, ref, findings>>
-----------------------------------------------------------------------------
(* The report                                                              *)

\* Mutant: an allowlist of signers matches every image that is signed.
AllowlistedSigned(i) == i \in ImageAllowlist \/ (SignerAllowlist # {} /\ result[i].signers # {})

\* AllowlistMatcher.match.
Allowlisted(i) == i \in ImageAllowlist \/ result[i].signers \cap SignerAllowlist # {}

\* Build and WriteFinalReport, which renames a complete file.
Build ==
  /\ phase = "verify" /\ \A i \in images : stage[i] = "done"
  /\ findings' = {<<p.owner, p.image>> :
                    p \in {q \in discovered : ~Allowlisted(q.image) /\ result[q.image].status # "verified"}}
  /\ phase' = "written"
  /\ UNCHANGED <<config, images, ref, imageVars, result, basis>>

NoObservation == Observation("none", {})
NoBasis == [trusted |-> FALSE, maybe |-> TRUE, failed |-> FALSE, signers |-> {}]

Init ==
  /\ phase = "load"
  /\ config \in Configs
  /\ images = {} /\ findings = {}
  /\ ref = Kind
  /\ stage = [i \in Images |-> "none"]
  /\ mode = [i \in Images |-> 1] /\ check = [i \in Images |-> 1]
  /\ inMode = [i \in Images |-> <<>>] /\ byMode = [i \in Images |-> <<>>]
  /\ tries = [i \in Images |-> 0] /\ expired = [i \in Images |-> FALSE]
  /\ truth = [i \in Images |-> <<>>] /\ failed = [i \in Images |-> FALSE]
  /\ result = [i \in Images |-> NoObservation] /\ basis = [i \in Images |-> NoBasis]

Goroutine(i) == \/ EnrichDigest(i) \/ Preflight(i) \/ Decide(i) \/ Answer(i)
                \/ AnswerFailed(i) \/ Backoff(i)

\* main: one of these is enabled at a time.
MainGoroutine == LoadFromEnvironment \/ ListImages \/ StartVerifying \/ Build

Next ==
  \/ LoadFromEnvironment \/ ListImages \/ StartVerifying \/ Build
  \/ \E i \in Images : \/ EnrichDigest(i) \/ Preflight(i) \/ Decide(i) \/ Answer(i)
                       \/ CallFails(i) \/ AnswerFailed(i) \/ Timeout(i) \/ Backoff(i)

\* The job and its goroutines run; cosign returns or is killed at the timeout.
Fairness ==
  /\ WF_vars(MainGoroutine)
  /\ \A i \in Images : WF_vars(Goroutine(i))

Spec == Init /\ [][Next]_vars /\ Fairness
-----------------------------------------------------------------------------
(* Properties                                                              *)

\* An image is reported verified only if the checks the policy demands, one or all of
\* the modes, hold of it; and it is called unsigned or untrusted only if they do not,
\* or a call of the last attempt failed: an answer "unsigned" for one key outranks the
\* error for another, and is not retried (mergeObservations, VerifyWithRetries).
StatusIsEarned ==
  \A i \in Images : stage[i] = "done" =>
    /\ result[i].status = "verified" => basis[i].trusted
    /\ result[i].status \in {"unsigned", "untrusted"} => ~basis[i].maybe \/ basis[i].failed

\* A workload in scope that runs an image has no finding only if the image is trusted,
\* is allowlisted, or has a signature of an allowlisted signer, however its checks
\* failed, timed out and were retried (discovery, Apply, Build).
SuppressedForAReason ==
  phase = "written" =>
    \A p \in Pods : p.scope /\ <<p.owner, p.image>> \notin findings =>
      basis[p.image].trusted \/ p.image \in ImageAllowlist
        \/ basis[p.image].signers \cap SignerAllowlist # {}

\* Every run ends with a report or a refusal: the retries and the timeout of each image
\* bound what the goroutines do.
RunEnds == <>(phase \in {"written", "refused", "fatal"})
=============================================================================
