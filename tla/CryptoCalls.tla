----------------------------- MODULE CryptoCalls -----------------------------
(***************************************************************************)
(* The calls of system.crypto and system.cipher, but for ECDH.             *)
(*                                                                         *)
(* A call is one native function from beginning to end.  What it works     *)
(* with are blocks of memory it takes and gives back by hand, along paths  *)
(* that meet again at a label: who frees which block depends on the        *)
(* operation, on text or bytes, on the options and on where it failed.     *)
(* Between calls only crypto_err stays.  Values, keys and algorithms are   *)
(* left out; what uv_ext does may fail, and so may malloc.  The script's   *)
(* functions may call crypto again; all that a call reads after them is    *)
(* its own.                                                                *)
(***************************************************************************)
EXTENDS Naturals, Sequences, SequencesExt

CONSTANT Mishap  (* What else may go wrong: "derivation", in hkdf;         *)
                 (* "encoding", of what cipher.rsa or cipher.aes made;     *)
                 (* "empty iv", an empty string passed to cipher.aes.      *)

ASSUME MishapAssumption ==
  Mishap \subseteq {"derivation", "encoding", "empty iv"}

Products == {"hmacDigest", "sign", "cipher.sign", "cipher.digest"}
Verdicts == {"verify", "cipher.verify"}
Ciphers == {"encrypt", "decrypt"}
CryptoOp ==
  Products \cup Verdicts \cup Ciphers \cup {"hkdf", "cipher.rsa", "cipher.aes"}
Role == {"success", "fail", "complete"}

(* What the script passed to a cipher: options, and what was in them.      *)
CryptOption == {"options", "iv", "ivLen", "aad", "tag"}

(* Blocks: key, buff, iv, aad, tag, output, tag_output; result is that of  *)
(* the text's encoding, buff_tag that of aes_auth_crypto; salt and info    *)
(* are hkdf's.                                                             *)

VARIABLES
  crypto_err, (* a native function left a message                          *)
  call        (* the call on the stack: its arguments, what it holds, what *)
              (* result points to, whether the work was done (history) and *)
              (* the functions it called                                   *)

crVars == <<crypto_err, call>>

NoCryptoCall == [op |-> "none", step |-> "none"]

CryptoInit == crypto_err = FALSE /\ call = NoCryptoCall

At(step) == call.step = step
Begins(op) == At("begin") /\ call.op = op
Failed(c) == [c EXCEPT !.ret = "ERROR"]
Fails(c) == call' = [Failed(c) EXCEPT !.step = "free"]
Answers(c) == call' = [c EXCEPT !.step = "answer"]
Refused == Answers(Failed(call)) /\ UNCHANGED crypto_err

(* Options are passed to encrypt and decrypt, a vector to cipher.aes.      *)
MayPass(op) ==
  CASE op \in Ciphers -> {p \in SUBSET CryptOption : p # {} => "options" \in p}
    [] op = "cipher.aes" ->
         {{}, {"iv"}} \cup {{m} : m \in Mishap \cap {"empty iv"}}
    [] OTHER -> {{}}

CryptoCall(op, fns) ==
  /\ call = NoCryptoCall
  /\ \E words \in BOOLEAN, passed \in MayPass(op) :
       call' = [op |-> op, step |-> "begin", fns |-> fns, words |-> words,
                passed |-> passed, auth |-> FALSE, held |-> {},
                result |-> "none", ret |-> "GOOD", done |-> FALSE,
                told |-> {}]
  /\ UNCHANGED crypto_err

-----------------------------------------------------------------------------
(* The native functions *)

(* digest: crypto_err is cleared, and it works or leaves a message.        *)
Digest(works) == crypto_err' = ~works

(* digest_file leaves none. *)
DigestFile == crypto_err' = FALSE

(* base64, of btoa and atob. *)
Base64(works) == crypto_err' = ~works

(* rsa_sign and rsa_sign_file. *)
RsaSign(works) == crypto_err' = ~works

(* rsa_verify and rsa_verify_file: a wrong signature is no error.          *)
RsaVerify(checked) == crypto_err' = ~checked

(* rsa_crypto returns 0 for an empty output, too.                          *)
RsaCrypto(c) == {Failed(c), c, [c EXCEPT !.held = @ \cup {"output"}]}

(* aes_non_auth_crypto *)
AesNonAuthCrypto(c) == {Failed(c), c}

(* aes_auth_crypto puts the text and the tag together to decrypt them, in  *)
(* memory it does not free.                                                *)
AesAuthCrypto(c) ==
  LET joined == IF c.op = "decrypt"
                THEN [c EXCEPT !.held = @ \cup {"buff_tag"}] ELSE c
  IN  {Failed(c), Failed(joined), joined}

-----------------------------------------------------------------------------
(* Digests and signatures.  The arguments may be wrong; the same functions *)
(* of system.cipher differ in what they check and in their messages.       *)

(* hashDigest, btoa and atob return their result.                          *)
HashDigest ==
  /\ call = NoCryptoCall
  /\ DigestFile \/ \E works \in BOOLEAN : Digest(works)
  /\ UNCHANGED call

BtoaAtob ==
  /\ call = NoCryptoCall
  /\ \E works \in BOOLEAN : Base64(works)
  /\ UNCHANGED call

(* There is a result, or none. *)
Produced(works) ==
  Answers([call EXCEPT !.done = works, !.ret = IF works THEN @ ELSE "ERROR",
                       !.result = IF works THEN "output" ELSE @,
                       !.held = IF works THEN {"output"} ELSE @])

HmacDigest ==
  /\ Begins("hmacDigest")
  /\ Refused \/ \E works \in BOOLEAN : Digest(works) /\ Produced(works)

Sign ==
  /\ Begins("sign")
  /\ Refused \/ \E works \in BOOLEAN : RsaSign(works) /\ Produced(works)

CipherSign ==
  /\ Begins("cipher.sign")
  /\ Refused \/ \E works \in BOOLEAN : RsaSign(works) /\ Produced(works)

(* digest and md5 of system.cipher *)
CipherDigest ==
  /\ Begins("cipher.digest")
  /\ Refused \/ \E works \in BOOLEAN : Digest(works) /\ Produced(works)

(* There is a verdict when there is no message.                            *)
Judged(checked) ==
  Answers([call EXCEPT !.done = checked,
                       !.ret = IF crypto_err' THEN "ERROR" ELSE @,
                       !.result = IF crypto_err' THEN @ ELSE "verdict"])

Verify ==
  /\ Begins("verify")
  /\ \/ Refused
     \/ \E checked \in BOOLEAN : RsaVerify(checked) /\ Judged(checked)

CipherVerify ==
  /\ Begins("cipher.verify")
  /\ \/ Refused
     \/ \E checked \in BOOLEAN : RsaVerify(checked) /\ Judged(checked)

-----------------------------------------------------------------------------
(* hkdf, and the ciphers of system.cipher: result is tested for success,   *)
(* not what was returned.                                                  *)

(* Blocks are taken in this order, and a call may fail between any two: it *)
(* answers with those it has.                                              *)
FailsTaking(blocks) ==
  \E k \in 0..Len(blocks) :
    Answers(Failed([call EXCEPT !.held = ToSet(SubSeq(blocks, 1, k))]))

(* system_crypto_wrap_hkdf: the output is there before it is derived.      *)
Hkdf ==
  /\ Begins("hkdf")
  /\ LET taken == <<"key", "salt", "info">>
     IN  \/ FailsTaking(taken)
         \/ \E works \in BOOLEAN :
              /\ works \/ "derivation" \in Mishap
              /\ Answers([call EXCEPT !.done = works,
                            !.ret = IF works THEN @ ELSE "ERROR",
                            !.held = ToSet(taken) \cup {"output"},
                            !.result = "output"])
  /\ UNCHANGED crypto_err

(* system_cipher_wrap_rsa: to decrypt, the text is decoded and the output  *)
(* is the result; to encrypt, the output is encoded, which fails if it is  *)
(* empty.                                                                  *)
CipherRsa ==
  /\ Begins("cipher.rsa")
  /\ \/ Refused
     \/ \E decrypts \in BOOLEAN :
          LET begun == [call EXCEPT !.held = IF decrypts THEN {"buff"} ELSE {}]
          IN  \/ Answers(Failed(begun))
              \/ \E c \in RsaCrypto(begun) :
                   LET there == "output" \in c.held
                       encoded == [c EXCEPT !.held = @ \cup {"result"},
                                            !.result = "result"]
                   IN  \/ c.ret # "GOOD" /\ Answers(c)
                       \/ c.ret = "GOOD" /\ ~decrypts /\ Answers(Failed(c))
                       \/ /\ c.ret = "GOOD" /\ decrypts
                          /\ Answers([c EXCEPT !.done = there,
                                        !.result = IF there THEN "output"
                                                   ELSE @])
                       \/ /\ c.ret = "GOOD" /\ ~decrypts
                          /\ \/ /\ there
                                /\ Answers([encoded EXCEPT !.done = TRUE])
                             \/ /\ "encoding" \in Mishap
                                /\ Answers(Failed(encoded))
  /\ UNCHANGED crypto_err

(* system_cipher_wrap_aes: without a vector that is one, iv is the key.    *)
CipherAes ==
  /\ Begins("cipher.aes")
  /\ \E decrypts \in BOOLEAN :
       LET taken == (IF decrypts THEN <<"buff">> ELSE <<>>) \o <<"key">>
                    \o (IF "iv" \in call.passed THEN <<"iv">> ELSE <<>>)
                    \o <<"output">>
           ended == [call EXCEPT !.held = ToSet(taken) \cup {"result"},
                                 !.result = "result"]
       IN  \/ FailsTaking(taken)
           \/ \E c \in AesNonAuthCrypto([call EXCEPT !.held = ToSet(taken)]) :
                \/ c.ret # "GOOD" /\ Answers(c)
                \/ c.ret = "GOOD" /\ Answers([ended EXCEPT !.done = TRUE])
                \/ /\ c.ret = "GOOD" /\ ~decrypts /\ "encoding" \in Mishap
                   /\ Answers(Failed(ended))
  /\ UNCHANGED crypto_err

-----------------------------------------------------------------------------
(* encrypt and decrypt *)

(* parse_top_options: gives back what it took when it fails; the handler   *)
(* returns at once then.                                                   *)
ParseTopOptions ==
  /\ At("begin") /\ call.op \in Ciphers
  /\ \/ Answers(Failed(call))
     \/ call' = [call EXCEPT !.step = "mode", !.held = {"key", "buff"}]
  /\ UNCHANGED crypto_err

(* parse_transformation: refused, or a mode that is authenticated or not.  *)
ParseTransformation == {"refused", "authenticated", "plain"}

(* RSA has no vector.  Without options AES takes the vector from the key,  *)
(* if that is long enough, and then the default mode, if the key fits one. *)
ChooseMode ==
  /\ At("mode")
  /\ \/ call' = [call EXCEPT !.step = "rsa"]
     \/ /\ "options" \notin call.passed
        /\ LET c == [call EXCEPT !.held = @ \cup {"iv"}]
           IN  Fails(call) \/ Fails(c) \/ call' = [c EXCEPT !.step = "aes"]
     \/ /\ "options" \in call.passed
        /\ \E mode \in ParseTransformation :
             IF mode = "refused" THEN Fails(call)
             ELSE call' = [call EXCEPT !.step = "internal",
                                       !.auth = (mode = "authenticated")]
  /\ UNCHANGED crypto_err

(* parse_internal_options: an authenticated mode needs an iv, another      *)
(* takes one from the key; what was taken is given back on failure.        *)
ParseInternalOptions ==
  /\ At("internal")
  /\ \/ Fails(call)
     \/ /\ call.auth => "iv" \in call.passed
        /\ call' = [call EXCEPT !.step = "aes",
                 !.held = @ \cup {"iv"} \cup (call.passed \cap {"aad", "tag"})]
  /\ UNCHANGED crypto_err

(* An empty output is no failure here.                                     *)
RunRsa ==
  /\ At("rsa")
  /\ \E c \in RsaCrypto(call) :
       IF c.ret = "GOOD" THEN call' = [c EXCEPT !.step = "encode"]
       ELSE Fails(c)
  /\ UNCHANGED crypto_err

(* What was authenticated is opened only with a tag.                       *)
RunAes ==
  /\ At("aes")
  /\ LET begun == [call EXCEPT !.held = @ \cup {"output"}]
         tagged == call.op = "decrypt" /\ call.auth => "tag" \in call.passed
     IN  \/ Fails(call)
         \/ /\ tagged
            /\ \E c \in IF call.auth THEN AesAuthCrypto(begun)
                        ELSE AesNonAuthCrypto(begun) :
                 IF c.ret = "GOOD" THEN call' = [c EXCEPT !.step = "encode"]
                 ELSE Fails(c)
  /\ UNCHANGED crypto_err

(* Text is encoded when it was encrypted, and must be text when it was     *)
(* decrypted; bytes are the output itself, the tag at its end.             *)
Encode ==
  /\ At("encode")
  /\ LET there == "output" \in call.held
         encoded == {"result"} \cup (IF call.auth THEN {"tag_output"} ELSE {})
     IN  IF call.words /\ call.op = "encrypt"
         THEN \/ Fails(call)
              \/ \E some \in {{"result"}, encoded} :
                   Fails([call EXCEPT !.held = @ \cup some,
                                      !.result = "result"])
              \/ /\ there
                 /\ call' = [call EXCEPT !.step = "free", !.done = TRUE,
                               !.held = @ \cup encoded, !.result = "result"]
         ELSE \/ call.words /\ Fails(call)
              \/ call' = [call EXCEPT !.step = "free", !.done = there,
                            !.result = IF there THEN "output" ELSE "none"]
  /\ UNCHANGED crypto_err

(* Mutant: output is freed although it may be the result. *)
FreeLabelOutput ==
  /\ At("free")
  /\ Answers([call EXCEPT !.held = @ \ {"output", "aad", "tag"}])
  /\ UNCHANGED crypto_err

(* The label free: what failed gives back output, result and tag_output;   *)
(* aad and tag go, and iv if it was passed with its length, or if there    *)
(* were no options.                                                        *)
FreeLabel ==
  /\ At("free")
  /\ LET bad == call.ret # "GOOD"
         ours == {"aad", "tag"}
           \cup (IF bad THEN {"output", "result", "tag_output"} ELSE {})
           \cup (IF "options" \notin call.passed
                    \/ {"iv", "ivLen"} \subseteq call.passed
                 THEN {"iv"} ELSE {})
     IN  Answers([call EXCEPT !.held = @ \ ours,
                              !.result = IF bad THEN "none" ELSE @])
  /\ UNCHANGED crypto_err

-----------------------------------------------------------------------------
(* The end of a call *)

(* INVOKE_SUCCESS_CB or INVOKE_FAIL_CB, then INVOKE_COMPLET_CB: without    *)
(* success, fail is called for a call that went well.                      *)
TellScript ==
  /\ At("answer")
  /\ LET outcome == IF call.result # "none" /\ "success" \in call.fns
                    THEN {"success"} ELSE call.fns \cap {"fail"}
     IN  call' = [call EXCEPT !.step = "end",
                    !.told = outcome \cup (call.fns \cap {"complete"})]
  /\ UNCHANGED crypto_err

(* What a call frees after its functions returned.                         *)
EncryptFrees ==
  IF call.ret # "GOOD" THEN {}
  ELSE ({call.result} \ {"none"})
       \cup (IF call.words THEN call.held \cap {"tag_output"} ELSE {})
DecryptFrees == IF call.ret # "GOOD" THEN {} ELSE {call.result} \ {"none"}
HkdfFrees == call.held
CipherRsaFrees == ({call.result} \ {"none"}) \cup (call.held \cap {"buff"})
CipherAesFrees ==
  call.held \cup
    (IF "empty iv" \in call.passed /\ "key" \in call.held THEN {"iv"} ELSE {})

FreedAtEnd ==
  CASE call.op = "encrypt"    -> EncryptFrees
    [] call.op = "decrypt"    -> DecryptFrees
    [] call.op = "hkdf"       -> HkdfFrees
    [] call.op = "cipher.rsa" -> CipherRsaFrees
    [] call.op = "cipher.aes" -> CipherAesFrees
    [] OTHER                  -> call.held

CryptoCallEnds ==
  At("end") /\ call' = NoCryptoCall /\ UNCHANGED crypto_err

CryptoNext ==
  \/ \E op \in CryptoOp, fns \in SUBSET Role : CryptoCall(op, fns)
  \/ HashDigest \/ BtoaAtob
  \/ HmacDigest \/ Sign \/ CipherSign \/ CipherDigest \/ Verify \/ CipherVerify
  \/ Hkdf \/ CipherRsa \/ CipherAes
  \/ ParseTopOptions \/ ChooseMode \/ ParseInternalOptions
  \/ RunRsa \/ RunAes \/ Encode \/ FreeLabel
  \/ TellScript \/ CryptoCallEnds

CryptoSpec == CryptoInit /\ [][CryptoNext]_crVars

-----------------------------------------------------------------------------
(* Properties *)

(* A script hears how its own call went: success of one that did what was  *)
(* asked, never fail for it where success was passed too; nothing of an    *)
(* earlier call decides.                                                   *)
CryptoAnswersTrue ==
  At("end") =>
    /\ "success" \in call.told => call.done
    /\ {"success", "fail"} \subseteq call.fns =>
         ("fail" \in call.told <=> ~call.done)

(* A call reads and frees only what it holds, on every path, and leaves    *)
(* only blocks behind that no path gives back: key and buff of encrypt and *)
(* decrypt, the output that was encoded (cipher.rsa, too), the text joined *)
(* with its tag, and iv unless it came with its length.                    *)
CryptoBlocksOnce ==
  At("end") =>
    /\ FreedAtEnd \subseteq call.held
    /\ call.held \ FreedAtEnd \subseteq
         CASE call.op = "encrypt"    -> {"key", "buff", "iv"} \cup
                (IF call.words THEN {"output"} ELSE {})
           [] call.op = "decrypt"    -> {"key", "buff", "buff_tag", "iv"}
           [] call.op = "cipher.rsa" -> {"output"}
           [] OTHER                  -> {}

=============================================================================
