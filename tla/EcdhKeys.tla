------------------------------ MODULE EcdhKeys ------------------------------
(***************************************************************************)
(* The ECDH interface of system.crypto: one object with a private and a    *)
(* public key, each in memory of its own.                                  *)
(*                                                                         *)
(* ECDH_allocate_keys gives both keys new memory before a pair is          *)
(* generated or set; whatever fails after it has lost the pair before.  A  *)
(* key is the pair it belongs to, what malloc returned, or no memory.  The *)
(* library may fail at each of its calls and gives keys of the size of     *)
(* their curve.  agreed and shown are history.                             *)
(***************************************************************************)
EXTENDS Naturals

CONSTANT Pair  (* key pairs *)

NoPair == "no pair"

VARIABLES
  ecdh,   (* the object's data: its keys, or nothing                       *)
  agreed, (* the pair of the last success, until a call fails that had     *)
          (* begun to replace it                                           *)
  shown   (* what the last call that reads a key returned, and agreed then *)

ekVars == <<ecdh, agreed, shown>>

NoData == [there |-> FALSE, pub |-> "none", priv |-> "none"]
NothingShown == [key |-> "none", agreed |-> NoPair]

EcdhInit == ecdh = NoData /\ agreed = NoPair /\ shown = NothingShown

(* ECDH_allocate_keys, and what it leaves when malloc fails: the old       *)
(* private key without its public key, or no key.                          *)
AllocatedKeys == [ecdh EXCEPT !.pub = "junk", !.priv = "junk"]
AllocateFailed == {[ecdh EXCEPT !.pub = "none"],
                   [ecdh EXCEPT !.pub = "none", !.priv = "none"]}

Lost(data) == ecdh' = data /\ agreed' = NoPair /\ UNCHANGED shown
Replaced(p) ==
  /\ ecdh' = [ecdh EXCEPT !.pub = p, !.priv = p]
  /\ agreed' = p
  /\ UNCHANGED shown

-----------------------------------------------------------------------------
(* What the native functions leave when they fail, for the pair p.         *)

(* ECDH_generate_key reads the private key from the library first.         *)
GenerateFailed(p) == {AllocatedKeys, [AllocatedKeys EXCEPT !.priv = p]}

(* ECDH_generate_keypair_by_pem writes what the library gives.             *)
PemFailed(p) == {AllocatedKeys}

(* ECDH_generate_keypair_by_binary: bytes become the private key last.     *)
BinaryFailed(p) == {AllocatedKeys, [AllocatedKeys EXCEPT !.pub = p]}

(* ecdh_get_encoding_data, for base64, hex or bytes: nothing, or the key.  *)
Encoded(key) == {"none", key}

(* ecdh_get_decoding_data: whether the other's key can be read.            *)
Decodes == BOOLEAN

(* ECDH_compute_shared_key, with the own private key.                      *)
SharedKeys == {"none", ecdh.priv}

-----------------------------------------------------------------------------
(* initialize_ecdh: an unknown curve or no memory leaves no data.          *)
InitializeEcdh ==
  {NoData, [there |-> TRUE, pub |-> "junk", priv |-> "junk"]}

(* createECDH: there is an object, with data or without.                   *)
CreateECDH ==
  /\ ~ecdh.there
  /\ ecdh' \in InitializeEcdh
  /\ UNCHANGED <<agreed, shown>>

(* generateKeys: a pair whose public key cannot be encoded is there, but   *)
(* fail is called.                                                         *)
GenerateKeys ==
  /\ ecdh.there
  /\ \/ \E data \in AllocateFailed : Lost(data)
     \/ \E p \in Pair :
          \/ \E data \in GenerateFailed(p) : Lost(data)
          \/ \E pub \in Encoded(p) :
               IF pub = "none"
               THEN Lost([AllocatedKeys EXCEPT !.pub = p, !.priv = p])
               ELSE Replaced(p)

(* Mutant: memory is taken before the argument is looked at. *)
SetPrivateKeyEarly ==
  /\ ecdh.there
  /\ \/ ecdh' = AllocatedKeys /\ UNCHANGED <<agreed, shown>>
     \/ \E p \in Pair : Replaced(p)

(* setPrivateKey: refused for its argument, without memory, not accepted   *)
(* by the library, or the pair of the key that was passed.                 *)
SetPrivateKey ==
  /\ ecdh.there
  /\ \/ UNCHANGED ekVars
     \/ \E data \in AllocateFailed : Lost(data)
     \/ \E p \in Pair :
          \/ \E data \in PemFailed(p) \cup BinaryFailed(p) : Lost(data)
          \/ Replaced(p)

(* getPrivateKey and getPublicKey return null without data, too.           *)
GetKey ==
  /\ \E key \in Encoded(ecdh.pub) \cup Encoded(ecdh.priv) :
       shown' = [key |-> key, agreed |-> agreed]
  /\ UNCHANGED <<ecdh, agreed>>

(* computeSecret: nothing of the object changes.                           *)
ComputeSecret ==
  /\ ecdh.there
  /\ \E readable \in Decodes :
       \E key \in IF readable THEN SharedKeys ELSE {"none"} :
         shown' = [key |-> key, agreed |-> agreed]
  /\ UNCHANGED <<ecdh, agreed>>

(* ECDH_imp_finalize. *)
FinalizeEcdh == ecdh.there /\ Lost(NoData)

EcdhNext ==
  \/ CreateECDH \/ GenerateKeys \/ SetPrivateKey \/ GetKey
  \/ ComputeSecret \/ FinalizeEcdh

EcdhSpec == EcdhInit /\ [][EcdhNext]_ekVars

-----------------------------------------------------------------------------
(* The pair a script heard success for stays the object's pair, both its   *)
(* keys, until another call has begun to replace it: a call refused for    *)
(* its arguments costs nothing, and no later read returns a key of         *)
(* another pair or memory no key was written to.                           *)
PairKept ==
  /\ agreed # NoPair => ecdh.pub = agreed /\ ecdh.priv = agreed
  /\ shown.agreed # NoPair => shown.key \in {"none", shown.agreed}

=============================================================================
