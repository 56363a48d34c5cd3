------------------------------ MODULE KeyCalls ------------------------------
(***************************************************************************)
(* One call that makes a key, or a secret from one: ParsePrivateKey and    *)
(* its passphrase form, the Generate functions, key agreement, marshalling *)
(* (secmem-crypto: parse*.go, pbes2.go, marshal_openssh.go, the key types).*)
(* The call keeps secrets in SecureBuffers of its own, one per role:       *)
(*   blob     the container, as read from the caller's bytes               *)
(*   plain    the decrypted private block or PrivateKeyInfo                *)
(*   scratch  the KDF's and cipher's working memory                        *)
(*   der      PKCS#1 DER assembled from an OpenSSH file's integers         *)
(*   key      the seed, scalar or DER a signer will own                    *)
(*   cont     an OpenSSH container being written                           *)
(*   out      a shared secret or an encoded key                            *)
(* and hands one of them over.                                             *)
(*                                                                         *)
(* A file is a record: its shape, kind (what its label or outer structure  *)
(* says), cipher, alg, and flaw, the first thing wrong with it, named for  *)
(* the check that finds it.  Any allocation and any opening or closing of  *)
(* a borrow may fail (a lock limit, an mprotect error, a wipe of every     *)
(* secret in between); so may wiping a copy the standard library made.     *)
(***************************************************************************)
EXTENDS Naturals, FiniteSetsExt

CONSTANTS Files, MaxDraws

\* What a file can be.  Only an armoured one has a frame, a footer and a body
\* to go wrong, and only OpenSSH's a public block without a type; PBES2 is
\* read with AES alone, and only two kinds are encrypted.
KeyFile(f) ==
  /\ f.kind \in CASE f.shape = "pem" -> {"openssh", "pkcs8", "sec1", "pkcs1", "encrypted",
                                         "legacy", "headers", "other"}
                  [] f.shape = "der" -> {"pkcs8", "sec1", "pkcs1", "encrypted", "other"}
                  [] f.shape = "openssh" -> {"openssh"}
                  [] f.shape \in {"junk", "empty"} -> {"other"}
  /\ f.cipher \in CASE f.kind = "openssh" -> {"none", "aes", "chacha", "unknown"}
                    [] f.kind = "encrypted" -> {"aes", "unknown"}
                    [] OTHER -> {"none"}
  /\ f.flaw \in {"frame", "footer", "body"} => f.shape = "pem"
  /\ f.flaw = "type" => f.kind = "openssh"

ASSUME KeyCallsAssumption ==
  /\ MaxDraws \in Nat \ {0}
  /\ \A f \in Files : f.shape \in {"pem", "der", "openssh", "junk", "empty"} /\ KeyFile(f)

VARIABLES
  entry,    \* the function called, one of Entries
  file,
  allow,    \* AllowHeapTransients, or a build where the runtime erases them
  pc,
  live,     \* the roles whose buffer exists and is not destroyed
  heap,     \* secret copies the standard library made on the heap that a wipe missed
  derived,  \* whether the passphrase has been through its KDF
  draws,
  dropped,  \* buffers the call lost its reference to
  verdict,
  result    \* the role returned, or "none"

keyVars == <<entry, file, allow, pc, live, heap, derived, draws, dropped, verdict, result>>

Entries == {"plain", "passphrase", "generate", "agree", "encapsulate", "marshal"}

KeyInit ==
  /\ entry \in Entries /\ file \in Files
  /\ allow \in BOOLEAN /\ pc = "start"
  /\ live = {} /\ heap = {} /\ dropped = {} /\ derived = FALSE /\ draws = 0
  /\ verdict = "none" /\ result = "none"

-----------------------------------------------------------------------------

\* The call goes on to next, having made the buffers rs.
Goto(next, rs) ==
  /\ pc' = next /\ live' = live \cup rs
  /\ UNCHANGED <<entry, file, allow, heap, derived, draws, dropped, verdict, result>>

\* The call fails with e, having destroyed the buffers rs on its way out.
Fail(e, rs) ==
  /\ pc' = "returned" /\ verdict' = e /\ live' = live \ rs
  /\ UNCHANGED <<entry, file, allow, heap, derived, draws, dropped, result>>

\* As Fail, with a secret that could not be wiped left on the heap.
FailDirty(e, rs) ==
  /\ pc' = "returned" /\ verdict' = e /\ live' = live \ rs /\ heap' = heap \cup {"copy"}
  /\ UNCHANGED <<entry, file, allow, derived, draws, dropped, result>>

\* As Fail, when the error comes after the buffers lost were built and
\* nothing refers to them any more; the registry's cleanup is left with them.
FailDropping(e, rs, lost) ==
  /\ pc' = "returned" /\ verdict' = e /\ live' = live \ rs
  /\ dropped' = lost \cap live
  /\ UNCHANGED <<entry, file, allow, heap, derived, draws, result>>

HandOver(r, rs) ==
  /\ pc' = "returned" /\ verdict' = "ok" /\ result' = r /\ live' = live \ rs
  /\ UNCHANGED <<entry, file, allow, heap, derived, draws, dropped>>

\* Fail with e unless e is "none".
Unless(e, rs, next, made) == IF e = "none" THEN Goto(next, made) ELSE Fail(e, rs)

checkHeapTransients(alg) == allow \/ alg \notin {"ecdsa", "rsa", "mlkem"}

\* A function's checks in the order it makes them, each a condition and the
\* error returned when it holds: the first one decides.
First(checks) ==
  LET hit == {i \in DOMAIN checks : checks[i][1]}
  IN IF hit = {} THEN "none" ELSE checks[Min(hit)][2]

SignerTypes == {"ed25519", "ecdsa", "rsa"}

-----------------------------------------------------------------------------
(* Finding the container. *)

OpensWithPassphrase == entry = "passphrase"

\* One DER SEQUENCE that spans the input.
looksLikeDER == file.shape = "der"

pemBlock ==
  First(<< <<file.flaw = "frame", "malformed">>,
           <<file.kind = "legacy", "encrypted">>,
           <<file.kind = "headers", "unsupported">>,
           <<file.flaw = "footer", "malformed">> >>)

\* The first element: an AlgorithmIdentifier, a version, or neither.
derIsEncrypted ==
  First(<< <<file.kind = "other", "malformed">>,
           <<file.kind # "encrypted", "notEncrypted">> >>)

\* What the two parsers refuse before they make a buffer.
parsePrivateKey ==
  First(<< <<file.shape = "junk", "malformed">>,
           <<file.shape = "pem" /\ pemBlock # "none", pemBlock>> >>)

parseEncryptedPrivateKey ==
  First(<< <<file.shape = "junk", "malformed">>,
           <<looksLikeDER /\ derIsEncrypted # "none", derIsEncrypted>>,
           <<file.shape = "pem" /\ pemBlock = "encrypted", "unsupported">>,
           <<file.shape = "pem" /\ pemBlock # "none", pemBlock>>,
           <<file.kind \in {"pkcs8", "sec1", "pkcs1"}, "notEncrypted">>,
           <<file.kind = "other", "unsupported">> >>)

ParsePrivateKey ==
  /\ pc = "start" /\ entry = "plain"
  /\ Unless(IF file.shape = "empty" THEN "malformed" ELSE parsePrivateKey, {}, "load", {})

ParsePrivateKeyWithPassphrase ==
  /\ pc = "start" /\ OpensWithPassphrase
  /\ Unless(IF file.shape = "empty" THEN "malformed" ELSE parseEncryptedPrivateKey,
            {}, "load", {})

Loaded == IF looksLikeDER /\ ~ OpensWithPassphrase THEN "der" ELSE "route"

copyToBuffer ==
  /\ pc = "load" /\ file.shape # "pem"
  /\ Fail("fault", {"blob"}) \/ Goto(Loaded, {"blob"})

\* Whatever goes wrong once the buffer exists is called malformed.
decodePEMBody ==
  /\ pc = "load" /\ file.shape = "pem"
  /\ \/ Fail("fault", {})
     \/ Fail("malformed", {"blob"})
     \/ file.flaw # "body" /\ Goto(Loaded, {"blob"})

\* The element after the version; a structure that starts as an encrypted
\* one does and is not one is no private key.
parseDER ==
  /\ pc = "der"
  /\ \/ Fail("fault", {"blob"})
     \/ Unless(First(<< <<file.flaw = "header" /\ file.kind = "encrypted", "unsupported">>,
                        <<file.flaw = "header" \/ file.kind = "other", "malformed">>,
                        <<file.kind = "encrypted", "encrypted">> >>),
               {"blob"}, "route", {})

\* On to the parser of the label or structure.  encryptedPKCS8Error says that
\* a labelled file is encrypted, whatever it holds.
Route ==
  /\ pc = "route"
  /\ IF OpensWithPassphrase
     THEN Goto(IF file.kind = "openssh" THEN "openssh" ELSE "pbes2", {})
     ELSE Unless(First(<< <<file.kind = "encrypted", "encrypted">>,
                          <<file.kind = "other", "unsupported">> >>),
                 {"blob"}, IF file.kind = "pkcs1" THEN "rsa" ELSE file.kind, {})

-----------------------------------------------------------------------------
(* Decrypting. *)

\* admitOpenSSHKeyType reads the cleartext public block: what will be
\* refused is refused before the KDF runs.
admitOpenSSHKeyType ==
  First(<< <<file.flaw = "type", "malformed">>,
           <<file.alg \notin SignerTypes, "unsupported">>,
           <<~ checkHeapTransients(file.alg), "policy">> >>)

readOpenSSHHeader == First(<< <<file.flaw = "header", "malformed">> >>)

\* parseOpenSSH: the borrow of blob opens, and the header is read.
parseOpenSSH ==
  /\ pc = "openssh" /\ ~ OpensWithPassphrase
  /\ \/ Fail("fault", {"blob"})
     \/ Unless(First(<< <<readOpenSSHHeader # "none", readOpenSSHHeader>>,
                        <<file.cipher # "none", "encrypted">>,
                        <<file.flaw = "cost", "unsupported">>,
                        <<file.flaw = "params", "malformed">> >>),
               {"blob"}, "block", {})

\* parseOpenSSHEncrypted up to the KDF: every refusal that needs no
\* passphrase, then the buffer for the plaintext.
parseOpenSSHEncrypted ==
  /\ pc = "openssh" /\ OpensWithPassphrase
  /\ \/ Fail("fault", {"blob"})
     \/ Unless(First(<< <<readOpenSSHHeader # "none", readOpenSSHHeader>>,
                        <<file.cipher = "none", "notEncrypted">>,
                        <<file.cipher = "unknown", "unsupported">>,
                        <<file.flaw = "params", "malformed">>,
                        <<file.flaw = "cost", "unsupported">>,
                        <<admitOpenSSHKeyType # "none", admitOpenSSHKeyType>> >>),
               {"blob"}, "scratch", {"plain"})

\* readPBKDF2Params or readScryptParams: shape, then the cost the file asks.
readKDFParams ==
  First(<< <<file.flaw = "params", "malformed">>, <<file.flaw = "cost", "unsupported">> >>)

readPBES2 ==
  First(<< <<file.flaw = "header", "malformed">>,
           <<file.cipher = "unknown", "unsupported">>,
           <<readKDFParams # "none", readKDFParams>> >>)

parsePKCS8Encrypted ==
  /\ pc = "pbes2"
  /\ Fail("fault", {"blob"}) \/ Unless(readPBES2, {"blob"}, "scratch", {"plain"})

withScratch ==
  /\ pc = "scratch"
  /\ Fail("fault", {"blob", "plain"}) \/ Goto("crypt", {"scratch"})

\* The passphrase has been through the KDF and the working memory is gone;
\* on to next, or out with e.
Decrypted(next, e, rs, copies) ==
  /\ derived' = TRUE /\ pc' = next /\ verdict' = e
  /\ live' = live \ (rs \cup {"scratch"}) /\ heap' = heap \cup copies
  /\ UNCHANGED <<entry, file, allow, draws, dropped, result>>

\* The AES schedule crypto/aes keeps on the heap may not be wipeable, and a
\* borrow may not close.
CryptFails ==
  \/ file.cipher # "chacha" /\ Decrypted("returned", "fault", {"plain", "blob"}, {"copy"})
  \/ Decrypted("returned", "fault", {"plain", "blob"}, {})

\* chacha20-poly1305 is authenticated; AES turns a wrong passphrase to noise.
opensshCrypt ==
  /\ pc = "crypt" /\ file.kind = "openssh"
  /\ \/ CryptFails
     \/ IF file.cipher = "chacha" /\ file.flaw = "pass"
        THEN Decrypted("returned", "decrypt", {"plain", "blob"}, {})
        ELSE Decrypted("block", "none", {}, {})

pbes2Decrypt ==
  /\ pc = "crypt" /\ file.kind = "encrypted"
  /\ CryptFails \/ Decrypted("unpad", "none", {}, {})

\* Noise passes the padding check now and then.  The borrows end, blob is
\* destroyed and plain truncated to what the padding leaves.
pkcs7Unpad ==
  /\ pc = "unpad"
  /\ \/ Fail("fault", {"plain", "blob"})
     \/ file.flaw = "pass" /\ Fail("decrypt", {"plain", "blob"})
     \/ /\ pc' = "pkcs8" /\ live' = live \ {"blob"}
        /\ UNCHANGED <<entry, file, allow, heap, derived, draws, dropped, verdict, result>>

-----------------------------------------------------------------------------
(* From the private block or the PrivateKeyInfo to a key. *)

\* What the caller makes of an error met after decryption: one answer, so
\* that the error does not tell how far the plaintext parsed.  An encrypted
\* PKCS#8 file names its key's type only inside, and keeps two more answers.
TranslatedAsIs(e) == e
Translated(e) ==
  IF ~ OpensWithPassphrase \/ (file.kind = "encrypted" /\ e \in {"policy", "unsupported"})
  THEN e ELSE "decrypt"

\* As Unless, for the functions that read the private half.
Checked(e, rs, next, made) ==
  Unless(IF e = "none" THEN e ELSE Translated(e), rs, next, made)

\* The buffers destroyed by the functions that enclose the failing one:
\* parseOpenSSH and parseSEC1 have blob, parseOpenSSHEncrypted has both, and
\* parsePKCS8 has whichever it was given.
Enclosing == {"blob", "plain"}

\* Check integers, type, fields, checkOpenSSHPadding, and the public half.
parseOpenSSHPrivateBlock ==
  /\ pc = "block"
  /\ Checked(First(<< <<file.flaw \in {"pass", "block", "type", "halves"}, "malformed">>,
                      <<file.alg \notin SignerTypes, "unsupported">> >>),
             Enclosing, IF file.alg = "rsa" THEN "pkcs1" ELSE "key", {})

ecdsaFromSEC1 ==
  First(<< <<file.flaw \in {"header", "block"}, "malformed">>,
           <<file.alg # "ecdsa", "unsupported">> >>)

\* A wrong passphrase that passed the padding check leaves noise.
parsePKCS8 ==
  /\ pc = "pkcs8"
  /\ \/ Fail(Translated("fault"), Enclosing)
     \/ file.flaw = "pass" /\ Fail(Translated("unsupported"), Enclosing)
     \/ Checked(First(<< <<file.flaw \in {"pass", "header", "block"}, "malformed">>,
                         <<file.alg \notin SignerTypes, "unsupported">> >>),
                Enclosing, IF file.alg = "rsa" THEN "close" ELSE "key", {})

parseSEC1 ==
  /\ pc = "sec1"
  /\ Fail("fault", {"blob"}) \/ Unless(ecdsaFromSEC1, {"blob"}, "key", {})

\* A buffer, and the seed or scalar copied in.
CopyToKey ==
  \/ Fail(Translated("fault"), Enclosing \cup {"key"})
  \/ Checked(First(<< <<file.flaw = "length", "malformed">> >>),
             Enclosing, "construct", {"key"})

ed25519FromSeed == pc = "key" /\ file.alg = "ed25519" /\ CopyToKey
ecdsaFromScalar == pc = "key" /\ file.alg = "ecdsa" /\ CopyToKey

pkcs1DER ==
  /\ pc = "pkcs1"
  /\ \/ Fail(Translated("fault"), Enclosing \cup {"der"})
     \/ Checked(First(<< <<file.flaw = "length", "malformed">> >>),
                Enclosing, "close", {"der"})

Undo == Enclosing \cup {"key"}

\* The public key in the file against the one derived: ed25519FromSeed,
\* ecdsaFromScalar and ecdsaFromSEC1 destroy the signer that does not match.
PubMismatchKept == Fail(Translated("malformed"), Enclosing)
PubMismatch == Fail(Translated("malformed"), Undo)
Built == IF file.flaw = "pub" THEN PubMismatch ELSE Goto("close", {})

newEd25519Signer ==
  /\ pc = "construct" /\ file.alg = "ed25519"
  /\ IF entry = "generate" THEN Fail("fault", {"key"}) \/ HandOver("key", {})
     ELSE Fail(Translated("fault"), Undo) \/ Built

\* The copies the library drops where nothing can reach them (parse.go:157)
\* are those the policy has just admitted; heap does not hold them.
newECDSASigner ==
  /\ pc = "construct" /\ file.alg = "ecdsa"
  /\ LET e == First(<< <<~ checkHeapTransients("ecdsa"), "policy">>,
                       <<file.flaw = "range", "malformed">> >>)
     IN IF e # "none" THEN Fail(Translated(e), Undo)
        ELSE Fail(Translated("fault"), Undo) \/ Built

\* The expanded key may not be wipeable.
newMLKEM768Key ==
  /\ pc = "construct" /\ file.alg = "mlkem"
  /\ Fail("fault", {"key"}) \/ FailDirty("fault", {"key"}) \/ HandOver("key", {})

\* The borrows end.  When one does not close, the signer or the DER already
\* built is let go without being destroyed.
EndBorrows ==
  /\ pc = "close"
  /\ \/ FailDropping(IF file.kind = "openssh" THEN "fault" ELSE Translated("fault"),
                     Enclosing, {"key", "der"})
     \/ /\ file.alg = "rsa" /\ pc' = "rsa"
        /\ live' = IF file.kind = "openssh" THEN live \ Enclosing ELSE live
        /\ UNCHANGED <<entry, file, allow, heap, derived, draws, dropped, verdict, result>>
     \/ file.alg # "rsa" /\ HandOver("key", Enclosing)

\* newRSASigner: the policy, then locatePKCS1, checkPKCS1Size and the
\* library's own checks.
newRSASigner ==
  First(<< <<~ checkHeapTransients("rsa"), "policy">>,
           <<file.flaw \in {"header", "block", "length", "range"}, "malformed">> >>)

\* On the buffer the signer will own.  The parsed key may not be wipeable.
rsaFromDER ==
  /\ pc = "rsa"
  /\ \E src \in live :
       IF newRSASigner # "none" THEN Fail(Translated(newRSASigner), {src})
       ELSE \/ Fail(Translated("fault"), {src})
            \/ FailDirty(Translated("fault"), {src})
            \/ HandOver(src, {})

-----------------------------------------------------------------------------
(* Generating. *)

Generating(alg) == entry = "generate" /\ file.alg = alg
Refused == pc = "start" /\ ~ checkHeapTransients(file.alg) /\ Fail("policy", {})
NewKey ==
  /\ pc = "start" /\ checkHeapTransients(file.alg)
  /\ Fail("fault", {}) \/ Goto("draw", {"key"})
DrawFails == pc = "draw" /\ Fail("fault", {"key"})

GenerateEd25519Signer ==
  Generating("ed25519") /\ (NewKey \/ DrawFails \/ (pc = "draw" /\ Goto("construct", {})))

GenerateX25519Key ==
  Generating("x25519") /\ (NewKey \/ DrawFails \/ (pc = "draw" /\ HandOver("key", {})))

GenerateMLKEM768Key ==
  /\ Generating("mlkem")
  /\ Refused \/ NewKey \/ DrawFails \/ (pc = "draw" /\ Goto("construct", {}))

\* A candidate out of range is drawn again, a bounded number of times.
GenerateECDSASigner ==
  /\ Generating("ecdsa")
  /\ \/ Refused \/ NewKey \/ DrawFails \/ (pc = "draw" /\ HandOver("key", {}))
     \/ /\ pc = "draw" /\ draws + 1 < MaxDraws /\ draws' = draws + 1
        /\ UNCHANGED <<entry, file, allow, pc, live, heap, derived, dropped, verdict, result>>

\* Words into a buffer sized for the longest ones, which is then truncated.
generateDiceware ==
  /\ Generating("words")
  /\ \/ NewKey \/ DrawFails
     \/ pc = "draw" /\ Goto("truncate", {})
     \/ pc = "truncate" /\ (Fail("fault", {"key"}) \/ HandOver("key", {}))

\* The key is made, encoded and wiped on the heap.
GenerateRSASigner ==
  /\ Generating("rsa")
  /\ \/ Refused
     \/ /\ pc = "start" /\ checkHeapTransients("rsa")
        /\ \/ Fail("fault", {}) \/ FailDirty("fault", {}) \/ Goto("rsa", {"key"})
           \/ \* stored, but the copy on the heap cannot be wiped
              /\ pc' = "returned" /\ verdict' = "fault" /\ heap' = {"copy"}
              /\ live' = {"key"} /\ dropped' = {"key"}
              /\ UNCHANGED <<entry, file, allow, derived, draws, result>>

-----------------------------------------------------------------------------
(* Calls that make a buffer from a key they are given. *)

\* The result's buffer comes first, then the borrow of the key.
NewOut == pc = "start" /\ (Fail("fault", {}) \/ Goto("agree", {"out"}))
OutFilled == pc = "agree" /\ (Fail("fault", {"out"}) \/ HandOver("out", {}))

SharedSecret == entry = "agree" /\ file.alg = "x25519" /\ (NewOut \/ OutFilled)

\* Only a key the policy admitted exists; its expansion may not be wipeable.
Decapsulate ==
  /\ entry = "agree" /\ file.alg = "mlkem" /\ checkHeapTransients("mlkem")
  /\ NewOut \/ OutFilled \/ (pc = "agree" /\ FailDirty("fault", {"out"}))

\* With the peer's public key alone: no policy applies, and SecureWipe of the
\* slice the shared key comes in cannot fail.
Encapsulate == entry = "encapsulate" /\ (NewOut \/ OutFilled)

\* The container is filled and, with a passphrase (file.cipher), encrypted in
\* place; it is encoded as PEM, and destroyed on every path.  Ed25519 only.
marshalOpenSSH ==
  /\ entry = "marshal" /\ file.alg = "ed25519"
  /\ \/ pc = "start" /\ (Fail("fault", {}) \/ Goto("fill", {"cont"}))
     \/ pc = "fill" /\ Fail("fault", {"cont"})
     \/ pc = "fill" /\ file.cipher = "none" /\ Goto("encode", {})
     \/ pc = "fill" /\ file.cipher = "aes" /\ Goto("encrypt", {"scratch"})
     \/ pc = "encrypt" /\ (Fail("fault", {"scratch", "cont"})
                           \/ FailDirty("fault", {"scratch", "cont"}))
     \/ /\ pc = "encrypt" /\ pc' = "encode" /\ live' = live \ {"scratch"}
        /\ UNCHANGED <<entry, file, allow, heap, derived, draws, dropped, verdict, result>>
     \/ pc = "encode" /\ (Fail("fault", {"cont"}) \/ Goto("write", {"out"}))
     \/ pc = "write" /\ (Fail("fault", {"out", "cont"}) \/ HandOver("out", {"cont"}))

KeyNext ==
  \/ ParsePrivateKey \/ ParsePrivateKeyWithPassphrase \/ copyToBuffer \/ decodePEMBody
  \/ parseDER \/ Route \/ parseOpenSSH \/ parseOpenSSHEncrypted \/ parsePKCS8Encrypted
  \/ withScratch \/ opensshCrypt \/ pbes2Decrypt \/ pkcs7Unpad
  \/ parseOpenSSHPrivateBlock \/ parsePKCS8 \/ parseSEC1 \/ ed25519FromSeed
  \/ ecdsaFromScalar \/ pkcs1DER \/ newEd25519Signer \/ newECDSASigner \/ newMLKEM768Key
  \/ EndBorrows \/ rsaFromDER
  \/ GenerateEd25519Signer \/ GenerateX25519Key \/ GenerateMLKEM768Key
  \/ GenerateECDSASigner \/ generateDiceware \/ GenerateRSASigner
  \/ SharedSecret \/ Decapsulate \/ Encapsulate \/ marshalOpenSSH

-----------------------------------------------------------------------------

\* A call that has returned keeps no secret it does not hand over: its
\* buffers are destroyed but for the one its signer owns, except where an
\* error after the key was built makes the call drop it (parse.go:605,
\* parse_openssh.go:136, rsa.go:231), and then the call has failed; a heap
\* copy it could not wipe is reported by failing; and no RSA, ECDSA or ML-KEM
\* key is handed out where the policy refuses its copies.
CallLeavesNothing ==
  pc = "returned" =>
    /\ live = ({result} \ {"none"}) \cup dropped
    /\ verdict = "ok" <=> result # "none"
    /\ dropped # {} \/ heap # {} => verdict # "ok"
    /\ verdict = "ok" /\ entry # "encapsulate" => checkHeapTransients(file.alg)

\* One answer after decryption (parse_encrypted.go:236, pbes2.go:571): once
\* the passphrase has been used, an error does not tell which check of the
\* plaintext failed, and a file that its frame, its header, its KDF's
\* parameters or the type in an OpenSSH public block condemn never costs a
\* derivation.  What follows the type there is read only after one
\* (parse_openssh.go:200).
OneVerdict ==
  /\ pc = "returned" /\ derived =>
       verdict \in {"ok", "decrypt", "fault"}
                   \cup (IF file.kind = "encrypted" THEN {"policy", "unsupported"} ELSE {})
  /\ derived => /\ file.flaw \notin {"frame", "footer", "body", "header", "params", "cost", "type"}
                /\ file.cipher \in {"aes", "chacha"}
                /\ file.kind = "openssh" =>
                     file.alg \in SignerTypes /\ checkHeapTransients(file.alg)
=============================================================================
