---- MODULE Tokens ----
(* internal/tokens: the signed media tokens that the audiobooks portal puts     *)
(* into the URLs of audio files and covers. A token is a record of its claims   *)
(* and of the key it was signed with.                                           *)
EXTENDS Integers

CONSTANTS
  Padded,        \* secrets that are standard base64
  Unpadded,      \* secrets that are base64 without padding
  Blanks,        \* secrets of white space only
  NoToken

Audience == "audiobook_backend"

(* The file_idx of a cover's token. *)
CoverFileIdx == -1

(* Mutant: only the preferred form is decoded. *)
DecodeSecretPadded(secret) ==
  IF secret \in Padded THEN <<"decoded", secret>> ELSE <<"as it is", secret>>

(* decodeSecret: the HMAC key a secret stands for, base64 before raw bytes.     *)
DecodeSecret(secret) ==
  IF secret \in Padded \cup Unpadded THEN <<"decoded", secret>> ELSE <<"as it is", secret>>

Unconfigured(secret) == secret \in Blanks

(* Mutant: a token is good for every file of its book. *)
VerifiedForBook(secret, t, book, idx) ==
  /\ ~Unconfigured(secret)
  /\ t # NoToken
  /\ t.alg = "HS256" /\ t.key = DecodeSecret(secret)
  /\ t.aud = Audience /\ t.exp = "ahead"
  /\ t.book = book /\ t.sub

(* Verify without an error: algorithm and signature, audience and expiry (which *)
(* must be there), then book_id, file_idx and a sub, whoever it is.             *)
Verified(secret, t, book, idx) ==
  /\ ~Unconfigured(secret)
  /\ t # NoToken
  /\ t.alg = "HS256" /\ t.key = DecodeSecret(secret)
  /\ t.aud = Audience /\ t.exp = "ahead"
  /\ t.book = book /\ t.file_idx = idx /\ t.sub
====
