------------------------------ MODULE Sealing -------------------------------
(***************************************************************************)
(* Keys as text (crypto/base64.cc) and sealed messages (crypto/crypto.cc). *)
(*                                                                         *)
(* A letter is its place in the table of 64; a number from 64 on is no     *)
(* letter.  The two "=" that fill up the text in memory are never printed  *)
(* and are left out.  Bytes and letters of keys have the code's widths.    *)
(*                                                                         *)
(* The cipher is external (OCB, vendored): what it promises is a tag that  *)
(* tells key, nonce, associated data and text.  The order of the parts,    *)
(* their lengths and what is checked are the code's.  An element of a      *)
(* sealed message is a tuple: of a byte, or of what the tag tells.         *)
(***************************************************************************)
EXTENDS Formats

CONSTANTS
    NonceLength,  \* Nonce::SERIALIZED_LEN (8)
    BlockLength   \* bytes that one use of the cipher enciphers (16)

ASSUME SealingConstants == {NonceLength, BlockLength} \subseteq Nat \ {0}

------------------------------------------------------------------------------
Letters == 0 .. 63
KeyLength == 16
PrintableLength == 22

(* Three bytes make four letters; the last byte makes two, the second of   *)
(* which has only its two highest bits from it.                            *)
base64_encode(raw) ==
    LET group(i) == (raw[3 * i - 2] * 256 + raw[3 * i - 1]) * 256 + raw[3 * i]
        last == raw[KeyLength] IN
    FlattenSeq([i \in 1 .. 5 |-> Digits(64, group(i), 4)])
    \o <<last \div 4, (last * 16) % 64>>

base64_decode(text) ==
    LET group(i) == ValueOf(64, SubSeq(text, 4 * i - 3, 4 * i)) IN
    FlattenSeq([i \in 1 .. 5 |-> Digits(256, group(i), 3)])
    \o <<((text[21] * 64 + text[22]) \div 16) % 256>>

printable_key(key) == base64_encode(key)

(* The constructor throws for what is not a key's own text, in the manner  *)
(* of a parser that has an error.                                          *)
Base64Key(text) ==
    IF \/ Len(text) # PrintableLength
       \/ ToSet(text) \ Letters # {}
       \/ printable_key(base64_decode(text)) # text
    THEN set_error(<<>>)
    ELSE Result(<<>>, base64_decode(text))

------------------------------------------------------------------------------
(* A CryptoSession; the second value of nonces is the next random number.  *)
CryptoSession(encrypt_key, decrypt_key, randomize, nonces) ==
    [randomize_nonce |-> randomize, nonce_val |-> nonces[1], entropy |-> nonces[2],
     blocks_encrypted |-> 0, encrypt_key |-> encrypt_key, decrypt_key |-> decrypt_key]

(* A moved session counts its nonces, also one that drew them before.      *)
Moved(session) == [session EXCEPT !.randomize_nonce = FALSE]

Nonce(value) == Digits(Byte, value, NonceLength)
AsElements(values) == [i \in DOMAIN values |-> <<values[i]>>]
Tag(key, nonce, associated_data, text) == <<key, nonce, associated_data, text>>

(* Text and tag, the nonce, the associated data; and the session after it. *)
encrypt(session, associated_data, plaintext) ==
    LET nonce_val == IF session.randomize_nonce THEN session.entropy
                     ELSE (session.nonce_val + 1) % Values(NonceLength)
        nonce == AsElements(Nonce(nonce_val))
        text == AsElements(plaintext) IN
    [session |-> [session EXCEPT !.nonce_val = nonce_val,
                     !.blocks_encrypted = @ + (Len(text) + BlockLength - 1) \div BlockLength],
     ciphertext |-> text \o <<Tag(session.encrypt_key, nonce, AsElements(associated_data), text)>>
                         \o nonce \o AsElements(associated_data)]

(* The text, as the input of a parser, or an error.  After the tag         *)
(* has been found right, other associated data would throw.                *)
decrypt(session, ciphertext, expected) ==
    LET body_len == Len(ciphertext) - NonceLength - Len(expected)
        text == SubSeq(ciphertext, 1, body_len - 1)
        nonce == SubSeq(ciphertext, body_len + 1, body_len + NonceLength) IN
    IF \/ body_len < 1
       \/ ciphertext[body_len] # Tag(session.decrypt_key, nonce, AsElements(expected), text)
       \/ SubSeq(ciphertext, body_len + NonceLength + 1, Len(ciphertext)) # AsElements(expected)
    THEN set_error(<<>>)
    ELSE Result([i \in DOMAIN text |-> text[i][1]], <<>>)
=============================================================================
