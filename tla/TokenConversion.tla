---------------------------- MODULE TokenConversion ----------------------------
(***************************************************************************)
(* The conversions between a raw token (pkg/tokens Token: ID and Secret   *)
(* byte strings) and its wire form core.BootstrapToken (TokenID and       *)
(* Secret as hex text), in pkg/tokens/conversion.go.  The gateway's       *)
(* /bootstrap/join handler (bootstrapJoinResponse) decodes every listed   *)
(* token with FromBootstrapToken and keys its signature by HexID() of the *)
(* result; the CRD store creates tokens with NewToken().ToBootstrapToken. *)
(*                                                                         *)
(* Hex text is a sequence of one-character strings and a byte a number in *)
(* 0..255.  Decoding follows encoding/hex.DecodeString, whose result on   *)
(* error is the prefix decoded before the bad pair.                       *)
(***************************************************************************)
EXTENDS Naturals, Sequences
LOCAL INSTANCE SequencesExt

CONSTANTS
  Chars,        \* characters a stored TokenID may contain
  MaxHexLen,    \* longest hex text enumerated
  ByteSample,   \* byte values a token's ID or Secret may contain
  MaxTokenLen   \* longest ID or Secret enumerated

ASSUME ByteSample \subseteq 0..255

LowerDigits == <<"0", "1", "2", "3", "4", "5", "6", "7",
                 "8", "9", "a", "b", "c", "d", "e", "f">>
UpperDigits == <<"A", "B", "C", "D", "E", "F">>

(* encoding/hex reverseHexTable: the value of a digit of either case, or  *)
(* -1 for a byte that is not a hex digit.                                  *)
DigitValue(c) ==
  IF \E i \in 1..16 : LowerDigits[i] = c
  THEN (CHOOSE i \in 1..16 : LowerDigits[i] = c) - 1
  ELSE IF \E i \in 1..6 : UpperDigits[i] = c
       THEN (CHOOSE i \in 1..6 : UpperDigits[i] = c) + 9
       ELSE -1

(* Token.HexID / HexSecret: hex.EncodeToString, two lower-case digits per *)
(* byte, high nibble first.                                                *)
HexEncode(bytes) ==
  FlattenSeq([i \in 1..Len(bytes) |->
                <<LowerDigits[bytes[i] \div 16 + 1], LowerDigits[(bytes[i] % 16) + 1]>>])

(* hex.DecodeString: pairs are decoded left to right; a pair with a       *)
(* non-digit stops with InvalidByteError, and an odd trailing digit       *)
(* fails with ErrLength.  bytes is what was decoded before the error.     *)
RECURSIVE HexDecode(_)
HexDecode(s) ==
  IF Len(s) = 0 THEN [ok |-> TRUE, bytes |-> <<>>]
  ELSE IF Len(s) = 1 THEN [ok |-> FALSE, bytes |-> <<>>]
  ELSE LET hi   == DigitValue(s[1])
           lo   == DigitValue(s[2])
           rest == HexDecode(Tail(Tail(s)))
       IN IF hi < 0 \/ lo < 0
          THEN [ok |-> FALSE, bytes |-> <<>>]
          ELSE [ok |-> rest.ok, bytes |-> <<16 * hi + lo>> \o rest.bytes]

(* The nil *Token FromBootstrapToken returns with an error.               *)
NoToken == [ok |-> FALSE, id |-> <<>>, secret |-> <<>>]

(* hex.DecodedLen                                                          *)
DecodedLen(n) == n \div 2

(* copy(dst, src) into a zeroed slice of length n.                        *)
CopyInto(n, src) == [i \in 1..n |-> IF i <= Len(src) THEN src[i] ELSE 0]

(* Token.ToBootstrapToken: hex of ID and Secret (the empty Labels map     *)
(* carries nothing the conversions read).                                  *)
ToBootstrapToken(t) == [tokenID |-> HexEncode(t.id), secret |-> HexEncode(t.secret)]

-----------------------------------------------------------------------------
(***************************************************************************)
(* One FromBootstrapToken call, statement by statement.  The argument is   *)
(* either a token the store created (ToBootstrapToken of a raw token) or   *)
(* a BootstrapToken object written by another client, whose TokenID or     *)
(* Secret may be any text.                                                 *)
(***************************************************************************)
VARIABLES
  bt,        \* the *core.BootstrapToken argument
  created,   \* bt is ToBootstrapToken(raw)
  raw,       \* the raw token bt was made from, if created
  pc,        \* "decodeID", "decodeSecret", "copy", "returned", "failed"
  decodedID, \* the result of hex.DecodeString(tokenID)
  result     \* the *Token returned (NoToken on error)

vars == <<bt, created, raw, pc, decodedID, result>>

HexTexts == SeqOf(Chars, MaxHexLen)
RawTokens == [id : SeqOf(ByteSample, MaxTokenLen), secret : SeqOf(ByteSample, MaxTokenLen)]
WrittenTokens == [tokenID : HexTexts, secret : {<<>>}] \cup [tokenID : {<<>>}, secret : HexTexts]

Init ==
  /\ \/ /\ created = TRUE
        /\ raw \in RawTokens
        /\ bt = ToBootstrapToken(raw)
     \/ /\ created = FALSE
        /\ raw = [id |-> <<>>, secret |-> <<>>]
        /\ bt \in WrittenTokens
  /\ pc = "decodeID"
  /\ decodedID = <<>>
  /\ result = NoToken

(* A mutant of DecodeID: the error of DecodeString is not checked.        *)
DecodeIDIgnoresError ==
  /\ pc = "decodeID"
  /\ decodedID' = HexDecode(bt.tokenID).bytes
  /\ pc' = "decodeSecret"
  /\ UNCHANGED <<bt, created, raw, result>>

(* decodedID, err := hex.DecodeString(tokenID); if err != nil return nil *)
DecodeID ==
  /\ pc = "decodeID"
  /\ LET d == HexDecode(bt.tokenID)
     IN /\ decodedID' = d.bytes
        /\ pc' = IF d.ok THEN "decodeSecret" ELSE "failed"
  /\ UNCHANGED <<bt, created, raw, result>>

(* A mutant of DecodeSecret: the secret is decoded from the token id.    *)
DecodeSecretFromID ==
  /\ pc = "decodeSecret"
  /\ LET d == HexDecode(bt.tokenID)
     IN /\ result' = [ok     |-> TRUE,
                      id     |-> CopyInto(DecodedLen(Len(bt.tokenID)), decodedID),
                      secret |-> CopyInto(DecodedLen(Len(bt.secret)), d.bytes)]
        /\ pc' = "returned"
  /\ UNCHANGED <<bt, created, raw, decodedID>>

(* A mutant of DecodeSecret: on error it returns the allocated, zeroed    *)
(* token with the error (return token, err) instead of nil.               *)
DecodeSecretReturnsToken ==
  /\ pc = "decodeSecret"
  /\ LET d == HexDecode(bt.secret)
     IN /\ result' = [ok     |-> TRUE,
                      id     |-> CopyInto(DecodedLen(Len(bt.tokenID)), IF d.ok THEN decodedID ELSE <<>>),
                      secret |-> CopyInto(DecodedLen(Len(bt.secret)), IF d.ok THEN d.bytes ELSE <<>>)]
        /\ pc' = IF d.ok THEN "returned" ELSE "failed"
  /\ UNCHANGED <<bt, created, raw, decodedID>>

(* decodedSecret, err := hex.DecodeString(tokenSecret); on error return   *)
(* nil; otherwise copy both into slices of DecodedLen and return.         *)
DecodeSecret ==
  /\ pc = "decodeSecret"
  /\ LET d == HexDecode(bt.secret)
     IN IF d.ok
        THEN /\ result' = [ok     |-> TRUE,
                           id     |-> CopyInto(DecodedLen(Len(bt.tokenID)), decodedID),
                           secret |-> CopyInto(DecodedLen(Len(bt.secret)), d.bytes)]
             /\ pc' = "returned"
        ELSE /\ pc' = "failed"
             /\ UNCHANGED result
  /\ UNCHANGED <<bt, created, raw, decodedID>>

Next == DecodeID \/ DecodeSecret

Spec == Init /\ [][Next]_vars


(* The reference decoder: text decodes when it has an even number of      *)
(* characters, all hex digits, and byte i is 16 * digit(2i-1) + digit(2i). *)
IsHexText(s) == Len(s) % 2 = 0 /\ \A i \in 1..Len(s) : DigitValue(s[i]) >= 0
ReferenceBytes(s) ==
  [i \in 1..Len(s) \div 2 |-> 16 * DigitValue(s[2 * i - 1]) + DigitValue(s[2 * i])]

Returned == pc \in {"returned", "failed"}

TypeOK ==
  /\ bt \in [tokenID : Seq(Chars \cup Range(LowerDigits)), secret : Seq(Chars \cup Range(LowerDigits))]
  /\ created \in BOOLEAN
  /\ raw \in RawTokens
  /\ pc \in {"decodeID", "decodeSecret", "returned", "failed"}
  /\ decodedID \in Seq(0..255)
  /\ result.ok = (pc = "returned")

(* FromBootstrapToken returns a token exactly when TokenID and Secret are *)
(* each an even number of hex digits of either case, and then ID and      *)
(* Secret are the bytes those digits spell; for any other object the join *)
(* handler gets an error rather than a token built from a partial decode. *)
DecodeMatchesReference ==
  Returned =>
    /\ pc = "returned" <=> IsHexText(bt.tokenID) /\ IsHexText(bt.secret)
    /\ pc = "returned" =>
         result = [ok |-> TRUE, id |-> ReferenceBytes(bt.tokenID),
                   secret |-> ReferenceBytes(bt.secret)]

(* A token the store created (NewToken().ToBootstrapToken()) comes back   *)
(* from FromBootstrapToken with its ID and Secret, and the key            *)
(* bootstrapJoinResponse gives its signature, rawToken.HexID(), is the    *)
(* TokenID the store holds, which is the id the agent looks it up by.     *)
JoinSignatureKeyIsTokenID ==
  created /\ Returned =>
    /\ pc = "returned"
    /\ result = [ok |-> TRUE, id |-> raw.id, secret |-> raw.secret]
    /\ HexEncode(result.id) = bt.tokenID
=============================================================================
