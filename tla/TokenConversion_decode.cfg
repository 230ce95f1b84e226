\* One FromBootstrapToken call on every created token and on every small
\* hand-written object: decoding matches the reference decoder, and a
\* created token decodes to itself under its own TokenID.
CONSTANTS
  Chars <- MCChars
  MaxHexLen = 3
  ByteSample <- MCByteSample
  MaxTokenLen = 2
SPECIFICATION Spec
INVARIANT TypeOK
INVARIANT DecodeMatchesReference
INVARIANT JoinSignatureKeyIsTokenID
\* The call returns, or fails, and the model then stops.
CHECK_DEADLOCK FALSE
