--------------------------------- MODULE Wire ---------------------------------
(***************************************************************************)
(* A message on the wire: the binary encoder (itch/binary.go) against the  *)
(* decoder (cmd/decoder/main.go), and both against the JSON encoder        *)
(* (itch/json.go).  The server puts one length-prefixed message into a     *)
(* WebSocket frame; the decoder also accepts several of them, and a body   *)
(* without the prefix.                                                     *)
(*                                                                         *)
(* Bytes are numbers.  TLC's integers have 32 bits, so a 64-bit number is  *)
(* written as its eight bytes, the first one the most significant; smaller *)
(* ones are numbers.  Strings are sequences of character codes.  A price   *)
(* is a number of ticks of 0.01, the TickSize of every symbol; a printed   *)
(* price is its whole part and its four decimals.                          *)
(***************************************************************************)
EXTENDS Integers, Sequences, SequencesExt

CONSTANTS
    Messages,           \* the messages that are encoded
    MaxInFrame          \* bound: messages in one WebSocket frame

Byte  == 0 .. 255
ASCII == 0 .. 127
Space == 32
White == {9, 10, 11, 12, 13, 32}

\* A number of 16 bits, and of 32.
Fits16(x) == x \in Nat /\ x < 65536
Fits32(x) == x \in Nat /\ x \div 65536 < 65536

\* n ticks of 0.01 in ten-thousandths.  (uint32(price * 10000) cuts off; for
\* a whole number of ticks the product is never below the exact one.)
Price4(n) == n * 100

\* A ticker or MPID: at most width ASCII characters, the first and the last of
\* them not white.
Text(s, width) ==
    /\ s \in Seq(ASCII) /\ Len(s) <= width
    /\ s # <<>> => s[1] \notin White /\ s[Len(s)] \notin White

\* The message types: 'S', 'R', 'H', 'A', 'F', 'E', 'X', 'D', 'U' and 'P'.
MsgSystemEvent        == 83
MsgStockDirectory     == 82
MsgStockTradingAction == 72
MsgAddOrder           == 65
MsgAddOrderMPID       == 70
MsgOrderExecuted      == 69
MsgOrderCancel        == 88
MsgOrderDelete        == 68
MsgOrderReplace       == 85
MsgTrade              == 80

MsgTypes == {MsgSystemEvent, MsgStockDirectory, MsgStockTradingAction, MsgAddOrder,
             MsgAddOrderMPID, MsgOrderExecuted, MsgOrderCancel, MsgOrderDelete,
             MsgOrderReplace, MsgTrade}

OneByte  == {"EventCode", "TradingState", "Reserved", "Side", "MarketCategory", "FinancialStatus",
             "RoundLotsOnly", "IssueClassification", "Authenticity", "ShortSaleThreshold",
             "IPOFlag", "LULDRefPriceTier", "ETPFlag", "InverseIndicator"}
Uint64s  == {"OrderRef", "OrigOrderRef", "MatchNumber"}

\* A Message as the struct declares it.  Share and lot counts are int32 and not
\* negative, a time of day has less than 48 bits, and a price, in ten-thousandths,
\* fits a uint32.
Message(m) ==
    /\ m.Type \in MsgTypes
    /\ \A f \in OneByte : m[f] \in Byte
    /\ \A f \in Uint64s : m[f] \in [1 .. 8 -> Byte]
    /\ m.IssueSubType \in [1 .. 2 -> Byte]
    /\ Fits16(m.StockLocate) /\ Fits16(m.TrackingNum)
    /\ m.Timestamp \in [1 .. 8 -> Byte] /\ m.Timestamp[1] = 0 /\ m.Timestamp[2] = 0
    /\ Fits32(m.Shares) /\ Fits32(m.RoundLotSize) /\ Fits32(m.ETPLeverageFactor)
    /\ m.Price \in Nat /\ Fits32(Price4(m.Price))
    /\ Text(m.Stock, 8) /\ Text(m.MPID, 4)

ASSUME WireAssumption == MaxInFrame \in Nat \ {0} /\ \A m \in Messages : Message(m)

VARIABLES
    batch,              \* the messages in the frame
    raw,                \* TRUE: the frame is a body without its length prefix
    payload,            \* the bytes of the frame
    printed             \* what the decoder made of it: one record for each line

wireVars == <<batch, raw, payload, printed>>

\* The low bytes of x, the most significant one first, and back.
PutUint16(x)  == <<(x \div 256) % 256, x % 256>>
PutUint32(x)  == PutUint16(x \div 65536) \o PutUint16(x % 65536)
Uint16(bytes) == bytes[1] * 256 + bytes[2]
Uint32(bytes) == Uint16(SubSeq(bytes, 1, 2)) * 65536 + Uint16(SubSeq(bytes, 3, 4))

-----------------------------------------------------------------------------
(* The encoder.                                                            *)

\* PadStock and PadMPID.
Pad(s, width) == [k \in 1 .. width |-> IF k <= Len(s) THEN s[k] ELSE Space]

\* The six low bytes.
putTimestamp(nanos) == SubSeq(nanos, 3, 8)

\* The bytes of a field of m.
Put(m, field) ==
    CASE field \in {"StockLocate", "TrackingNum"}                    -> PutUint16(m[field])
      [] field = "Timestamp"                                         -> putTimestamp(m.Timestamp)
      [] field \in Uint64s                                             -> m[field]
      [] field \in {"Shares", "RoundLotSize", "ETPLeverageFactor"}   -> PutUint32(m[field])
      [] field = "Price"                                             -> PutUint32(Price4(m.Price))
      [] field = "Stock"                                             -> Pad(m.Stock, 8)
      [] field = "MPID"                                              -> Pad(m.MPID, 4)
      [] field = "IssueSubType"                                      -> m.IssueSubType
      [] field = "Reason"                                            -> Pad(<<>>, 4)
      [] OTHER                                                       -> <<m[field]>>

\* A field and the slice of the body it is written to, as in buf[from:to].
Header == << <<"Type", 0, 1>>, <<"StockLocate", 1, 3>>, <<"TrackingNum", 3, 5>>,
             <<"Timestamp", 5, 11>> >>

encodeSystemEvent == Header \o << <<"EventCode", 11, 12>> >>

encodeStockDirectory == Header \o
    << <<"Stock", 11, 19>>, <<"MarketCategory", 19, 20>>, <<"FinancialStatus", 20, 21>>,
       <<"RoundLotSize", 21, 25>>, <<"RoundLotsOnly", 25, 26>>,
       <<"IssueClassification", 26, 27>>, <<"IssueSubType", 27, 29>>,
       <<"Authenticity", 29, 30>>, <<"ShortSaleThreshold", 30, 31>>, <<"IPOFlag", 31, 32>>,
       <<"LULDRefPriceTier", 32, 33>>, <<"ETPFlag", 33, 34>>,
       <<"ETPLeverageFactor", 34, 38>>, <<"InverseIndicator", 38, 39>> >>

encodeStockTradingAction == Header \o
    << <<"Stock", 11, 19>>, <<"TradingState", 19, 20>>, <<"Reserved", 20, 21>>,
       <<"Reason", 21, 25>> >>

encodeAddOrder == Header \o
    << <<"OrderRef", 11, 19>>, <<"Side", 19, 20>>, <<"Shares", 20, 24>>,
       <<"Stock", 24, 32>>, <<"Price", 32, 36>> >>

encodeAddOrderMPID == encodeAddOrder \o << <<"MPID", 36, 40>> >>

encodeOrderExecuted == Header \o
    << <<"OrderRef", 11, 19>>, <<"Shares", 19, 23>>, <<"MatchNumber", 23, 31>> >>

encodeOrderCancel == Header \o << <<"OrderRef", 11, 19>>, <<"Shares", 19, 23>> >>

encodeOrderDelete == Header \o << <<"OrderRef", 11, 19>> >>

encodeOrderReplace == Header \o
    << <<"OrigOrderRef", 11, 19>>, <<"OrderRef", 19, 27>>, <<"Shares", 27, 31>>,
       <<"Price", 31, 35>> >>

encodeTrade == encodeAddOrder \o << <<"MatchNumber", 36, 44>> >>

Layout(type) ==
    CASE type = MsgSystemEvent        -> encodeSystemEvent
      [] type = MsgStockDirectory     -> encodeStockDirectory
      [] type = MsgStockTradingAction -> encodeStockTradingAction
      [] type = MsgAddOrder           -> encodeAddOrder
      [] type = MsgAddOrderMPID       -> encodeAddOrderMPID
      [] type = MsgOrderExecuted      -> encodeOrderExecuted
      [] type = MsgOrderCancel        -> encodeOrderCancel
      [] type = MsgOrderDelete        -> encodeOrderDelete
      [] type = MsgOrderReplace       -> encodeOrderReplace
      [] type = MsgTrade              -> encodeTrade

\* The slice that holds byte i (from 0): the one written last, if there are several.
SlotAt(layout, i) == layout[Max({n \in DOMAIN layout : layout[n][2] <= i /\ i < layout[n][3]})]

Body(m) ==
    LET layout == Layout(m.Type)
    IN  [i \in 1 .. Last(layout)[3] |->
            LET slot == SlotAt(layout, i - 1) IN Put(m, slot[1])[i - slot[2]]]

EncodeBinary(m) == PutUint16(Len(Body(m))) \o Body(m)

-----------------------------------------------------------------------------
(* The JSON encoder: the object, without its "type", field by field.       *)

formatPrice(n) == <<n \div 100, (n % 100) * 100>>

\* strings.TrimSpace on ASCII: from the first character that is not white to the last.
TrimSpace(s) ==
    LET ink == {k \in DOMAIN s : s[k] \notin White}
    IN  IF ink = {} THEN <<>> ELSE SubSeq(s, Min(ink), Max(ink))

JsonFields(type) ==
    {"Timestamp", "StockLocate"} \cup
    CASE type = MsgSystemEvent        -> {"EventCode"}
      [] type = MsgStockDirectory     -> {"Stock", "MarketCategory", "FinancialStatus",
                                          "RoundLotSize", "RoundLotsOnly"}
      [] type = MsgStockTradingAction -> {"Stock", "TradingState"}
      [] type = MsgAddOrder           -> {"Stock", "OrderRef", "Side", "Shares", "Price"}
      [] type = MsgAddOrderMPID       -> {"Stock", "OrderRef", "Side", "Shares", "Price", "MPID"}
      [] type = MsgOrderExecuted      -> {"OrderRef", "Shares", "MatchNumber"}
      [] type = MsgOrderCancel        -> {"OrderRef", "Shares"}
      [] type = MsgOrderDelete        -> {"OrderRef"}
      [] type = MsgOrderReplace       -> {"OrigOrderRef", "OrderRef", "Shares", "Price"}
      [] type = MsgTrade              -> {"OrderRef", "Side", "Shares", "Stock", "Price",
                                          "MatchNumber"}

msgToMap(m) ==
    [field \in JsonFields(m.Type) |->
        IF field = "Price" THEN formatPrice(m.Price)
        ELSE IF field \in {"Stock", "MPID"} THEN TrimSpace(m[field])
        ELSE m[field]]

-----------------------------------------------------------------------------
(* The decoder.                                                            *)

fmtPrice4(n) == <<n \div 10000, n % 10000>>

\* The bytes without the spaces at the end.
readStock(bytes) ==
    SubSeq(bytes, 1, Max({0} \cup {k \in DOMAIN bytes : bytes[k] # Space}))

readTimestamp(bytes) == <<0, 0>> \o bytes

\* The value a field is printed with.
Get(field, bytes) ==
    CASE field = "StockLocate"                -> Uint16(bytes)
      [] field \in {"Shares", "RoundLotSize"} -> Uint32(bytes)
      [] field = "Timestamp"                  -> readTimestamp(bytes)
      [] field \in Uint64s                    -> bytes
      [] field = "Price"                      -> fmtPrice4(Uint32(bytes))
      [] field \in {"Stock", "MPID"}          -> readStock(bytes)
      [] OTHER                                -> bytes[1]

\* The slices each decoder reads, as in b[from:to].
ReadHeader == { <<"StockLocate", 1, 3>>, <<"Timestamp", 5, 11>> }

decodeSystemEvent == { <<"EventCode", 11, 12>> }

decodeStockDirectory == { <<"Stock", 11, 19>>, <<"MarketCategory", 19, 20>>,
                          <<"FinancialStatus", 20, 21>>, <<"RoundLotSize", 21, 25>> }

decodeStockTradingAction == { <<"Stock", 11, 19>>, <<"TradingState", 19, 20>> }

decodeAddOrder == { <<"OrderRef", 11, 19>>, <<"Side", 19, 20>>, <<"Shares", 20, 24>>,
                    <<"Stock", 24, 32>>, <<"Price", 32, 36>> }

decodeAddOrderMPID == decodeAddOrder \cup { <<"MPID", 36, 40>> }

decodeOrderExecuted == { <<"OrderRef", 11, 19>>, <<"Shares", 19, 23>>,
                         <<"MatchNumber", 23, 31>> }

decodeOrderCancel == { <<"OrderRef", 11, 19>>, <<"Shares", 19, 23>> }

decodeOrderDelete == { <<"OrderRef", 11, 19>> }

\* Mutant: the two order numbers of a replace are swapped.
decodeOrderReplaceSwapped == { <<"OrderRef", 11, 19>>, <<"OrigOrderRef", 19, 27>>,
                               <<"Shares", 27, 31>>, <<"Price", 31, 35>> }

decodeOrderReplace == { <<"OrigOrderRef", 11, 19>>, <<"OrderRef", 19, 27>>,
                        <<"Shares", 27, 31>>, <<"Price", 31, 35>> }

decodeTrade == decodeAddOrder \cup { <<"MatchNumber", 36, 44>> }

\* The shortest body of each type, and what is read of it.
Decoder(type) ==
    CASE type = MsgSystemEvent        -> [min |-> 12, reads |-> decodeSystemEvent]
      [] type = MsgStockDirectory     -> [min |-> 39, reads |-> decodeStockDirectory]
      [] type = MsgStockTradingAction -> [min |-> 25, reads |-> decodeStockTradingAction]
      [] type = MsgAddOrder           -> [min |-> 36, reads |-> decodeAddOrder]
      [] type = MsgAddOrderMPID       -> [min |-> 40, reads |-> decodeAddOrderMPID]
      [] type = MsgOrderExecuted      -> [min |-> 31, reads |-> decodeOrderExecuted]
      [] type = MsgOrderCancel        -> [min |-> 23, reads |-> decodeOrderCancel]
      [] type = MsgOrderDelete        -> [min |-> 19, reads |-> decodeOrderDelete]
      [] type = MsgOrderReplace       -> [min |-> 35, reads |-> decodeOrderReplace]
      [] type = MsgTrade              -> [min |-> 44, reads |-> decodeTrade]
      [] OTHER                        -> [min |-> 0, reads |-> {}]

\* The line for one body; no field is printed of a truncated or unknown one.
\* The early return for an empty body is in decodeBinaryFrames, the only caller
\* that could hand one over: the loop stops at a length of 0.
decodeMessage(body) ==
    LET d     == Decoder(body[1])
        known == d.min > 0 /\ Len(body) >= d.min
        reads == IF known THEN ReadHeader \cup d.reads ELSE {}
    IN  [type   |-> body[1],
         ok     |-> known,
         fields |-> [f \in {r[1] : r \in reads} |->
                        LET r == CHOOSE r \in reads : r[1] = f
                        IN  Get(f, SubSeq(body, r[2] + 1, r[3]))]]

\* Mutant: the next message is looked for two bytes early.
messagesFromShort(data) ==
    LET step[offset \in 0 .. Len(data)] ==
            LET n == Uint16(SubSeq(data, offset + 1, offset + 2))
            IN  IF offset + 2 < Len(data) /\ n > 0 /\ offset + 2 + n <= Len(data)
                THEN <<decodeMessage(SubSeq(data, offset + 3, offset + 2 + n))>>
                        \o step[offset + n]
                ELSE <<>>
    IN  step[0]

\* The loop over messages with a length prefix: it ends at the first prefix
\* that is 0 or leads past the end.
messagesFrom(data) ==
    LET step[offset \in 0 .. Len(data)] ==
            LET n == Uint16(SubSeq(data, offset + 1, offset + 2))
            IN  IF offset + 2 < Len(data) /\ n > 0 /\ offset + 2 + n <= Len(data)
                THEN <<decodeMessage(SubSeq(data, offset + 3, offset + 2 + n))>>
                        \o step[offset + 2 + n]
                ELSE <<>>
    IN  step[0]

decodeBinaryFrames(data) ==
    IF Len(data) < 2
    THEN <<>>
    ELSE IF Uint16(SubSeq(data, 1, 2)) + 2 = Len(data)
         THEN IF Len(data) = 2 THEN <<>> ELSE <<decodeMessage(SubSeq(data, 3, Len(data)))>>
         ELSE IF messagesFrom(data) = <<>>
              THEN <<decodeMessage(data)>>
              ELSE messagesFrom(data)

-----------------------------------------------------------------------------

WireInit == batch = <<>> /\ raw = FALSE /\ payload = <<>> /\ printed = <<>>

\* A message with its prefix is added to the frame.
WriteMessage(m) ==
    /\ printed = <<>> /\ ~raw /\ Len(batch) < MaxInFrame
    /\ payload' = payload \o EncodeBinary(m)
    /\ batch' = Append(batch, m)
    /\ UNCHANGED <<raw, printed>>

\* A frame that is just the body of a message.
WriteBody(m) ==
    /\ printed = <<>> /\ batch = <<>>
    /\ payload' = Body(m)
    /\ batch' = <<m>>
    /\ raw' = TRUE
    /\ UNCHANGED printed

\* The decoder reads the frame.
ReadMessage ==
    /\ batch # <<>> /\ printed = <<>>
    /\ printed' = decodeBinaryFrames(payload)
    /\ UNCHANGED <<batch, raw, payload>>

NextFrame ==
    /\ printed # <<>>
    /\ batch' = <<>> /\ raw' = FALSE /\ payload' = <<>> /\ printed' = <<>>

WireNext ==
    \/ \E m \in Messages : WriteMessage(m) \/ WriteBody(m)
    \/ ReadMessage
    \/ NextFrame

WireSpec == WireInit /\ [][WireNext]_wireVars

-----------------------------------------------------------------------------
(* Properties.                                                             *)

\* The decoder finds the messages of a frame, all of them and in their order,
\* whether it holds one, several or a bare body: none is skipped, taken for
\* truncated or read from the middle of another.
FramesSplit ==
    printed # <<>> =>
        /\ Len(printed) = Len(batch)
        /\ \A i \in DOMAIN batch : printed[i].type = batch[i].Type /\ printed[i].ok

\* The JSON object mirrors the binary message: every value the decoder reads
\* out of the bytes is the one a JSON client is sent for the same message.
FormatsAgree ==
    \A i \in DOMAIN printed \cap DOMAIN batch : \A f \in DOMAIN printed[i].fields :
        f \in JsonFields(batch[i].Type) /\ printed[i].fields[f] = msgToMap(batch[i])[f]
=============================================================================
