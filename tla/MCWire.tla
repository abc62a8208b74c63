-------------------------------- MODULE MCWire --------------------------------
(* Wire with two messages of every type: one with short strings and small   *)
(* numbers, one that fills every field.                                     *)
EXTENDS Wire

Small(type) ==
    [Type |-> type, Timestamp |-> <<0, 0, 0, 0, 1, 2, 3, 4>>, StockLocate |-> 31,
     TrackingNum |-> 0, Stock |-> <<90>>, OrderRef |-> <<0, 0, 0, 0, 0, 0, 0, 1>>,
     OrigOrderRef |-> <<0, 0, 0, 0, 0, 0, 0, 2>>, Side |-> 66, Shares |-> 100, Price |-> 1,
     MatchNumber |-> <<0, 0, 0, 0, 0, 0, 0, 3>>, MPID |-> <<71, 83>>, EventCode |-> 81,
     TradingState |-> 84, Reserved |-> 0, MarketCategory |-> 78, FinancialStatus |-> 32,
     RoundLotSize |-> 100, RoundLotsOnly |-> 78, IssueClassification |-> 67,
     IssueSubType |-> <<90, 32>>, Authenticity |-> 80, ShortSaleThreshold |-> 32,
     IPOFlag |-> 32, LULDRefPriceTier |-> 49, ETPFlag |-> 78, ETPLeverageFactor |-> 0,
     InverseIndicator |-> 77]

Large(type) ==
    [Small(type) EXCEPT
        !.Timestamp = <<0, 0, 78, 148, 145, 79, 7, 9>>, !.StockLocate = 65535,
        !.TrackingNum = 770, !.Stock = <<66, 76, 73, 84, 90, 65, 67, 68>>,
        !.OrderRef = <<128, 129, 130, 131, 132, 133, 134, 135>>,
        !.OrigOrderRef = <<240, 241, 242, 243, 244, 245, 246, 247>>, !.Side = 83,
        !.Shares = 2147483647, !.Price = 21000099,
        !.MatchNumber = <<200, 201, 202, 203, 204, 205, 206, 207>>,
        !.MPID = <<74, 80, 77, 83>>, !.Reserved = 32, !.RoundLotSize = 16909060]

TwoOfEach == {Small(t) : t \in MsgTypes} \cup {Large(t) : t \in MsgTypes}
=============================================================================
