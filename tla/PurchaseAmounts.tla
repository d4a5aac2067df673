---------------------------- MODULE PurchaseAmounts ----------------------------
(***************************************************************************)
(* The money of a purchase: decimal.ts, the quote of                       *)
(* payment-pricing.service.ts and the averages of the portfolio.           *)
(*                                                                         *)
(* Amounts travel as decimal text and are computed as integers scaled by   *)
(* 10^Scale; every quotient is cut off toward zero.  A text is a sign, the *)
(* digits before and after the point, and an exponent.                     *)
(***************************************************************************)
EXTENDS Integers, Sequences

CONSTANTS
    Scale,          \* DECIMAL_SCALE
    AssetDecimals,  \* PAYMENT_ASSET_DECIMALS of the asset paid with
    TokenTexts,     \* token amounts a payer may type
    TierTexts,      \* prices of the presale tiers
    SpotTexts,      \* prices the market provider may answer with
    MaxPurchases    \* bound on the purchases of the wallet

Texts == [neg : BOOLEAN, whole : Seq(0..9), frac : Seq(0..9), exp : Int]

ASSUME AmountsAreScaled == Scale \in Nat \ {0} /\ AssetDecimals \in Nat

(* The prices of the tiers are those the migrations seed.                  *)
ASSUME TextsAssumption ==
    /\ TokenTexts \subseteq Texts
    /\ SpotTexts \subseteq Texts
    /\ TierTexts \subseteq {text \in Texts : ~text.neg}

VARIABLE purchases  \* the checkouts of a wallet: what the payer asked, what was stored

(* BigInt division cuts off toward zero.                                   *)
Quotient(a, b) == IF a < 0 THEN -((-a) \div b) ELSE a \div b

TenTo[n \in Nat] == IF n = 0 THEN 1 ELSE 10 * TenTo[n - 1]

DigitsOf[n \in Nat] ==
    IF n < 10 THEN <<n>> ELSE Append(DigitsOf[n \div 10], n % 10)

NumberOf(digits) ==
    LET number[n \in 0..Len(digits)] ==
            IF n = 0 THEN 0 ELSE 10 * number[n - 1] + digits[n]
    IN  number[Len(digits)]

parseFixed(text) ==
    LET shift == text.exp - Len(text.frac) + Scale
        number == NumberOf(text.whole \o text.frac)
        size == IF shift >= 0 THEN number * TenTo[shift] ELSE number \div TenTo[-shift]
    IN  IF text.neg THEN -size ELSE size

padStart(digits) == [i \in 1..(Scale - Len(digits)) |-> 0] \o digits

(* Faulty: the zeros between the point and the first digit are dropped.    *)
MutantFormatFixed(value) ==
    LET size == IF value < 0 THEN -value ELSE value
        fraction == size % TenTo[Scale]
    IN  [neg |-> value < 0, whole |-> DigitsOf[size \div TenTo[Scale]], exp |-> 0,
         frac |-> IF fraction = 0 THEN <<>> ELSE DigitsOf[fraction]]

(* The zeros at the end go.                                                *)
dropZeros(digits) ==
    LET last == CHOOSE n \in 0..Len(digits) :
                    /\ n = 0 \/ digits[n] # 0
                    /\ \A k \in n+1..Len(digits) : digits[k] = 0
    IN  SubSeq(digits, 1, last)

formatFixed(value) ==
    LET size == IF value < 0 THEN -value ELSE value
    IN  [neg |-> value < 0, whole |-> DigitsOf[size \div TenTo[Scale]], exp |-> 0,
         frac |-> dropZeros(padStart(DigitsOf[size % TenTo[Scale]]))]

normalizeFixed(text) == formatFixed(parseFixed(text))

multiplyFixed(left, right) ==
    formatFixed(Quotient(parseFixed(left) * parseFixed(right), TenTo[Scale]))

(* Faulty: a quotient is rounded up.                                       *)
MutantDivideFixed(left, right) ==
    IF parseFixed(right) = 0 THEN formatFixed(0)
    ELSE formatFixed(1 + Quotient(parseFixed(left) * TenTo[Scale], parseFixed(right)))

divideFixed(left, right) ==
    IF parseFixed(right) = 0 THEN formatFixed(0)
    ELSE formatFixed(Quotient(parseFixed(left) * TenTo[Scale], parseFixed(right)))

(* Faulty: the number of decimals of the asset is taken for the scale.     *)
MutantUsdToAssetBaseUnits(usd, spot) ==
    Quotient(parseFixed(usd) * TenTo[Scale], parseFixed(spot))

usdToAssetBaseUnits(usd, spot) ==
    Quotient(parseFixed(usd) * TenTo[AssetDecimals], parseFixed(spot))

-----------------------------------------------------------------------------
PurchasesInit == purchases = <<>>

quotePurchase(token, tier, spot) ==
    /\ Len(purchases) < MaxPurchases
    /\ parseFixed(normalizeFixed(token)) > 0
    /\ parseFixed(spot) > 0
    /\ LET tokenAmount == normalizeFixed(token)
           tokenPrice == normalizeFixed(tier)
           usd == normalizeFixed(multiplyFixed(tokenAmount, tokenPrice))
       IN  purchases' = Append(purchases,
               [token |-> tokenAmount, price |-> tokenPrice, usd |-> usd,
                spot |-> normalizeFixed(spot), confirmed |-> FALSE,
                units |-> usdToAssetBaseUnits(usd, normalizeFixed(spot))])

(* A scan or a webhook settles the checkout.                               *)
ConfirmPurchase(i) ==
    /\ ~purchases[i].confirmed
    /\ purchases' = [purchases EXCEPT ![i].confirmed = TRUE]

PurchasesNext ==
    \/ \E token \in TokenTexts, tier \in TierTexts, spot \in SpotTexts :
           quotePurchase(token, tier, spot)
    \/ \E i \in DOMAIN purchases : ConfirmPurchase(i)

PurchasesSpec == PurchasesInit /\ [][PurchasesNext]_purchases

(* The summary of getPublicPortfolio.                                      *)
Sum(amounts) ==
    LET sum[n \in 0..Len(amounts)] == IF n = 0 THEN 0 ELSE sum[n - 1] + amounts[n]
    IN  sum[Len(amounts)]

IfConfirmed(i, amount) == IF purchases[i].confirmed THEN parseFixed(amount) ELSE 0

InvestedUsd == Sum([i \in DOMAIN purchases |-> IfConfirmed(i, purchases[i].usd)])
ConfirmedTokens == Sum([i \in DOMAIN purchases |-> IfConfirmed(i, purchases[i].token)])

averageEntryPriceUsd ==
    IF ConfirmedTokens > 0
    THEN divideFixed(formatFixed(InvestedUsd), formatFixed(ConfirmedTokens))
    ELSE formatFixed(0)

PurchasesTypeOK ==
    \A i \in DOMAIN purchases :
        purchases[i].units \in Nat /\ purchases[i].confirmed \in BOOLEAN

-----------------------------------------------------------------------------
(* The payer is never asked for more than the tokens cost: converted to    *)
(* dollars and on to base units, the price loses less than one unit of     *)
(* each and gains none, however the amounts are written.                   *)
NeverOvercharged ==
    \A i \in DOMAIN purchases :
        LET p == purchases[i]
            exact == parseFixed(p.token) * parseFixed(p.price)
            usd == parseFixed(p.usd)
            worth == usd * TenTo[AssetDecimals]
        IN  /\ usd * TenTo[Scale] <= exact /\ exact < (usd + 1) * TenTo[Scale]
            /\ p.units * parseFixed(p.spot) <= worth
            /\ worth < (p.units + 1) * parseFixed(p.spot)

(* However many purchases of whatever tiers it sums up, the average entry  *)
(* price is not above the dearest tier the wallet bought at.               *)
AverageIsNotDearer ==
    ConfirmedTokens > 0 =>
        \E i \in DOMAIN purchases :
            /\ purchases[i].confirmed
            /\ parseFixed(averageEntryPriceUsd) <= parseFixed(purchases[i].price)
=============================================================================
