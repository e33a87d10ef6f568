---------------------------- MODULE MonobankData ----------------------------
(* What Monobank answers, from the JSON to the tables: an answer is parsed *)
(* field by field, mapped to internal records and inserted in one batch    *)
(* whose constraints may abort it. A field is abstracted to what the       *)
(* parser tells apart; the currency code keeps its digits, because the     *)
(* tables bound their length, and the amount its sign.                     *)
EXTENDS Integers, Sequences

CONSTANTS
    Items,            \* accounts or statement items the bank may send
    KnownCurrencies,  \* KNOWN_CURRENCIES: numeric code -> alphabetic code
    KnownMccs         \* the keys of MCC_CATEGORY_NAMES

Digit(n) == <<"0", "1", "2", "3", "4", "5", "6", "7", "8", "9">>[n + 1]

\* The numeric codes of three digits.
Numerals == {<<Digit(a), Digit(b), Digit(c)>> : a \in 0..9, b \in 0..9, c \in 0..9}

ASSUME MonobankDataAssumption ==
    /\ Items \subseteq [isRecord : BOOLEAN, id : STRING,
                        required : BOOLEAN, optional : BOOLEAN,
                        currencyCode : Int, amount : Int, mcc : Int]
    /\ \A n, p \in DOMAIN KnownCurrencies :
          /\ KnownCurrencies[n] \notin Numerals
          /\ Len(KnownCurrencies[n]) = 3
          /\ n # p => KnownCurrencies[n] # KnownCurrencies[p]

VARIABLES
    currencies,    \* rows of currencies: a set of [code, numeric]
    transactions,  \* rows of transactions, by monobank_transaction_id
    latest,        \* history: the items of the latest answer
    outcome        \* of the latest answer: "none", "stored", "malformed", "aborted"

dataVars == <<currencies, transactions, latest, outcome>>

Ids == {i.id : i \in Items}
NoRow == [amount |-> 0, direction |-> "none", category |-> <<>>]
Answers == [isList : BOOLEAN, items : {<<>>} \cup {<<i>> : i \in Items}
                                      \cup (Items \X Items)]

DataInit ==
    /\ currencies = {}
    /\ transactions = [i \in Ids |-> NoRow]
    /\ latest = <<>>
    /\ outcome = "none"

AnyCurrency(n) == n >= 0             \* mutant: no upper bound

\* ISO 4217 numeric codes have three digits.
ValidCurrency(n) == n >= 0 /\ n <= 999

\* parseAccount, parseStatementItem: a non-empty identifier, the required
\* strings, safe integers and booleans, optional strings that are strings.
Parses(item) ==
    /\ item.isRecord
    /\ item.id \notin {"", "not a string"}
    /\ item.required
    /\ item.optional
    /\ ValidCurrency(item.currencyCode)

ParsesSome(answer) ==                \* mutant: malformed items are skipped
    answer.isList /\ \E k \in DOMAIN answer.items : Parses(answer.items[k])

\* parseProviderStatement, parseProviderClientInfo: one malformed item throws.
ParsesWhole(answer) ==
    answer.isList /\ \A k \in DOMAIN answer.items : Parses(answer.items[k])

Unpadded(n) ==                       \* mutant: value.toString()
    IF n < 10 THEN <<Digit(n)>> ELSE <<Digit(n \div 10), Digit(n % 10)>>

\* value.toString().padStart(3, '0')
NumericCode(n) ==
    (IF n > 999 THEN <<Digit(n \div 1000)>> ELSE <<>>)
       \o <<Digit((n \div 100) % 10), Digit((n \div 10) % 10), Digit(n % 10)>>

\* resolveCurrency: an unknown currency is named by its numeric code.
Resolved(numeric) ==
    [numeric |-> numeric,
     code |-> IF numeric \in DOMAIN KnownCurrencies THEN KnownCurrencies[numeric]
              ELSE numeric]

PositiveIncome(amount) == IF amount > 0 THEN "income" ELSE "expense"   \* mutant: zero

\* item.amount < 0 ? 'expense' : 'income'
Direction(amount) == IF amount < 0 THEN "expense" ELSE "income"

\* resolveMccCategoryName: the known name, or MCC and the number.
CategoryName(mcc) == IF mcc \in KnownMccs THEN <<"name of", mcc>> ELSE <<"MCC", mcc>>

RowOf(item) == [amount |-> item.amount, direction |-> Direction(item.amount),
                category |-> CategoryName(item.mcc)]

\* CHECK and UNIQUE of currencies, for the upsert ON CONFLICT(code).
CurrencyAccepted(c) ==
    /\ Len(c.code) = 3
    /\ Len(c.numeric) = 3
    /\ \A other \in currencies : other.numeric = c.numeric => other.code = c.code

\* CHECK of transactions: the sign agrees with the direction.
TransactionAccepted(row) ==
    \/ row.direction = "income" /\ row.amount >= 0
    \/ row.direction = "expense" /\ row.amount < 0

ReceiveMalformed(answer) ==
    /\ ~ParsesWhole(answer)
    /\ outcome' = "malformed"
    /\ latest' = answer.items
    /\ UNCHANGED <<currencies, transactions>>

\* AccountsRepository.synchronize, as far as its currencies go: a conflict on
\* the code takes the numeric code sent.
ReceiveAccounts(answer) ==
    LET sent == {Resolved(NumericCode(answer.items[k].currencyCode)) :
                    k \in DOMAIN answer.items}
    IN /\ ParsesWhole(answer)
       /\ IF \A c \in sent : CurrencyAccepted(c)
          THEN /\ currencies' = sent \cup {c \in currencies :
                                              \A s \in sent : s.code # c.code}
               /\ outcome' = "stored"
          ELSE outcome' = "aborted" /\ UNCHANGED currencies
       /\ latest' = answer.items
       /\ UNCHANGED transactions

\* INSERT ... ON CONFLICT(monobank_transaction_id) DO NOTHING, in list order.
Imported(i, items) ==
    IF transactions[i] = NoRow /\ \E k \in DOMAIN items : items[k].id = i
    THEN RowOf(items[CHOOSE k \in DOMAIN items :
                        /\ items[k].id = i
                        /\ \A j \in 1..(k - 1) : items[j].id # i])
    ELSE transactions[i]

\* importTransactions: one batch for the whole statement.
ReceiveStatement(answer) ==
    /\ ParsesWhole(answer)
    /\ IF \A k \in DOMAIN answer.items : TransactionAccepted(RowOf(answer.items[k]))
       THEN /\ transactions' = [i \in Ids |-> Imported(i, answer.items)]
            /\ outcome' = "stored"
       ELSE outcome' = "aborted" /\ UNCHANGED transactions
    /\ latest' = answer.items
    /\ UNCHANGED currencies

DataNext == \E answer \in Answers :
    ReceiveMalformed(answer) \/ ReceiveAccounts(answer) \/ ReceiveStatement(answer)

DataSpec == DataInit /\ [][DataNext]_dataVars
-----------------------------------------------------------------------------
\* The rows hold what the columns allow, and come from well-formed answers.
DataTypeInvariant ==
    /\ \A c \in currencies : Len(c.code) = 3 /\ Len(c.numeric) = 3
    /\ \A i \in Ids : transactions[i] = NoRow \/ TransactionAccepted(transactions[i])
    /\ outcome \in {"none", "stored", "malformed", "aborted"}
    /\ outcome = "stored" => \A k \in DOMAIN latest : Parses(latest[k])

\* Whatever passes the validation of the answers passes the constraints of the
\* tables: no answer accepted as well-formed aborts the batch, which would fail
\* every later refresh, or the same window of every later run, the same way.
AcceptedIsStorable == outcome # "aborted"

\* A transaction keeps what its first import stored, however often and with
\* whatever amount the bank repeats it (a hold that settles): corrections,
\* links and totals were computed from it.
OriginalsKept ==
    [][\A i \in Ids : transactions[i] # NoRow => transactions'[i] = transactions[i]]_dataVars

\* A window is recorded as imported after its statement is stored, so storing
\* is all or nothing: when it changes the table, every item of the answer was
\* well-formed and every one of them has its row.
StatementStoredWhole ==
    [][transactions' # transactions =>
          \A k \in DOMAIN latest' :
             Parses(latest'[k]) /\ transactions'[latest'[k].id] # NoRow]_dataVars

\* The validation of an answer and the constraints of the tables agree on what may
\* be stored.
DataInvariant == DataTypeInvariant /\ AcceptedIsStorable

\* A statement is stored whole or not at all, over nothing that was stored before.
StatementKept == OriginalsKept /\ StatementStoredWhole
=============================================================================
