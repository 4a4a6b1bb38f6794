------------------------------ MODULE Categories ------------------------------
(***************************************************************************)
(* The category service: it tells from a transaction's merchant category   *)
(* code, or else from the merchant's name, or else from the description,   *)
(* what the money was for.  Its tables are constants and a result depends  *)
(* on the transaction alone, but for the order in which Go's range visits  *)
(* a map.  Where that decides, a definition gives the set of the possible  *)
(* results.  Nothing in the program calls the service yet: what it is      *)
(* asked here is the sample data's rows, and misspelt names.               *)
(*                                                                         *)
(* A name is a string in lower case with no blanks around it; a code is a  *)
(* number, 0 for none.  Confidences are left out.                          *)
(***************************************************************************)
EXTENDS Levenshtein, TLC

LOCAL INSTANCE SequencesExt

VARIABLES
  transaction,  \* the transaction the service is asked about
  result        \* the category it answers

categoryVars == <<transaction, result>>

-----------------------------------------------------------------------------
(* The tables. *)

GoodsCodes ==
  [GROCERIES      |-> {5411, 5422, 5441, 5451, 5462, 5499, 5541},
   DINING         |-> 5811..5814,
   TRANSPORTATION |->
     {4111, 4112, 4119, 4121, 4131, 4214, 4215, 4225, 4411, 4468, 5542, 5552, 5571, 5592,
      5598, 7523, 7531, 7534, 7535, 7538, 7542} \cup (7511..7513) \cup {7519},
   ENTERTAINMENT  |->
     {5735, 7832, 7841, 7911, 7922, 7929, 7932, 7933, 7941} \cup (5815..5818) \cup (7991..7999),
   SHOPPING       |->
     {5200, 5211, 5231, 5251, 5261, 5271, 5311, 5331, 5399, 5611, 5621, 5631, 5641, 5651,
      5661, 5681, 5691, 5718, 5719, 5722, 5983, 5999} \cup (5697..5699) \cup (5712..5714)
     \cup (5732..5734) \cup (5945..5950) \cup ((5960..5978) \ {5974}) \cup (5992..5995)]

ServiceCodes ==
  [BILLS_UTILITIES |-> (4812..4816) \cup {4821, 4829, 4899, 4900},
   HEALTHCARE      |-> {5912, 8011, 8021, 8031, 8049, 8050, 8062, 8071} \cup (8041..8044),
   EDUCATION       |-> {8211, 8220, 8241, 8244, 8249, 8299},
   TRAVEL          |-> (3000..3102) \cup {4511, 7011, 7012, 7032, 7033},
   ATM_CASH        |-> {6010, 6011, 6012, 6050, 6051}]

MerchantPatterns ==
  [GROCERIES       |-> {"walmart", "kroger", "safeway", "whole foods", "trader joe", "costco",
                        "aldi"},
   DINING          |-> {"starbucks", "mcdonald", "chipotle", "subway", "taco bell", "panera",
                        "dunkin", "pizza hut"},
   TRANSPORTATION  |-> {"uber", "lyft", "shell", "chevron", "exxon", "bp", "mobil"},
   ENTERTAINMENT   |-> {"netflix", "spotify", "amc", "hulu", "disney", "hbo"},
   SHOPPING        |-> {"target", "amazon", "best buy", "apple", "home depot", "lowes", "ikea"},
   BILLS_UTILITIES |-> {"at&t", "verizon", "t-mobile", "comcast", "pg&e", "edison"},
   HEALTHCARE      |-> {"cvs", "walgreens", "rite aid"},
   TRAVEL          |-> {"delta", "united", "american airlines", "southwest", "marriott",
                        "hilton", "hyatt"}]

DescriptionPatterns ==
  <<[category |-> "INCOME",
     keywords |-> {"direct deposit", "salary", "payroll", "paycheck", "wage", "income",
                   "employer"}],
    [category |-> "ATM_CASH",
     keywords |-> {"atm withdrawal", "cash withdrawal", "atm", "cash out", "cash advance"}],
    [category |-> "FEES",
     keywords |-> {"monthly service fee", "overdraft fee", "late fee", "service charge",
                   "bank fee", "transaction fee", "international fee"}],
    [category |-> "OTHER",
     keywords |-> {"refund", "reimbursement", "credit adjustment", "return"}]>>

MCCMapping == GoodsCodes @@ ServiceCodes

(* Under which category a table has the key. *)
CategoryIn(table, key) ==
  IF \E c \in DOMAIN table : key \in table[c]
    THEN CHOOSE c \in DOMAIN table : key \in table[c]
    ELSE "OTHER"

KnownMerchants == UNION {MerchantPatterns[c] : c \in DOMAIN MerchantPatterns}

-----------------------------------------------------------------------------
(* Names and their distance. *)

Letters(name) == [i \in 1..Len(name) |-> SubSeq(name, i, i)]

Within(part, word) ==
  \E i \in 0..(Len(word) - Len(part)) : SubSeq(word, i + 1, i + Len(part)) = part

normalizeForMatching(name) ==
  SelectSeq(Letters(name), LAMBDA c : c \notin {"-", "_", " ", "'", "."})

(* calculateSimilarity, as a fraction: 1 - off / of.  Floats compare these  *)
(* fractions as the integers below do, for words of this length.            *)
Similarity(s, t) ==
  LET longer == IF Len(s) < Len(t) THEN Len(t) ELSE Len(s)
  IN [off |-> levenshteinDistance(s, t), of |-> longer]

Similar(score) == 10 * score.off < 3 * score.of

NoWorse(score, other) == score.off * other.of <= other.off * score.of

-----------------------------------------------------------------------------
(* The three sources of a category. *)

CategoryFromMCC(code) == CategoryIn(MCCMapping, code)

(* The patterns nearest to the name, if any is near enough: the first of    *)
(* them that is visited.                                                    *)
FuzzyMatchMerchant(name) ==
  LET score == [p \in KnownMerchants |-> Similarity(Letters(name), Letters(p))]
      near  == {p \in KnownMerchants : Similar(score[p])}
  IN {p \in near : \A q \in near : NoWorse(score[p], score[q])}

CategorizeByMerchant(name) ==
  LET within == {p \in KnownMerchants :
                   Within(normalizeForMatching(p), normalizeForMatching(name))}
      found  == IF within = {} THEN FuzzyMatchMerchant(name) ELSE within
  IN IF name = "" \/ found = {}
       THEN {"OTHER"}
       ELSE {CategoryIn(MerchantPatterns, p) : p \in found}

CategorizeByDescription(text) ==
  LET first == SelectInSeq(DescriptionPatterns, LAMBDA pattern :
                 \E k \in pattern.keywords : Within(Letters(k), Letters(text)))
  IN IF first = 0 THEN "OTHER" ELSE DescriptionPatterns[first].category

(* Mutant: the name of the merchant before the code. *)
CategorizeByNameFirst(t) ==
  LET names == CategorizeByMerchant(t.merchant)
      code == CategoryFromMCC(t.code)
  IN IF names # {"OTHER"} THEN names
     ELSE IF code # "OTHER" THEN {code}
     ELSE {CategorizeByDescription(t.description)}

(* t is a transaction: its code, merchant and description.                 *)
CategorizeTransaction(t) ==
  LET code == CategoryFromMCC(t.code)
      names == CategorizeByMerchant(t.merchant)
  IN IF code # "OTHER" THEN {code}
     ELSE IF names # {"OTHER"} THEN names
     ELSE {CategorizeByDescription(t.description)}

-----------------------------------------------------------------------------
(* The merchants of the sample data, with the codes and the categories the *)
(* generator gives them.                                                   *)

merchantPool ==
  [GROCERIES       |->
     {"walmart supercenter", "kroger", "whole foods market", "safeway", "trader joe's",
      "costco wholesale", "target", "publix super market", "aldi", "h-e-b"} \X {5411},
   DINING          |->
     ({"starbucks", "mcdonald's", "subway", "dunkin'", "chick-fil-a", "pizza hut", "taco bell",
       "panda express", "five guys"} \X {5814})
     \cup ({"chipotle mexican grill", "panera bread", "olive garden"} \X {5812}),
   TRANSPORTATION  |->
     ({"uber", "lyft"} \X {4121}) \cup ({"shell", "chevron", "bp", "exxonmobil"} \X {5542})
     \cup ({"amtrak", "metro transit"} \X {4111}),
   SHOPPING        |->
     {<<"amazon.com", 5942>>, <<"gap", 5651>>, <<"nike", 5941>>, <<"ikea", 5712>>}
     \cup ({"best buy", "apple store"} \X {5732}) \cup ({"home depot", "lowe's"} \X {5200})
     \cup ({"macy's", "nordstrom"} \X {5311}),
   ENTERTAINMENT   |->
     ({"netflix", "amc theaters", "regal cinemas", "disney+"} \X {7832})
     \cup {<<"spotify", 5815>>} \cup ({"xbox live", "playstation network"} \X {5816}),
   BILLS_UTILITIES |->
     ({"at&t", "verizon wireless"} \X {4814}) \cup {<<"comcast xfinity", 4899>>}
     \cup ({"pg&e", "duke energy", "water department"} \X {4900}),
   HEALTHCARE      |->
     ({"cvs pharmacy", "walgreens"} \X {5912}) \cup {<<"kaiser permanente", 8011>>}
     \cup ({"labcorp", "quest diagnostics"} \X {8071}),
   TRAVEL          |->
     ({"delta air lines", "united airlines"} \X {3000})
     \cup ({"marriott hotels", "hilton hotels"} \X {7011}),
   EDUCATION       |-> {"udemy", "coursera"} \X {8299},
   ATM_CASH        |-> {<<"atm withdrawal", 6010>>, <<"cash deposit", 6011>>}]

billMerchants ==
  ({"electric company", "water department", "gas company"} \X {4900})
  \cup {<<"internet provider", 4899>>, <<"phone bill", 4814>>}

(* A row with a merchant m of the category c.  What the generator stores as *)
(* the category need not be the merchant's.                                 *)
Row(c, m, description, category) ==
  [merchant |-> m[1], code |-> m[2], description |-> description,
   category |-> category, merchantCategory |-> c, source |-> "generator"]

Purchasable == UNION {{c} \X merchantPool[c] : c \in DOMAIN merchantPool}

PurchaseRows ==
  {Row(c, m, "purchase at " \o m[1], c) : <<c, m>> \in Purchasable}
    \cup {Row(c, m, "refund - " \o m[1], c) : <<c, m>> \in Purchasable}

(* A fee has a random merchant, and keeps its category when there is not *)
(* enough money for it and it becomes a refund.                          *)
FeeRows ==
  {Row(c, m, "service fee - banking", "FEES") : <<c, m>> \in Purchasable}
    \cup {Row(c, m, "refund - " \o m[1], "FEES") : <<c, m>> \in Purchasable}

(* An income takes the place of a purchase or a fee, whose merchant it keeps. *)
IncomeRows == {Row(c, m, "direct deposit", "INCOME") : <<c, m>> \in Purchasable}

BillRows ==
  {Row("BILLS_UTILITIES", m, "bill payment - " \o m[1], "BILLS_UTILITIES") : m \in billMerchants}

SalaryRow ==
  Row("INCOME", <<"acme corporation", 0>>, "direct deposit - salary payment", "INCOME")

GeneratedRows == PurchaseRows \cup FeeRows \cup IncomeRows \cup BillRows \cup {SalaryRow}

(* Known names with a letter left out, but for a name that holds another    *)
(* one even when it is spelt right: T-Mobile may pass for Mobil.            *)
Missing(name, i) == SubSeq(name, 1, i - 1) \o SubSeq(name, i + 1, Len(name))

Ambiguous(p) ==
  \E q \in KnownMerchants \ {p} : Within(normalizeForMatching(q), normalizeForMatching(p))

MisspeltRows ==
  UNION {{[merchant |-> Missing(p, i), code |-> 0, description |-> "",
           category |-> CategoryIn(MerchantPatterns, p), source |-> "misspelt"] :
             i \in 1..Len(p)} :
           p \in {q \in KnownMerchants : ~Ambiguous(q)}}

-----------------------------------------------------------------------------
(* The service. *)

NoTransaction == [source |-> "none"]

CategoryInit == transaction = NoTransaction /\ result = "none"

CategoryNext ==
  /\ transaction = NoTransaction
  /\ transaction' \in GeneratedRows \cup MisspeltRows
  /\ result' \in CategorizeTransaction(transaction')

-----------------------------------------------------------------------------
(* Properties *)

Words == SeqOf({"a", "b"}, 3)

WrongDistances ==
  {w \in Words \X Words : levenshteinDistance(w[1], w[2]) # EditDistance(w[1], w[2])}

(* The fuzzy match of misspelt merchants: a known name that has lost a      *)
(* letter keeps its category, whatever the order in which the map is        *)
(* visited, but for names of two and three letters (bp, amc, hbo, cvs): of  *)
(* those a letter is too much to lose, and nothing is told from what is     *)
(* left.  The distance that decides is, for every two short words, the      *)
(* least number of letters that must change.                                *)
TyposAreForgiven ==
  transaction.source = "misspelt" =>
    /\ result = IF Len(transaction.merchant) >= 3 THEN transaction.category ELSE "OTHER"
    /\ WrongDistances = {}

(* What the service tells from a generated row is the category of its       *)
(* merchant, unless the code is one the service does not know: then it may  *)
(* tell nothing, or what the description says.  So it agrees with the       *)
(* category a purchase, a bill or a salary is stored with, but not with     *)
(* that of a fee or of an income in the place of a purchase where these     *)
(* carry the known code of a merchant they have nothing to do with.  That   *)
(* takes the code before the name: Target is a grocery by its code and a    *)
(* shop by its name.                                                        *)
SampleCategoriesAgree ==
  transaction.source = "generator" =>
    LET known == CategoryFromMCC(transaction.code) # "OTHER"
        told == transaction.merchantCategory
    IN \/ result = told
       \/ /\ ~known /\ transaction.code # 0
          /\ result \in {"OTHER", CategorizeByDescription(transaction.description)}
=============================================================================
