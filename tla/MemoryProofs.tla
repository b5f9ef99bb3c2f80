---------------------------- MODULE MemoryProofs ----------------------------
(***************************************************************************)
(* Theorems about ShopMemory, for any texts, Products, requests and number *)
(* of concurrent tool calls.  First what a text means before and after it  *)
(* is stored, then what a search answers, then the calls.                  *)
(***************************************************************************)
EXTENDS ShopMemory, OperatorProofs, SequenceTheorems

-----------------------------------------------------------------------------
(* Texts *)

Digits == Seq(0..9)
Texts  == [word : DOMAIN LowerCase, numbers : Seq(Digits)]

\* What the local recursive function of Number is.
IsValue(v, digits) ==
  v = [i \in 0..Len(digits) |-> IF i = 0 THEN 0 ELSE 10 * v[i - 1] + digits[i]]

Value(digits) == CHOOSE v : IsValue(v, digits)

LEMMA NumberIsValue == ASSUME NEW digits PROVE Number(digits) = Value(digits)[Len(digits)]
BY DEF Number, Value, IsValue

\* The function exists: one of the first n digits extends to one of n + 1.
IsValueTo(v, digits, n) ==
  v = [i \in 0..n |-> IF i = 0 THEN 0 ELSE 10 * v[i - 1] + digits[i]]

LEMMA ValueExists ==
  ASSUME NEW digits, NEW n \in Nat
  PROVE  \E v : IsValueTo(v, digits, n)
<1> DEFINE S == {m \in Nat : \E v : IsValueTo(v, digits, m)}
<1>1. 0 \in S
  <2> DEFINE v == [i \in 0..0 |-> 0]
  <2>1. v = [i \in 0..0 |-> IF i = 0 THEN 0 ELSE 10 * v[i - 1] + digits[i]]
    OBVIOUS
  <2>. QED
    BY <2>1 DEF IsValueTo
<1>2. ASSUME NEW m \in S PROVE m + 1 \in S
  <2>1. PICK v : IsValueTo(v, digits, m)
    OBVIOUS
  <2> DEFINE w == [i \in 0..(m + 1) |-> IF i = m + 1 THEN 10 * v[m] + digits[m + 1] ELSE v[i]]
  <2>2. ASSUME NEW i \in 0..(m + 1)
        PROVE  w[i] = IF i = 0 THEN 0 ELSE 10 * w[i - 1] + digits[i]
    <3>1. CASE i = m + 1
      BY <3>1
    <3>2. CASE i # m + 1
      <4>1. i \in 0..m /\ w[i] = v[i]
        BY <3>2
      <4>2. v[i] = IF i = 0 THEN 0 ELSE 10 * v[i - 1] + digits[i]
        BY <2>1, <4>1 DEF IsValueTo
      <4>3. i # 0 => i - 1 \in 0..(m + 1) /\ i - 1 # m + 1
        BY <4>1
      <4>. QED
        BY <4>1, <4>2, <4>3
    <3>. QED
      BY <3>1, <3>2
  <2>3. w = [i \in 0..(m + 1) |-> IF i = 0 THEN 0 ELSE 10 * w[i - 1] + digits[i]]
    BY <2>2
  <2> HIDE DEF w
  <2>4. IsValueTo(w, digits, m + 1)
    BY <2>3 DEF IsValueTo
  <2>5. m + 1 \in Nat
    OBVIOUS
  <2>. QED
    BY <2>4, <2>5
<1>3. S \in SUBSET Nat
  OBVIOUS
<1> HIDE DEF S
<1>4. n \in S
  BY <1>1, <1>2, <1>3, SetInduction
<1>. QED
  BY <1>4 DEF S

\* The equations of Number: nothing typed is 0, a digit more shifts the others.
LEMMA ValueSteps ==
  ASSUME NEW digits \in Digits
  PROVE  /\ Value(digits)[0] = 0
         /\ \A i \in 1..Len(digits) : Value(digits)[i] = 10 * Value(digits)[i - 1] + digits[i]
<1>1. Len(digits) \in Nat
  BY LenProperties DEF Digits
<1>2. \E v : IsValue(v, digits)
  BY <1>1, ValueExists DEF IsValue, IsValueTo
<1>3. IsValue(Value(digits), digits)
  BY <1>2 DEF Value
<1> DEFINE v == Value(digits)
<1>4. v = [i \in 0..Len(digits) |-> IF i = 0 THEN 0 ELSE 10 * v[i - 1] + digits[i]]
  BY <1>3 DEF IsValue
<1> HIDE DEF v
<1>5. v[0] = 0
  BY <1>1, <1>4
<1>6. ASSUME NEW i \in 1..Len(digits) PROVE v[i] = 10 * v[i - 1] + digits[i]
  BY <1>1, <1>4
<1>. QED
  BY <1>5, <1>6 DEF v

LEMMA DigitIn ==
  ASSUME NEW digits \in Digits, NEW i \in 1..Len(digits)
  PROVE  digits[i] \in 0..9
BY ElementOfSeq DEF Digits

LEMMA ValueTyped ==
  ASSUME NEW digits \in Digits, NEW n \in 0..Len(digits)
  PROVE  Value(digits)[n] \in Nat
<1>1. Len(digits) \in Nat
  BY LenProperties DEF Digits
<1> DEFINE S == {m \in Nat : m <= Len(digits) => Value(digits)[m] \in Nat}
<1>2. 0 \in S
  BY ValueSteps
<1>3. ASSUME NEW m \in S PROVE m + 1 \in S
  <2> SUFFICES ASSUME m + 1 <= Len(digits) PROVE Value(digits)[m + 1] \in Nat
    OBVIOUS
  <2>1. m \in Nat /\ m + 1 \in 1..Len(digits) /\ (m + 1) - 1 = m /\ Value(digits)[m] \in Nat
    BY <1>1
  <2>2. Value(digits)[m + 1] = 10 * Value(digits)[m] + digits[m + 1]
    BY <2>1, ValueSteps
  <2>3. digits[m + 1] \in 0..9
    BY <2>1, DigitIn
  <2>4. \A a \in Nat, b \in 0..9 : 10 * a + b \in Nat
    OBVIOUS
  <2>5. 10 * Value(digits)[m] + digits[m + 1] \in Nat
    BY <2>1, <2>3, <2>4
  <2>. QED
    BY <2>2, <2>5
<1>4. S \in SUBSET Nat
  OBVIOUS
<1>5. n \in Nat /\ n <= Len(digits)
  BY <1>1
<1> HIDE DEF S
<1>6. S = Nat
  BY <1>2, <1>3, <1>4, SetInduction
<1>7. n \in S
  BY <1>5, <1>6
<1>. QED
  BY <1>5, <1>7 DEF S

LEMMA NumberTyped == ASSUME NEW digits \in Digits PROVE Number(digits) \in Nat
<1>1. Len(digits) \in 0..Len(digits)
  BY LenProperties DEF Digits
<1>. QED
  BY <1>1, ValueTyped, NumberIsValue

\* A number padded to two digits is the number.
LEMMA TwoDigitsMean ==
  ASSUME NEW n \in 0..99
  PROVE  /\ TwoDigits(n) \in Digits /\ Len(TwoDigits(n)) = 2
         /\ Number(TwoDigits(n)) = n
<1>1. n \div 10 \in 0..9 /\ n % 10 \in 0..9 /\ n = 10 * (n \div 10) + (n % 10)
  OBVIOUS
<1> DEFINE tens == n \div 10
           ones == n % 10
           d    == <<tens, ones>>
<1>2. d \in Digits /\ Len(d) = 2 /\ d[1] = tens /\ d[2] = ones
  BY <1>1 DEF Digits
<1>3. d = TwoDigits(n)
  BY DEF TwoDigits
<1>4. tens \in 0..9 /\ ones \in 0..9 /\ n = 10 * tens + ones
  BY <1>1
<1> HIDE DEF tens, ones, d
<1>5. 1 \in 1..Len(d) /\ 2 \in 1..Len(d)
  BY <1>2
<1>6. Value(d)[0] = 0 /\ Value(d)[1] = 10 * Value(d)[1 - 1] + d[1]
      /\ Value(d)[2] = 10 * Value(d)[2 - 1] + d[2]
  BY <1>2, <1>5, ValueSteps
<1>7. Value(d)[1] = tens
  BY <1>2, <1>4, <1>6
<1>8. Value(d)[2] = 10 * tens + ones
  BY <1>2, <1>4, <1>6, <1>7
<1>9. Number(d) = n
  BY <1>2, <1>4, <1>8, NumberIsValue
<1>. QED
  BY <1>2, <1>3, <1>9

\* Leading zeros, as long as one digit is left, do not count.
LEMMA ZerosBefore ==
  ASSUME NEW digits \in Digits, NEW k \in 0..Len(digits), \A j \in 1..k : digits[j] = 0
  PROVE  Value(digits)[k] = 0
<1>1. Len(digits) \in Nat
  BY LenProperties DEF Digits
<1> DEFINE S == {m \in Nat : m <= k => Value(digits)[m] = 0}
<1>2. 0 \in S
  BY ValueSteps
<1>3. ASSUME NEW m \in S PROVE m + 1 \in S
  <2> SUFFICES ASSUME m + 1 <= k PROVE Value(digits)[m + 1] = 0
    OBVIOUS
  <2>1. m \in Nat /\ m + 1 \in 1..Len(digits) /\ m + 1 \in 1..k /\ (m + 1) - 1 = m
        /\ Value(digits)[m] = 0
    BY <1>1
  <2>2. Value(digits)[m + 1] = 10 * Value(digits)[m] + digits[m + 1]
    BY <2>1, ValueSteps
  <2>. QED
    BY <2>1, <2>2
<1>4. S \in SUBSET Nat
  OBVIOUS
<1>5. k \in Nat /\ k <= k
  BY <1>1
<1> HIDE DEF S
<1>6. S = Nat
  BY <1>2, <1>3, <1>4, SetInduction
<1>7. k \in S
  BY <1>5, <1>6
<1>. QED
  BY <1>5, <1>7 DEF S

LEMMA NumberWithoutZeros ==
  ASSUME NEW digits \in Digits, NEW k \in 0..Len(digits), \A j \in 1..k : digits[j] = 0
  PROVE  /\ SubSeq(digits, k + 1, Len(digits)) \in Digits
         /\ Number(SubSeq(digits, k + 1, Len(digits))) = Number(digits)
<1> DEFINE rest == SubSeq(digits, k + 1, Len(digits))
           n    == Len(digits) - k
<1>1. Len(digits) \in Nat /\ k \in Nat /\ n \in Nat /\ k + n = Len(digits)
  BY LenProperties DEF Digits
<1>2. rest \in Digits /\ Len(rest) = n /\ \A i \in 1..n : rest[i] = digits[k + i]
  <2>1. \A i \in (k + 1)..Len(digits) : digits[i] \in 0..9
    BY <1>1, DigitIn
  <2>2. rest \in Seq(0..9)
    BY <1>1, <2>1, SubSeqProperties DEF Digits
  <2>3. /\ Len(rest) = IF k + 1 <= Len(digits) THEN Len(digits) - (k + 1) + 1 ELSE 0
        /\ \A i \in 1..(Len(digits) - (k + 1) + 1) : rest[i] = digits[(k + 1) + i - 1]
    BY <1>1, <2>1, SubSeqProperties DEF Digits
  <2>4. Len(digits) - (k + 1) + 1 = n /\ (k + 1 <= Len(digits) \/ n = 0)
    <3>1. \A l, i \in Nat : i <= l => l - (i + 1) + 1 = l - i /\ (i + 1 <= l \/ l - i = 0)
      OBVIOUS
    <3>2. k <= Len(digits)
      OBVIOUS
    <3>. QED
      BY <1>1, <3>1, <3>2
  <2>5. Len(rest) = n
    BY <2>3, <2>4
  <2>6. ASSUME NEW i \in 1..n PROVE rest[i] = digits[k + i]
    <3>1. (k + 1) + i - 1 = k + i
      BY <1>1
    <3>. QED
      BY <2>3, <2>4, <3>1
  <2>. QED
    BY <2>2, <2>5, <2>6 DEF Digits
<1> HIDE DEF rest, n
<1> DEFINE S == {m \in Nat : m <= n => Value(rest)[m] = Value(digits)[k + m]}
<1>3. 0 \in S
  <2>1. Value(rest)[0] = 0
    BY <1>2, ValueSteps
  <2>2. Value(digits)[k] = 0 /\ k + 0 = k
    BY <1>1, ZerosBefore
  <2>. QED
    BY <2>1, <2>2
<1>4. ASSUME NEW m \in S PROVE m + 1 \in S
  <2> SUFFICES ASSUME m + 1 <= n PROVE Value(rest)[m + 1] = Value(digits)[k + (m + 1)]
    OBVIOUS
  <2>1. m \in Nat /\ m + 1 \in 1..n /\ (m + 1) - 1 = m /\ Value(rest)[m] = Value(digits)[k + m]
    BY <1>1
  <2>2. k + (m + 1) \in 1..Len(digits) /\ (k + (m + 1)) - 1 = k + m
    BY <1>1, <2>1
  <2>3. Value(rest)[m + 1] = 10 * Value(rest)[m] + rest[m + 1]
    BY <1>2, <2>1, ValueSteps
  <2>4. Value(digits)[k + (m + 1)] = 10 * Value(digits)[k + m] + digits[k + (m + 1)]
    BY <2>2, ValueSteps
  <2>5. rest[m + 1] = digits[k + (m + 1)]
    BY <1>2, <2>1
  <2>. QED
    BY <2>1, <2>3, <2>4, <2>5
<1>5. S \in SUBSET Nat
  OBVIOUS
<1>6. n \in Nat /\ n <= n
  BY <1>1
<1> HIDE DEF S
<1>7. S = Nat
  BY <1>3, <1>4, <1>5, SetInduction
<1>8. Value(rest)[n] = Value(digits)[k + n]
  BY <1>6, <1>7 DEF S
<1>9. Number(rest) = Number(digits)
  BY <1>1, <1>2, <1>8, NumberIsValue
<1>. QED
  BY <1>2, <1>9 DEF rest

\* str(int(value)) stands for the same number.
LEMMA NoZerosMeans ==
  ASSUME NEW digits \in Digits
  PROVE  NoZeros(digits) \in Digits /\ Number(NoZeros(digits)) = Number(digits)
<1> DEFINE zeros == {i \in DOMAIN digits : i < Len(digits) /\ \A j \in 1..i : digits[j] = 0}
           some  == {0} \cup zeros
           k     == Max(some)
<1>1. Len(digits) \in Nat /\ DOMAIN digits = 1..Len(digits)
  BY LenProperties DEF Digits
<1>2. some \in SUBSET (0..Len(digits)) /\ some # {}
  BY <1>1
<1>3. \A i \in some : \A j \in 1..i : digits[j] = 0
  OBVIOUS
<1> HIDE DEF zeros, some
<1>4. \E m \in some : \A i \in some : i <= m
  BY <1>1, <1>2, LargestExists
<1>5. \E m \in some : \A i \in some : m >= i
  BY <1>1, <1>2, <1>4
<1>6. k \in some
  BY <1>5 DEF Max
<1> HIDE DEF k
<1>7. k \in 0..Len(digits) /\ \A j \in 1..k : digits[j] = 0
  BY <1>2, <1>3, <1>6
<1>8. NoZeros(digits) = SubSeq(digits, k + 1, Len(digits))
  BY DEF NoZeros, k, some, zeros
<1>. QED
  BY <1>7, <1>8, NumberWithoutZeros

-----------------------------------------------------------------------------
(* Parsing what was stored *)

\* No word is two days.
DayOf(alias) ==
  CASE alias \in WeekdayAliases.mon -> "mon" [] alias \in WeekdayAliases.tue -> "tue"
    [] alias \in WeekdayAliases.wed -> "wed" [] alias \in WeekdayAliases.thu -> "thu"
    [] alias \in WeekdayAliases.fri -> "fri" [] alias \in WeekdayAliases.sat -> "sat"
    [] OTHER -> "sun"

LEMMA AliasIsOneDay ==
  ASSUME NEW day \in DOMAIN WeekdayAliases, NEW alias \in WeekdayAliases[day]
  PROVE  DayOf(alias) = day
<1>1. day \in {"mon", "tue", "wed", "thu", "fri", "sat", "sun"}
  BY DEF WeekdayAliases
<1>2. CASE day = "mon"
  BY <1>2 DEF WeekdayAliases, DayOf
<1>3. CASE day = "tue"
  BY <1>3 DEF WeekdayAliases, DayOf
<1>4. CASE day = "wed"
  BY <1>4 DEF WeekdayAliases, DayOf
<1>5. CASE day = "thu"
  BY <1>5 DEF WeekdayAliases, DayOf
<1>6. CASE day = "fri"
  BY <1>6 DEF WeekdayAliases, DayOf
<1>7. CASE day = "sat"
  BY <1>7 DEF WeekdayAliases, DayOf
<1>8. CASE day = "sun"
  BY <1>8 DEF WeekdayAliases, DayOf
<1>. QED
  BY <1>1, <1>2, <1>3, <1>4, <1>5, <1>6, <1>7, <1>8

LEMMA WeekdayAtMostOne ==
  ASSUME NEW word, NEW d \in Weekday(word), NEW e \in Weekday(word)
  PROVE  d = e
<1>1. /\ d \in DOMAIN WeekdayAliases /\ LowerCase[word] \in WeekdayAliases[d]
      /\ e \in DOMAIN WeekdayAliases /\ LowerCase[word] \in WeekdayAliases[e]
  BY DEF Weekday
<1>2. DayOf(LowerCase[word]) = d /\ DayOf(LowerCase[word]) = e
  BY <1>1, AliasIsOneDay
<1>. QED
  BY <1>2

\* A weekday's name is itself one.
LEMMA WeekdayOfDay ==
  ASSUME NEW day \in DOMAIN WeekdayAliases
  PROVE  Weekday(day) = {day}
<1>1. LowerCase[day] = day
  BY ShopMemoryAssumption
<1>2. day \in WeekdayAliases[day]
  BY DEF WeekdayAliases
<1>3. day \in Weekday(day)
  BY <1>1, <1>2 DEF Weekday
<1>. QED
  BY <1>3, WeekdayAtMostOne

\* A stored time is the time that was typed.
LEMMA TimeAtMostOne ==
  ASSUME NEW text, NEW s \in Time(text), NEW t \in Time(text)
  PROVE  s = t
BY DEF Time

LEMMA TimeTyped ==
  ASSUME NEW text \in Texts, NEW time \in Time(text)
  PROVE  /\ Len(text.numbers) = 2
         /\ time = <<Number(text.numbers[1]), Number(text.numbers[2])>>
         /\ time[1] \in 0..23 /\ time[2] \in 0..59
<1>1. /\ Len(text.numbers) = 2
      /\ time = <<Number(text.numbers[1]), Number(text.numbers[2])>>
      /\ time[1] <= 23 /\ time[2] <= 59
  BY DEF Time
<1>2. text.numbers \in Seq(Digits)
  BY DEF Texts
<1>3. text.numbers[1] \in Digits /\ text.numbers[2] \in Digits
  BY <1>1, <1>2, ElementOfSeq
<1>4. Number(text.numbers[1]) \in Nat /\ Number(text.numbers[2]) \in Nat
  BY <1>3, NumberTyped
<1>. QED
  BY <1>1, <1>4

LEMMA TimeStored ==
  ASSUME NEW text, NEW time, time = <<time[1], time[2]>>,
         time[1] \in 0..23, time[2] \in 0..59, text.numbers = TimeNumbers(time)
  PROVE  Time(text) = {time}
<1> DEFINE hour   == time[1]
           minute == time[2]
<1>1. text.numbers = <<TwoDigits(hour), TwoDigits(minute)>>
  BY DEF TimeNumbers
<1>2. hour \in 0..99 /\ minute \in 0..99 /\ hour <= 23 /\ minute <= 59
  OBVIOUS
<1> HIDE DEF hour, minute
<1>3. Len(TwoDigits(hour)) = 2 /\ Number(TwoDigits(hour)) = hour
  BY <1>2, TwoDigitsMean
<1>4. Len(TwoDigits(minute)) = 2 /\ Number(TwoDigits(minute)) = minute
  BY <1>2, TwoDigitsMean
<1>5. Len(text.numbers) = 2 /\ text.numbers[1] = TwoDigits(hour) /\ text.numbers[2] = TwoDigits(minute)
  BY <1>1
<1>6. Len(text.numbers[1]) \in 1..2 /\ Len(text.numbers[2]) = 2
  BY <1>3, <1>4, <1>5
<1>7. Time(text) = {t \in {<<hour, minute>>} : t[1] <= 23 /\ t[2] <= 59}
  BY <1>3, <1>4, <1>5, <1>6 DEF Time
<1>8. Time(text) = {<<hour, minute>>}
  BY <1>2, <1>7
<1>. QED
  BY <1>8 DEF hour, minute

\* Parse, given the product_ids there are.
ParseAmong(ids, key, text) ==
  CASE key = "default_payment_mode"          -> ParseMode(text)
    [] key = "weekly_analysis_deck_schedule" -> ParseWeekly(text)
    [] key = "khata_reminder_schedule"       -> ParseDaily(text)
    [] key = "preferred_product:atta"        -> ParseNumber(text) \cap ids
    [] key \in NumberKeys                    -> ParseNumber(text)
    [] OTHER                                 -> {}

LEMMA ParseIsAmong ==
  ASSUME NEW key, NEW text
  PROVE  Parse(key, text) = ParseAmong(DOMAIN products, key, text)
BY DEF Parse, ParseAmong

LEMMA ParseByKey ==
  ASSUME NEW ids, NEW text
  PROVE  /\ ParseAmong(ids, "default_payment_mode", text) = ParseMode(text)
         /\ ParseAmong(ids, "weekly_analysis_deck_schedule", text) = ParseWeekly(text)
         /\ ParseAmong(ids, "khata_reminder_schedule", text) = ParseDaily(text)
         /\ ParseAmong(ids, "preferred_product:atta", text) = ParseNumber(text) \cap ids
         /\ ParseAmong(ids, "khata_reminder_threshold_paise", text) = ParseNumber(text)
         /\ ParseAmong(ids, "owner_chat_id", text) = ParseNumber(text)
         /\ \A key : key \notin Keys => ParseAmong(ids, key, text) = {}
BY DEF ParseAmong, NumberKeys, Keys

\* A text that is accepted means one thing.
LEMMA ParseAtMostOne ==
  ASSUME NEW ids, NEW key, NEW text,
         NEW a \in ParseAmong(ids, key, text), NEW b \in ParseAmong(ids, key, text)
  PROVE  a = b
<1>1. CASE key = "default_payment_mode"
  BY <1>1, ParseByKey DEF ParseMode
<1>2. CASE key = "weekly_analysis_deck_schedule"
  <2>1. a \in ParseWeekly(text) /\ b \in ParseWeekly(text)
    BY <1>2, ParseByKey
  <2>2. PICK d \in Weekday(text.word), s \in Time(text) : a = [day |-> d, time |-> s]
    BY <2>1 DEF ParseWeekly
  <2>3. PICK e \in Weekday(text.word), t \in Time(text) : b = [day |-> e, time |-> t]
    BY <2>1 DEF ParseWeekly
  <2>4. d = e /\ s = t
    BY WeekdayAtMostOne, TimeAtMostOne
  <2>. QED
    BY <2>2, <2>3, <2>4
<1>3. CASE key = "khata_reminder_schedule"
  <2>1. a \in Time(text) /\ b \in Time(text)
    BY <1>3, ParseByKey DEF ParseDaily
  <2>. QED
    BY <2>1, TimeAtMostOne
<1>4. CASE key \in NumberKeys \cup {"preferred_product:atta"}
  <2>1. ParseAmong(ids, key, text) \subseteq ParseNumber(text)
    BY <1>4, ParseByKey DEF NumberKeys
  <2>. QED
    BY <2>1 DEF ParseNumber
<1>. QED
  BY <1>1, <1>2, <1>3, <1>4, ParseByKey DEF Keys

\* What is stored of an accepted text means the same.
LEMMA WeeklyStored ==
  ASSUME NEW text \in Texts, ParseWeekly(text) # {}
  PROVE  ParseWeekly(Canonical("weekly_analysis_deck_schedule", text)) = ParseWeekly(text)
<1> DEFINE parsed == CHOOSE p \in ParseWeekly(text) : TRUE
           stored == [word |-> parsed.day, numbers |-> TimeNumbers(parsed.time)]
<1>1. parsed \in ParseWeekly(text)
  OBVIOUS
<1>2. Canonical("weekly_analysis_deck_schedule", text) = stored
  BY DEF Canonical
<1> HIDE DEF parsed
<1>3. PICK day \in Weekday(text.word), time \in Time(text) : parsed = [day |-> day, time |-> time]
  BY <1>1 DEF ParseWeekly
<1>4. /\ time = <<Number(text.numbers[1]), Number(text.numbers[2])>>
      /\ time[1] \in 0..23 /\ time[2] \in 0..59
  BY TimeTyped
<1>5. time = <<time[1], time[2]>>
  BY <1>4
<1>6. stored.word = day /\ stored.numbers = TimeNumbers(time)
  BY <1>3
<1> HIDE DEF stored
<1>7. Time(stored) = {time}
  BY <1>4, <1>5, <1>6, TimeStored
<1>8. Weekday(stored.word) = {day}
  <2>1. day \in DOMAIN WeekdayAliases
    BY DEF Weekday
  <2>. QED
    BY <1>6, <2>1, WeekdayOfDay
<1>9. ParseWeekly(stored) = {parsed}
  BY <1>3, <1>7, <1>8 DEF ParseWeekly
<1>10. \A p \in ParseWeekly(text) : p = parsed
  <2> TAKE p \in ParseWeekly(text)
  <2>1. PICK e \in Weekday(text.word), t \in Time(text) : p = [day |-> e, time |-> t]
    BY DEF ParseWeekly
  <2>2. e = day /\ t = time
    BY WeekdayAtMostOne, TimeAtMostOne
  <2>. QED
    BY <1>3, <2>1, <2>2
<1>. QED
  BY <1>1, <1>2, <1>9, <1>10

LEMMA DailyStored ==
  ASSUME NEW text \in Texts, ParseDaily(text) # {}
  PROVE  ParseDaily(Canonical("khata_reminder_schedule", text)) = ParseDaily(text)
<1> DEFINE time   == CHOOSE t \in ParseDaily(text) : TRUE
           stored == [text EXCEPT !.numbers = TimeNumbers(time)]
<1>1. time \in ParseDaily(text)
  OBVIOUS
<1>2. Canonical("khata_reminder_schedule", text) = stored
  BY DEF Canonical
<1> HIDE DEF time
<1>3. text.word = "" /\ time \in Time(text) /\ ParseDaily(text) = Time(text)
  BY <1>1 DEF ParseDaily
<1>4. /\ time = <<Number(text.numbers[1]), Number(text.numbers[2])>>
      /\ time[1] \in 0..23 /\ time[2] \in 0..59
  BY <1>3, TimeTyped
<1>5. time = <<time[1], time[2]>>
  BY <1>4
<1>6. stored.word = "" /\ stored.numbers = TimeNumbers(time)
  BY <1>3 DEF Texts
<1> HIDE DEF stored
<1>8. Time(stored) = {time}
  BY <1>4, <1>5, <1>6, TimeStored
<1>9. Time(text) = {time}
  BY <1>3, TimeAtMostOne
<1>. QED
  BY <1>2, <1>3, <1>6, <1>8, <1>9 DEF ParseDaily

LEMMA OneElement ==
  ASSUME NEW S, NEW seq \in Seq(S), Len(seq) = 1
  PROVE  seq[1] \in S /\ seq = <<seq[1]>>
<1>1. 1 \in 1..1
  OBVIOUS
<1>2. 1 \in 1..Len(seq)
  BY <1>1
<1>3. seq[1] \in S
  BY <1>2, ElementOfSeq
<1>4. seq \in [1..1 -> S]
  BY LenProperties
<1>. QED
  BY <1>3, <1>4

LEMMA ThresholdStored ==
  ASSUME NEW text \in Texts, ParseNumber(text) # {}
  PROVE  ParseNumber(Canonical("khata_reminder_threshold_paise", text)) = ParseNumber(text)
<1> DEFINE digits == text.numbers[1]
           stored == [text EXCEPT !.numbers[1] = NoZeros(@)]
<1>1. Canonical("khata_reminder_threshold_paise", text) = stored
  BY DEF Canonical
<1>2. text.word = "" /\ Len(text.numbers) = 1 /\ text.numbers \in Seq(Digits)
  BY DEF ParseNumber, Texts
<1>3. digits \in Digits /\ text.numbers = <<digits>>
  BY <1>2, OneElement
<1>4. stored.word = "" /\ stored.numbers = [text.numbers EXCEPT ![1] = NoZeros(digits)]
  BY <1>2 DEF Texts
<1>5. ParseNumber(text) = {Number(digits)}
  BY <1>2 DEF ParseNumber
<1> HIDE DEF stored, digits
<1>6. stored.numbers = <<NoZeros(digits)>>
  <2>1. \A d, e : [<<d>> EXCEPT ![1] = e] = <<e>>
    OBVIOUS
  <2>2. stored.numbers = [<<digits>> EXCEPT ![1] = NoZeros(digits)]
    BY <1>3, <1>4, Zenon
  <2>. QED
    BY <2>1, <2>2, Zenon
<1>7. ParseNumber(stored) = {Number(NoZeros(digits))}
  <2>1. \A e : Len(<<e>>) = 1 /\ <<e>>[1] = e
    OBVIOUS
  <2>2. Len(stored.numbers) = 1 /\ stored.numbers[1] = NoZeros(digits)
    BY <1>6, <2>1, Zenon
  <2>. QED
    BY <1>4, <2>2 DEF ParseNumber
<1>8. Number(NoZeros(digits)) = Number(digits)
  BY <1>3, NoZerosMeans
<1>. QED
  BY <1>1, <1>5, <1>7, <1>8

LEMMA ModeStored ==
  ASSUME NEW text \in Texts
  PROVE  ParseMode(Canonical("default_payment_mode", text)) = ParseMode(text)
<1> DEFINE stored == [text EXCEPT !.word = LowerCase[@]]
<1>1. Canonical("default_payment_mode", text) = stored
  BY DEF Canonical
<1>2. stored.word = LowerCase[text.word] /\ stored.numbers = text.numbers
  BY DEF Texts
<1>3. LowerCase[LowerCase[text.word]] = LowerCase[text.word]
  BY ShopMemoryAssumption DEF Texts
<1> HIDE DEF stored
<1>. QED
  BY <1>1, <1>2, <1>3 DEF ParseMode

LEMMA StoredMeansTyped ==
  ASSUME NEW ids, NEW key, NEW text \in Texts, ParseAmong(ids, key, text) # {}
  PROVE  ParseAmong(ids, key, Canonical(key, text)) = ParseAmong(ids, key, text)
<1>1. CASE key = "default_payment_mode"
  BY <1>1, ModeStored, ParseByKey
<1>2. CASE key = "weekly_analysis_deck_schedule"
  BY <1>2, WeeklyStored, ParseByKey
<1>3. CASE key = "khata_reminder_schedule"
  BY <1>3, DailyStored, ParseByKey
<1>4. CASE key = "khata_reminder_threshold_paise"
  BY <1>4, ThresholdStored, ParseByKey
<1>5. CASE key \in {"owner_chat_id", "preferred_product:atta"}
  BY <1>5 DEF Canonical
<1>. QED
  BY <1>1, <1>2, <1>3, <1>4, <1>5, ParseByKey DEF Keys, NumberKeys

-----------------------------------------------------------------------------
(* Searches *)

ScoresFor(product, query) ==
  \A label \in Labels(product) \ {NoLabel} : Similarity[label][query] \in 0..MaxSimilarity

LEMMA Thresholds ==
  MaxSimilarity \in Nat /\ MinMatchScore \in Nat /\ AmbiguityScoreDelta \in Nat
BY DEF MaxSimilarity, MinMatchScore, AmbiguityScoreDelta

LEMMA ScoreTyped ==
  ASSUME NEW product, NEW query, ScoresFor(product, query)
  PROVE  MatchScore(product, query) \in 0..MaxSimilarity
<1> DEFINE S == {0} \cup {Similarity[label][query] : label \in Labels(product) \ {NoLabel}}
<1>1. ASSUME NEW s \in S PROVE s \in 0..MaxSimilarity
  <2>1. CASE s = 0
    BY <2>1, Thresholds
  <2>2. CASE s # 0
    <3>1. PICK label \in Labels(product) \ {NoLabel} : s = Similarity[label][query]
      BY <2>2
    <3>. QED
      BY <3>1 DEF ScoresFor
  <2>. QED
    BY <2>1, <2>2
<1>0. 0 \in S /\ MaxSimilarity \in Nat
  BY Thresholds
<1>2. MatchScore(product, query) = Max(S)
  BY DEF MatchScore
<1> HIDE DEF S
<1>3. \E m \in S : \A k \in S : k <= m
  <2>2. S \in SUBSET (0..MaxSimilarity)
    BY <1>1
  <2>3. S # {}
    BY <1>0
  <2>. QED
    BY <2>2, <2>3, Thresholds, LargestExists
<1>4. \E m \in S : \A k \in S : m >= k
  <2>1. \A k, m \in 0..MaxSimilarity : k <= m => m >= k
    OBVIOUS
  <2>. QED
    BY <1>0, <1>1, <1>3, <2>1
<1>5. Max(S) \in S
  BY <1>4 DEF Max
<1>. QED
  BY <1>1, <1>2, <1>5

\* A ranking has every Product that matches, once.
Enumerates(ids, S) ==
  /\ ids \in Seq(S) /\ \A x \in S : \E i \in 1..Len(ids) : ids[i] = x
  /\ \A i, j \in 1..Len(ids) : i # j => ids[i] # ids[j]

LEMMA SetToSeqsEnumerate ==
  ASSUME NEW S, IsFiniteSet(S), NEW ids \in SetToSeqs(S)
  PROVE  Enumerates(ids, S) /\ DOMAIN ids = 1..Len(ids)
<1> DEFINE n == Cardinality(S)
<1>1. n \in Nat
  BY FS_CardinalityType
<1>2. ids \in [1..n -> S] /\ \A i, j \in 1..n : i # j => ids[i] # ids[j]
  BY DEF SetToSeqs
<1> HIDE DEF n
<1>3. ids \in Seq(S) /\ Len(ids) = n
  BY <1>1, <1>2
<1>4. ids \in Injection(1..n, S)
  BY <1>2 DEF Injection, IsInjective
<1>5. Cardinality(1..n) = n
  <2>1. 1 \in Int /\ n \in Int
    BY <1>1
  <2>2. Cardinality(1..n) = IF 1 > n THEN 0 ELSE n - 1 + 1
    BY <2>1, FS_Interval
  <2>. QED
    BY <1>1, <2>2
<1>6. ids \in Surjection(1..n, S)
  BY <1>4, <1>5, FS_Injection DEF n
<1>7. \A x \in S : \E i \in 1..n : ids[i] = x
  BY <1>6 DEF Surjection
<1>. QED
  BY <1>2, <1>3, <1>7 DEF Enumerates

\* What a search may rest on: a table of Products whose scores are scores.
Searchable(items, query) ==
  /\ Len(items) \in Nat /\ DOMAIN items = 1..Len(items)
  /\ \A id \in 1..Len(items) : ScoresFor(items[id], query)

LEMMA RankedProperties ==
  ASSUME NEW items, NEW query, Searchable(items, query), NEW ids \in Ranked(items, query)
  PROVE  /\ Enumerates(ids, Matching(items, query)) /\ DOMAIN ids = 1..Len(ids)
         /\ \A i, j \in 1..Len(ids) : i < j =>
              MatchScore(items[ids[i]], query) >= MatchScore(items[ids[j]], query)
<1> DEFINE M == Matching(items, query)
           score(id) == MatchScore(items[id], query)
<1>1. IsFiniteSet(M)
  <2>1. M \in SUBSET (1..Len(items))
    BY DEF Matching, Searchable
  <2>2. IsFiniteSet(1..Len(items))
    <3>1. 1 \in Int /\ Len(items) \in Int
      BY DEF Searchable
    <3>. QED
      BY <3>1, FS_Interval
  <2>. QED
    BY <2>1, <2>2, FS_Subset
<1>2. ids \in SetToSeqs(M)
  BY DEF Ranked
<1>3. \A i, j \in DOMAIN ids : i < j => score(ids[i]) > score(ids[j]) \/ score(ids[i]) = score(ids[j])
  BY DEF Ranked
<1>4. Enumerates(ids, M) /\ DOMAIN ids = 1..Len(ids)
  BY <1>1, <1>2, SetToSeqsEnumerate
<1>5. \A i \in 1..Len(ids) : score(ids[i]) \in 0..MaxSimilarity
  <2> TAKE i \in 1..Len(ids)
  <2>1. ids[i] \in M
    BY <1>4, ElementOfSeq DEF Enumerates
  <2>2. ScoresFor(items[ids[i]], query)
    BY <2>1 DEF Matching, Searchable
  <2>. QED
    BY <2>2, ScoreTyped
<1>6. ASSUME NEW i \in 1..Len(ids), NEW j \in 1..Len(ids), i < j
      PROVE  score(ids[i]) >= score(ids[j])
  <2>1. score(ids[i]) > score(ids[j]) \/ score(ids[i]) = score(ids[j])
    BY <1>3, <1>4, <1>6
  <2>2. score(ids[i]) \in 0..MaxSimilarity /\ score(ids[j]) \in 0..MaxSimilarity
    BY <1>5
  <2> HIDE DEF score
  <2>. QED
    BY <2>1, <2>2
<1>. QED
  BY <1>4, <1>6

\* What find_product may answer.
ClearIn(items, query, ids) ==
  \A id \in 1..Len(items) : id # ids[1] =>
     \/ MatchScore(items[id], query) < MatchScore(items[ids[1]], query) - AmbiguityScoreDelta
     \/ MatchScore(items[id], query) < MinMatchScore

RivalIn(items, query, ids) ==
  \E id \in 1..Len(items) :
     /\ id # ids[1] /\ MatchScore(items[id], query) >= MinMatchScore
     /\ MatchScore(items[ids[1]], query) - MatchScore(items[id], query) \in 0..AmbiguityScoreDelta

LEMMA RankingDecides ==
  ASSUME NEW items, NEW query, Searchable(items, query), NEW ids \in Ranked(items, query),
         ids # <<>>
  PROVE  LET scores == [i \in DOMAIN ids |-> MatchScore(items[ids[i]], query)]
         IN  /\ ids[1] \in 1..Len(items)
             /\ IsAmbiguous(scores) => RivalIn(items, query, ids)
             /\ ~IsAmbiguous(scores) => ClearIn(items, query, ids)
<1> DEFINE M == Matching(items, query)
           score(id) == MatchScore(items[id], query)
           scores == [i \in DOMAIN ids |-> score(ids[i])]
           n == Len(ids)
<1>1. ids \in Seq(M) /\ DOMAIN ids = 1..n
  BY RankedProperties DEF Enumerates
<1>2. \A x \in M : \E i \in 1..n : ids[i] = x
  BY RankedProperties DEF Enumerates
<1>3. \A i, j \in 1..n : i # j => ids[i] # ids[j]
  BY RankedProperties DEF Enumerates
<1>4. \A i, j \in 1..n : i < j => score(ids[i]) >= score(ids[j])
  BY RankedProperties
<1>5. \A id \in 1..Len(items) : score(id) \in 0..MaxSimilarity
  BY ScoreTyped DEF Searchable
<1>6. \A id \in 1..Len(items) : id \in M <=> score(id) >= MinMatchScore
  BY DEF Matching, Searchable
<1>7. \A id \in M : id \in 1..Len(items)
  BY DEF Matching, Searchable
<1>8. n \in Nat \ {0}
  BY <1>1, EmptySeq
<1>9. \A i \in 1..n : ids[i] \in M
  BY <1>1, ElementOfSeq
<1>10. scores \in Seq(Int) /\ Len(scores) = n /\ \A i \in 1..n : scores[i] = score(ids[i])
  <2>1. scores = [i \in 1..n |-> score(ids[i])]
    BY <1>1
  <2>2. \A i \in 1..n : score(ids[i]) \in Int
    BY <1>5, <1>7, <1>9
  <2> HIDE DEF score, scores
  <2>3. scores \in [1..n -> Int]
    BY <2>1, <2>2
  <2>4. scores \in Seq(Int) /\ Len(scores) = n
    BY <1>8, <2>3
  <2>. QED
    BY <2>1, <2>4
<1> HIDE DEF M, score, scores, n
<1>11. 1 \in 1..n /\ ids[1] \in M /\ ids[1] \in 1..Len(items)
  <2>1. 1 \in 1..n
    BY <1>8
  <2>2. ids[1] \in M
    BY <1>9, <2>1
  <2>. QED
    BY <1>7, <2>1, <2>2
<1>12. IsAmbiguous(scores) <=> (n > 1 /\ score(ids[1]) - score(ids[2]) <= AmbiguityScoreDelta)
  BY <1>8, <1>10 DEF IsAmbiguous
<1>13. ASSUME IsAmbiguous(scores) PROVE RivalIn(items, query, ids)
  <2>1. 2 \in 1..n /\ 1 < 2
    BY <1>8, <1>12, <1>13
  <2>2. ids[2] \in M /\ ids[2] \in 1..Len(items) /\ ids[2] # ids[1]
    <3>1. ids[2] \in M
      BY <1>9, <2>1
    <3>2. ids[2] # ids[1]
      BY <1>3, <1>11, <2>1
    <3>. QED
      BY <1>7, <3>1, <3>2
  <2>3. score(ids[1]) \in 0..MaxSimilarity /\ score(ids[2]) \in 0..MaxSimilarity
    BY <1>5, <1>11, <2>2
  <2>4. score(ids[1]) >= score(ids[2])
    BY <1>4, <1>11, <2>1
  <2>5. score(ids[1]) - score(ids[2]) \in 0..AmbiguityScoreDelta
    BY <1>12, <1>13, <2>3, <2>4, Thresholds
  <2>6. score(ids[2]) >= MinMatchScore
    BY <1>6, <2>2
  <2>. QED
    BY <2>2, <2>5, <2>6 DEF RivalIn, score
<1>14. ASSUME ~IsAmbiguous(scores), NEW id \in 1..Len(items), id # ids[1]
       PROVE  score(id) < score(ids[1]) - AmbiguityScoreDelta \/ score(id) < MinMatchScore
  <2>1. CASE id \notin M
    <3>1. ~(score(id) >= MinMatchScore) /\ score(id) \in 0..MaxSimilarity
      BY <1>5, <1>6, <2>1
    <3>. QED
      BY <3>1, Thresholds
  <2>2. CASE id \in M
    <3>1. PICK i \in 1..n : ids[i] = id
      BY <1>2, <2>2
    <3>2. i # 1 /\ i >= 2 /\ n > 1 /\ 2 \in 1..n
      BY <1>8, <1>14, <3>1
    <3>3. ids[2] \in 1..Len(items)
      BY <1>7, <1>9, <3>2
    <3>4. score(ids[1]) \in 0..MaxSimilarity /\ score(ids[2]) \in 0..MaxSimilarity /\ score(id) \in 0..MaxSimilarity
      BY <1>5, <1>11, <3>3
    <3>5. score(ids[2]) >= score(id)
      <4>1. CASE i = 2
        BY <3>1, <3>4, <4>1
      <4>2. CASE i # 2
        <5>1. 2 < i
          BY <3>2, <4>2
        <5>. QED
          BY <1>4, <3>1, <3>2, <5>1
      <4>. QED
        BY <4>1, <4>2
    <3>6. ~(score(ids[1]) - score(ids[2]) <= AmbiguityScoreDelta)
      BY <1>12, <1>14, <3>2
    <3>. QED
      BY <3>4, <3>5, <3>6, Thresholds
  <2>. QED
    BY <2>1, <2>2
<1>15. ASSUME ~IsAmbiguous(scores) PROVE ClearIn(items, query, ids)
  BY <1>14, <1>15 DEF ClearIn, score
<1>. QED
  BY <1>11, <1>13, <1>15 DEF scores, score

\* What FindIsClear says of one answer to the request r, in a table of Products
\* that had `among` rows when it was given.
SearchHolds(items, r, answer) ==
  LET first == answer.candidates[1]
      score(id) == MatchScore(items[id], r.query)
  IN  /\ answer.candidates # <<>> <=> answer.status # "refused"
      /\ r.op = "find_product" /\ answer.status = "ok" =>
           \A id \in 1..answer.among : id # first => score(id) < score(first) - AmbiguityScoreDelta
                                                     \/ score(id) < MinMatchScore
      /\ r.op = "find_product" /\ answer.status = "ambiguous" =>
           \E id \in 1..answer.among : id # first /\ score(id) >= MinMatchScore
                                         /\ score(first) - score(id) \in 0..AmbiguityScoreDelta
      /\ r.op = "scan_barcode" /\ answer.status = "ok" =>
           {id \in DOMAIN items : items[id].barcode = r.barcode} = {first}
      /\ r.op = "prepare_photo_product" /\ answer.status = "ok" => r.confirm

\* And what keeps it true when Products are added.
SearchLasts(items, r, answer) ==
  /\ answer.among \in 0..Len(items)
  /\ r.op = "find_product" /\ answer.status # "refused" => answer.candidates[1] \in 1..answer.among
  /\ r.op = "scan_barcode" /\ answer.status = "ok" => r.barcode # NoLabel

Searched(items, answer) ==
  [status |-> answer.status, candidates |-> answer.candidates, among |-> Len(items)]

LEMMA FindProductHolds ==
  ASSUME NEW items, NEW r, r.op = "find_product", Searchable(items, r.query),
         NEW answer \in FindProduct(items, r.query)
  PROVE  /\ SearchHolds(items, r, Searched(items, answer))
         /\ SearchLasts(items, r, Searched(items, answer))
<1> DEFINE status(ids) == IF IsAmbiguous([i \in DOMAIN ids |-> MatchScore(items[ids[i]], r.query)])
                          THEN "ambiguous" ELSE "ok"
           full == Searched(items, answer)
<1>1. PICK ids \in Ranked(items, r.query) :
        answer = IF ids = <<>> THEN Refused ELSE [status |-> status(ids), candidates |-> ids]
  BY DEF FindProduct
<1>2. Len(items) \in 0..Len(items)
  BY DEF Searchable
<1>3. /\ full.status = answer.status /\ full.candidates = answer.candidates
      /\ full.among = Len(items)
  BY DEF Searched
<1>4. CASE ids = <<>>
  <2>1. full.status = "refused" /\ full.candidates = <<>>
    BY <1>1, <1>3, <1>4 DEF Refused
  <2> HIDE DEF full
  <2>2. SearchHolds(items, r, full)
    BY <2>1 DEF SearchHolds
  <2>3. SearchLasts(items, r, full)
    BY <1>2, <1>3, <2>1 DEF SearchLasts
  <2>. QED
    BY <2>2, <2>3 DEF full
<1>5. CASE ids # <<>>
  <2> DEFINE ambiguous == IsAmbiguous([i \in DOMAIN ids |-> MatchScore(items[ids[i]], r.query)])
  <2>1. /\ ids[1] \in 1..Len(items)
        /\ ambiguous => RivalIn(items, r.query, ids)
        /\ ~ambiguous => ClearIn(items, r.query, ids)
    BY <1>5, RankingDecides
  <2>2. full.candidates = ids /\ full.status = IF ambiguous THEN "ambiguous" ELSE "ok"
    BY <1>1, <1>3, <1>5
  <2> HIDE DEF full, ambiguous
  <2>3. full.status = "ok" => ClearIn(items, r.query, full.candidates)
    BY <2>1, <2>2
  <2>4. full.status = "ambiguous" => RivalIn(items, r.query, full.candidates)
    BY <2>1, <2>2
  <2>5. full.candidates # <<>> /\ full.status # "refused"
    BY <1>5, <2>2
  <2>6. SearchHolds(items, r, full)
    BY <1>3, <2>3, <2>4, <2>5 DEF SearchHolds, ClearIn, RivalIn
  <2>7. SearchLasts(items, r, full)
    BY <1>2, <1>3, <2>1, <2>2 DEF SearchLasts
  <2>. QED
    BY <2>6, <2>7 DEF full
<1>. QED
  BY <1>4, <1>5

\* A table with a unique index on barcode.
BarcodesUnique(items) ==
  \A i, j \in DOMAIN items :
    items[i].barcode = items[j].barcode => i = j \/ items[i].barcode = NoLabel

LEMMA SetToSeqOfOne == ASSUME NEW x PROVE SetToSeq({x}) = <<x>>
<1>1. Cardinality({x}) = 1
  BY FS_Singleton
<1>2. 1..1 = {1}
  OBVIOUS
<1>3. \A f \in [{1} -> {x}] : f = <<x>>
  OBVIOUS
<1>4. <<x>> \in [{1} -> {x}] /\ IsInjective(<<x>>)
  BY DEF IsInjective
<1>5. SetToSeq({x}) = CHOOSE f \in [{1} -> {x}] : IsInjective(f)
  BY <1>1, <1>2 DEF SetToSeq
<1>6. SetToSeq({x}) \in [{1} -> {x}]
  BY <1>4, <1>5
<1>. QED
  BY <1>3, <1>6

LEMMA ScanBarcodeHolds ==
  ASSUME NEW items, NEW r, r.op = "scan_barcode", Len(items) \in Nat, BarcodesUnique(items)
  PROVE  LET answer == Searched(items, ScanBarcode(items, r.barcode))
         IN  SearchHolds(items, r, answer) /\ SearchLasts(items, r, answer)
<1> DEFINE full  == Searched(items, ScanBarcode(items, r.barcode))
           found == {id \in DOMAIN items : items[id].barcode = r.barcode}
<1>1. full.among \in 0..Len(items)
  BY DEF Searched
<1>2. CASE r.barcode = NoLabel \/ found = {}
  <2>1. full.status = "refused" /\ full.candidates = <<>>
    BY <1>2 DEF Searched, ScanBarcode, FindByBarcode, Refused
  <2> HIDE DEF full
  <2>2. SearchHolds(items, r, full)
    BY <2>1 DEF SearchHolds
  <2>3. SearchLasts(items, r, full)
    BY <1>1, <2>1 DEF SearchLasts
  <2>. QED
    BY <2>2, <2>3 DEF full
<1>3. CASE r.barcode # NoLabel /\ found # {}
  <2>1. PICK id \in found : TRUE
    BY <1>3
  <2>2. found = {id}
    BY <1>3, <2>1 DEF BarcodesUnique
  <2>3. full.status = "ok" /\ full.candidates = SetToSeq(found)
    BY <1>3 DEF Searched, ScanBarcode, FindByBarcode
  <2>4. full.candidates = <<id>>
    BY <2>2, <2>3, SetToSeqOfOne
  <2> HIDE DEF full
  <2>5. full.candidates # <<>> /\ full.candidates[1] = id
    BY <2>4
  <2>6. {i \in DOMAIN items : items[i].barcode = r.barcode} = {full.candidates[1]}
    BY <2>2, <2>5
  <2> HIDE DEF found
  <2>7. SearchHolds(items, r, full)
    BY <2>3, <2>5, <2>6 DEF SearchHolds
  <2>8. SearchLasts(items, r, full)
    BY <1>1, <1>3 DEF SearchLasts
  <2>. QED
    BY <2>7, <2>8 DEF full
<1>. QED
  BY <1>2, <1>3

LEMMA PreparePhotoHolds ==
  ASSUME NEW items, NEW r, r.op = "prepare_photo_product", Len(items) \in Nat
  PROVE  LET answer == Searched(items, PreparePhoto(items, r.product, r.confirm))
         IN  SearchHolds(items, r, answer) /\ SearchLasts(items, r, answer)
<1> DEFINE full == Searched(items, PreparePhoto(items, r.product, r.confirm))
<1>1. full.among \in 0..Len(items)
  BY DEF Searched
<1>2. CASE r.product \notin DOMAIN items
  <2>1. full.status = "refused" /\ full.candidates = <<>>
    BY <1>2 DEF Searched, PreparePhoto, Refused
  <2> HIDE DEF full
  <2>2. SearchHolds(items, r, full)
    BY <2>1 DEF SearchHolds
  <2>3. SearchLasts(items, r, full)
    BY <1>1, <2>1 DEF SearchLasts
  <2>. QED
    BY <2>2, <2>3 DEF full
<1>3. CASE r.product \in DOMAIN items
  <2>1. full.candidates = <<r.product>>
    BY <1>3 DEF Searched, PreparePhoto
  <2>2. full.status = IF r.confirm THEN "ok" ELSE "requires_confirmation"
    BY <1>3 DEF Searched, PreparePhoto
  <2> HIDE DEF full
  <2>3. full.candidates # <<>>
    BY <2>1
  <2>4. full.status # "refused" /\ (full.status = "ok" => r.confirm)
    BY <2>2
  <2>5. SearchHolds(items, r, full)
    BY <2>3, <2>4 DEF SearchHolds
  <2>6. SearchLasts(items, r, full)
    BY <1>1 DEF SearchLasts
  <2>. QED
    BY <2>5, <2>6 DEF full
<1>. QED
  BY <1>2, <1>3

\* An answer stays true when a Product is added: it has no barcode, and the
\* answer is about those that were there.
LEMMA SearchStays ==
  ASSUME NEW S, NEW items \in Seq(S), NEW product \in S, product.barcode = NoLabel,
         NEW r, NEW answer, SearchHolds(items, r, answer), SearchLasts(items, r, answer)
  PROVE  /\ SearchHolds(Append(items, product), r, answer)
         /\ SearchLasts(Append(items, product), r, answer)
<1> DEFINE more == Append(items, product)
<1>1. /\ more \in Seq(S) /\ Len(more) = Len(items) + 1 /\ more[Len(items) + 1] = product
      /\ \A id \in 1..Len(items) : more[id] = items[id]
  BY AppendProperties
<1>2. DOMAIN more = 1..Len(more) /\ DOMAIN items = 1..Len(items) /\ Len(items) \in Nat
  BY <1>1, LenProperties
<1> HIDE DEF more
<1>3. \A id \in 1..answer.among : more[id] = items[id]
  BY <1>1, <1>2 DEF SearchLasts
<1> DEFINE first == answer.candidates[1]
<1>4. ASSUME r.op = "find_product" /\ answer.status # "refused"
      PROVE  MatchScore(more[first], r.query) = MatchScore(items[first], r.query)
  BY <1>3, <1>4 DEF SearchLasts
<1>5. ASSUME r.op = "find_product" /\ answer.status = "ok"
      PROVE  \A id \in 1..answer.among : id # first =>
               \/ MatchScore(more[id], r.query) < MatchScore(more[first], r.query) - AmbiguityScoreDelta
               \/ MatchScore(more[id], r.query) < MinMatchScore
  BY <1>3, <1>4, <1>5 DEF SearchHolds
<1>6. ASSUME r.op = "find_product" /\ answer.status = "ambiguous"
      PROVE  \E id \in 1..answer.among :
               /\ id # first /\ MatchScore(more[id], r.query) >= MinMatchScore
               /\ MatchScore(more[first], r.query) - MatchScore(more[id], r.query) \in 0..AmbiguityScoreDelta
  BY <1>3, <1>4, <1>6 DEF SearchHolds
<1>7. ASSUME r.op = "scan_barcode" /\ answer.status = "ok"
      PROVE  {id \in DOMAIN more : more[id].barcode = r.barcode} = {first}
  <2>1. {id \in DOMAIN items : items[id].barcode = r.barcode} = {first} /\ r.barcode # NoLabel
    BY <1>7 DEF SearchHolds, SearchLasts
  <2>2. \A id \in DOMAIN more : id \in DOMAIN items \/ id = Len(items) + 1
    BY <1>1, <1>2
  <2>3. \A id \in DOMAIN items : id \in DOMAIN more /\ more[id] = items[id]
    BY <1>1, <1>2
  <2>. QED
    BY <1>1, <2>1, <2>2, <2>3
<1> HIDE DEF first
<1>8. SearchHolds(more, r, answer)
  BY <1>5, <1>6, <1>7 DEF SearchHolds, first
<1>9. SearchLasts(more, r, answer)
  BY <1>1, <1>2 DEF SearchLasts
<1>. QED
  BY <1>8, <1>9 DEF more

-----------------------------------------------------------------------------
(* The invariant.  A table of Products only grows, by Products without a     *)
(* barcode.                                                                  *)

ProductsKept(items) ==
  /\ items \in Seq(KnownProducts)
  /\ Len(SeedProducts) <= Len(items)
  /\ \A id \in DOMAIN items :
       IF id \in DOMAIN SeedProducts THEN items[id] = SeedProducts[id] ELSE items[id].barcode = NoLabel

\* What a row says is what the Owner meant.
RowKept(ids, key, rows, meaning) ==
  \/ rows = {} /\ meaning = {}
  \/ \E text \in rows : /\ rows = {text} /\ ParseAmong(ids, key, text) # {}
                        /\ meaning = ParseAmong(ids, key, text)

PrefsKept(ids, rows, meanings) ==
  /\ DOMAIN rows = Keys /\ DOMAIN meanings = Keys
  /\ \A key \in Keys : RowKept(ids, key, rows[key], meanings[key])

\* A Shop Profile of values that were given.
ValidProfiles == {r \in Requests : r.op = "set_shop_profile" /\ ~InvalidProfile(r)}

Given(column) == {NoProfile[column]} \cup {AskedFor(r, NoProfile)[column] : r \in ValidProfiles}

GoodRow(row) ==
  /\ DOMAIN row = DOMAIN NoProfile /\ row.name # ""
  /\ \A column \in DOMAIN NoProfile : row[column] \in Given(column)

AtMostGood(rows) == rows = {} \/ \E row \in rows : rows = {row} /\ GoodRow(row)

\* A call that is about to write the Profile.
WritesProfile(k) == k.pc = "write" /\ k.request.op = "set_shop_profile"

\* A row that was there is there to stay.  Without an overlap it is what was asked
\* for, and the only call that is writing has loaded it.
ProfileKept(calls, rows, latest, overlapped) ==
  /\ AtMostGood(rows) /\ DOMAIN latest = DOMAIN NoProfile
  /\ \A c \in Calls : WritesProfile(calls[c]) /\ calls[c].loaded # {} => rows # {}
  /\ ~overlapped =>
       /\ IF rows = {} THEN latest = NoProfile ELSE rows = {latest}
       /\ \A c, d \in Calls : WritesProfile(calls[c]) /\ WritesProfile(calls[d]) => c = d
       /\ \A c \in Calls : WritesProfile(calls[c]) => calls[c].loaded = rows

\* One call, at any of its steps.
CallTyped(k) ==
  /\ k.pc = "idle" \/ k.request \in Requests
  /\ k.pc \in Tools => k.pc = k.request.op
  /\ k.pc = "write" => k.request.op \in {"set_preference", "set_shop_profile"}
  /\ IF k.pc = "done" THEN \E answer \in k.answer : k.answer = {answer} ELSE k.answer = {}

PreferenceAccepted(ids, k) ==
  k.pc = "write" /\ k.request.op = "set_preference" =>
    ParseAmong(ids, k.request.key, k.request.text) # {}

ProfileAccepted(k) == WritesProfile(k) => k.request \in ValidProfiles /\ AtMostGood(k.loaded)

MemoryKnown(ids, k) ==
  /\ k.pc = "memory_profile" =>
       \E stored \in k.loaded : /\ k.loaded = {stored}
                                /\ \A text \in stored["preferred_product:atta"] :
                                     Number(text.numbers[1]) \in ids
  /\ \A memory \in k.answer :
       "preferred" \in DOMAIN memory => \A row \in memory.preferred : row.name # {}

SearchKept(items, k) ==
  \A answer \in k.answer :
    "among" \in DOMAIN answer =>
      SearchHolds(items, k.request, answer) /\ SearchLasts(items, k.request, answer)

CallKept(items, k) ==
  /\ CallTyped(k) /\ PreferenceAccepted(DOMAIN items, k) /\ ProfileAccepted(k)
  /\ MemoryKnown(DOMAIN items, k) /\ SearchKept(items, k)

MemoryInv ==
  /\ ProductsKept(products)
  /\ PrefsKept(DOMAIN products, prefs, meant)
  /\ DOMAIN call = Calls /\ \A c \in Calls : CallKept(products, call[c])
  /\ ProfileKept(call, profile, asked, mixed)

-----------------------------------------------------------------------------
(* A Product more *)

LEMMA ProductsFacts ==
  ASSUME NEW items, ProductsKept(items)
  PROVE  /\ Len(items) \in Nat /\ DOMAIN items = 1..Len(items)
         /\ BarcodesUnique(items)
         /\ \A r \in Asking("find_product") : Searchable(items, r.query)
<1>1. Len(items) \in Nat /\ DOMAIN items = 1..Len(items)
  BY LenProperties DEF ProductsKept
<1>2. BarcodesUnique(items)
  <2> SUFFICES ASSUME NEW i \in DOMAIN items, NEW j \in DOMAIN items,
                      items[i].barcode = items[j].barcode, items[i].barcode # NoLabel
               PROVE  i = j
    BY DEF BarcodesUnique
  <2>1. i \in DOMAIN SeedProducts /\ items[i] = SeedProducts[i]
    BY DEF ProductsKept
  <2>2. j \in DOMAIN SeedProducts /\ items[j] = SeedProducts[j]
    BY DEF ProductsKept
  <2>. QED
    BY <2>1, <2>2, ShopMemoryAssumption
<1>3. ASSUME NEW r \in Asking("find_product") PROVE Searchable(items, r.query)
  <2>1. ASSUME NEW id \in 1..Len(items) PROVE ScoresFor(items[id], r.query)
    <3>1. items[id] \in KnownProducts
      BY ElementOfSeq DEF ProductsKept
    <3>. QED
      BY <3>1, ShopMemoryAssumption DEF ScoresFor
  <2>. QED
    BY <1>1, <2>1 DEF Searchable
<1>. QED
  BY <1>1, <1>2, <1>3

LEMMA SeedFacts == Len(SeedProducts) \in Nat /\ DOMAIN SeedProducts = 1..Len(SeedProducts)
<1>1. SeedProducts \in Seq(Range(SeedProducts))
  BY ShopMemoryAssumption
<1>. QED
  BY <1>1, LenProperties

LEMMA ProductsGrow ==
  ASSUME NEW items, ProductsKept(items), NEW r \in Asking("add_product"),
         NEW product, product = NewProduct(r.name, r.brand)
  PROVE  /\ product \in KnownProducts /\ product.barcode = NoLabel
         /\ ProductsKept(Append(items, product))
         /\ Len(Append(items, product)) = Len(items) + 1
         /\ DOMAIN items \subseteq DOMAIN Append(items, product)
<1> DEFINE more == Append(items, product)
<1>1. product \in KnownProducts /\ product.barcode = NoLabel
  BY DEF KnownProducts, NewProduct
<1>2. /\ more \in Seq(KnownProducts) /\ Len(more) = Len(items) + 1
      /\ more[Len(items) + 1] = product /\ \A id \in 1..Len(items) : more[id] = items[id]
  BY <1>1, AppendProperties DEF ProductsKept
<1>3. DOMAIN more = 1..Len(more) /\ DOMAIN items = 1..Len(items) /\ Len(items) \in Nat
  BY <1>2, ProductsFacts, LenProperties
<1> HIDE DEF more
<1>4. Len(SeedProducts) \in Nat /\ DOMAIN SeedProducts = 1..Len(SeedProducts)
      /\ Len(SeedProducts) <= Len(items)
  BY SeedFacts DEF ProductsKept
<1>5. ASSUME NEW id \in DOMAIN more
      PROVE  IF id \in DOMAIN SeedProducts THEN more[id] = SeedProducts[id] ELSE more[id].barcode = NoLabel
  <2>1. CASE id \in DOMAIN items
    BY <1>2, <1>3, <2>1 DEF ProductsKept
  <2>2. CASE id \notin DOMAIN items
    <3>1. id = Len(items) + 1
      BY <1>2, <1>3, <2>2
    <3>2. id \notin DOMAIN SeedProducts
      BY <1>3, <1>4, <3>1
    <3>. QED
      BY <1>1, <1>2, <3>1, <3>2
  <2>. QED
    BY <2>1, <2>2
<1>6. Len(SeedProducts) <= Len(more)
  BY <1>2, <1>3, <1>4
<1>7. ProductsKept(more)
  BY <1>2, <1>5, <1>6 DEF ProductsKept
<1>8. DOMAIN items \subseteq DOMAIN more
  BY <1>2, <1>3
<1>. QED
  BY <1>1, <1>2, <1>7, <1>8 DEF more

\* An accepted text means the same when there are more Products.
LEMMA ParseGrows ==
  ASSUME NEW ids, NEW more, ids \subseteq more, NEW key, NEW text, ParseAmong(ids, key, text) # {}
  PROVE  ParseAmong(more, key, text) = ParseAmong(ids, key, text)
<1>1. CASE key = "preferred_product:atta"
  <2>1. ParseAmong(ids, key, text) = ParseNumber(text) \cap ids
        /\ ParseAmong(more, key, text) = ParseNumber(text) \cap more
    BY <1>1, ParseByKey
  <2>2. \A a, b \in ParseNumber(text) : a = b
    BY DEF ParseNumber
  <2>. QED
    BY <2>1, <2>2
<1>2. CASE key # "preferred_product:atta"
  BY <1>2 DEF ParseAmong
<1>. QED
  BY <1>1, <1>2

LEMMA PrefsGrow ==
  ASSUME NEW ids, NEW more, ids \subseteq more, NEW rows, NEW meanings,
         PrefsKept(ids, rows, meanings)
  PROVE  PrefsKept(more, rows, meanings)
<1>1. ASSUME NEW key \in Keys PROVE RowKept(more, key, rows[key], meanings[key])
  <2>1. RowKept(ids, key, rows[key], meanings[key])
    BY DEF PrefsKept
  <2>2. CASE rows[key] = {} /\ meanings[key] = {}
    BY <2>2 DEF RowKept
  <2>3. CASE ~(rows[key] = {} /\ meanings[key] = {})
    <3>1. PICK text \in rows[key] :
            /\ rows[key] = {text} /\ ParseAmong(ids, key, text) # {}
            /\ meanings[key] = ParseAmong(ids, key, text)
      BY <2>1, <2>3 DEF RowKept
    <3>2. ParseAmong(more, key, text) = ParseAmong(ids, key, text)
      BY <3>1, ParseGrows
    <3>. QED
      BY <3>1, <3>2 DEF RowKept
  <2>. QED
    BY <2>2, <2>3
<1>. QED
  BY <1>1 DEF PrefsKept

LEMMA CallStays ==
  ASSUME NEW items, ProductsKept(items), NEW product \in KnownProducts, product.barcode = NoLabel,
         DOMAIN items \subseteq DOMAIN Append(items, product),
         NEW k, CallKept(items, k)
  PROVE  CallKept(Append(items, product), k)
<1> DEFINE more == Append(items, product)
<1>1. DOMAIN items \subseteq DOMAIN more
  OBVIOUS
<1>2. SearchKept(more, k)
  <2>1. items \in Seq(KnownProducts)
    BY DEF ProductsKept
  <2>2. ASSUME NEW answer \in k.answer, "among" \in DOMAIN answer
        PROVE  SearchHolds(more, k.request, answer) /\ SearchLasts(more, k.request, answer)
    <3>1. SearchHolds(items, k.request, answer) /\ SearchLasts(items, k.request, answer)
      BY <2>2 DEF CallKept, SearchKept
    <3>. QED
      BY <2>1, <3>1, SearchStays
  <2>. QED
    BY <2>2 DEF SearchKept
<1> HIDE DEF more
<1>3. PreferenceAccepted(DOMAIN more, k)
  <2> SUFFICES ASSUME k.pc = "write", k.request.op = "set_preference"
               PROVE  ParseAmong(DOMAIN more, k.request.key, k.request.text) # {}
    BY DEF PreferenceAccepted
  <2>1. ParseAmong(DOMAIN items, k.request.key, k.request.text) # {}
    BY DEF CallKept, PreferenceAccepted
  <2>. QED
    BY <1>1, <2>1, ParseGrows
<1>4. MemoryKnown(DOMAIN more, k)
  BY <1>1 DEF CallKept, MemoryKnown
<1>5. CallTyped(k) /\ ProfileAccepted(k)
  BY DEF CallKept
<1>. QED
  BY <1>2, <1>3, <1>4, <1>5 DEF CallKept, more

-----------------------------------------------------------------------------
(* One call moves *)

Record(pc, request, loaded, answer) ==
  [pc |-> pc, request |-> request, loaded |-> loaded, answer |-> answer]

Grows(items, more) ==
  \/ more = items
  \/ \E r \in Asking("add_product") : more = Append(items, NewProduct(r.name, r.brand))

LEMMA OthersKept ==
  ASSUME NEW calls, DOMAIN calls = Calls, NEW items, ProductsKept(items),
         \A d \in Calls : CallKept(items, calls[d]),
         NEW more, Grows(items, more), NEW c \in Calls, NEW k, CallKept(more, k),
         NEW after, after = [calls EXCEPT ![c] = k]
  PROVE  DOMAIN after = Calls /\ \A d \in Calls : CallKept(more, after[d])
<1>1. DOMAIN after = Calls /\ after[c] = k /\ \A d \in Calls : d # c => after[d] = calls[d]
  OBVIOUS
<1>2. ASSUME NEW d \in Calls PROVE CallKept(more, calls[d])
  <2>1. CASE more = items
    BY <2>1
  <2>2. CASE more # items
    <3>1. PICK r \in Asking("add_product") : more = Append(items, NewProduct(r.name, r.brand))
      BY <2>2 DEF Grows
    <3> DEFINE product == NewProduct(r.name, r.brand)
    <3>2. /\ product \in KnownProducts /\ product.barcode = NoLabel
          /\ DOMAIN items \subseteq DOMAIN Append(items, product)
      BY ProductsGrow
    <3>3. more = Append(items, product)
      BY <3>1
    <3> HIDE DEF product
    <3>. QED
      BY <3>2, <3>3, CallStays
  <2>. QED
    BY <2>1, <2>2
<1>. QED
  BY <1>1, <1>2

\* A call that is not about to write the Profile leaves it kept.
LEMMA ProfileStays ==
  ASSUME NEW calls, DOMAIN calls = Calls, NEW c \in Calls, NEW k, ~WritesProfile(k),
         NEW rows, NEW latest, NEW overlapped, ProfileKept(calls, rows, latest, overlapped),
         NEW after, after = [calls EXCEPT ![c] = k]
  PROVE  ProfileKept(after, rows, latest, overlapped)
<1>1. after[c] = k /\ \A d \in Calls : d # c => after[d] = calls[d]
  OBVIOUS
<1>2. \A d \in Calls : WritesProfile(after[d]) => after[d] = calls[d]
  BY <1>1
<1>. QED
  BY <1>2 DEF ProfileKept

\* A step that changes its call only, and not to one that writes the Profile.
LEMMA QuietStep ==
  ASSUME MemoryInv, NEW c \in Calls, NEW k, call' = [call EXCEPT ![c] = k],
         CallKept(products, k), ~WritesProfile(k), UNCHANGED <<tables, history>>
  PROVE  MemoryInv'
<1>1. /\ products' = products /\ prefs' = prefs /\ profile' = profile
      /\ meant' = meant /\ asked' = asked /\ mixed' = mixed
  BY DEF tables, history
<1>2. DOMAIN call' = Calls /\ \A d \in Calls : CallKept(products, call'[d])
  <2>1. Grows(products, products)
    BY DEF Grows
  <2>. QED
    BY <2>1, OthersKept DEF MemoryInv
<1>3. ProfileKept(call', profile, asked, mixed)
  BY ProfileStays DEF MemoryInv
<1>. QED
  BY <1>1, <1>2, <1>3 DEF MemoryInv

\* The answer of a call that found nothing.
Plain(answer) == "among" \notin DOMAIN answer /\ "preferred" \notin DOMAIN answer

LEMMA AnswerKept ==
  ASSUME NEW items, NEW old, CallTyped(old), old.pc # "idle", NEW answer, Plain(answer)
  PROVE  /\ CallKept(items, Record("done", old.request, {}, {answer}))
         /\ ~WritesProfile(Record("done", old.request, {}, {answer}))
<1> DEFINE k == Record("done", old.request, {}, {answer})
<1>1. /\ k.pc = "done" /\ k.request = old.request /\ k.answer = {answer}
  BY DEF Record
<1> HIDE DEF k
<1>2. "done" \notin Tools
  BY DEF Tools
<1>3. CallTyped(k)
  BY <1>1, <1>2 DEF CallTyped
<1>4. ~WritesProfile(k) /\ ProfileAccepted(k) /\ PreferenceAccepted(DOMAIN items, k)
  BY <1>1 DEF WritesProfile, ProfileAccepted, PreferenceAccepted
<1>5. MemoryKnown(DOMAIN items, k) /\ SearchKept(items, k)
  BY <1>1 DEF MemoryKnown, SearchKept, Plain
<1>. QED
  BY <1>3, <1>4, <1>5 DEF CallKept, k

LEMMA PlainAnswers ==
  /\ Plain(Refused) /\ Plain([status |-> "failed"]) /\ Plain([status |-> "ok"])
  /\ \A ids : Plain([status |-> "ok", candidates |-> ids])
BY DEF Plain, Refused

LEMMA MovesAre ==
  ASSUME NEW c \in Calls
  PROVE  /\ \A answer : Answer(c, answer) =>
              call' = [call EXCEPT ![c] = Record("done", call[c].request, {}, {answer})]
         /\ \A pc, rows : Load(c, pc, rows) =>
              call' = [call EXCEPT ![c] = Record(pc, call[c].request, rows, {})]
BY DEF Answer, Load, Becomes, Record

\* A step that answers plainly and changes nothing else.
LEMMA PlainStep ==
  ASSUME MemoryInv, NEW c \in Calls, call[c].pc # "idle", NEW answer, Plain(answer),
         Answer(c, answer), UNCHANGED <<tables, history>>
  PROVE  MemoryInv'
<1> DEFINE k == Record("done", call[c].request, {}, {answer})
<1>1. CallTyped(call[c])
  BY DEF MemoryInv, CallKept
<1>2. CallKept(products, k) /\ ~WritesProfile(k)
  BY <1>1, AnswerKept
<1>3. call' = [call EXCEPT ![c] = k]
  BY MovesAre
<1> HIDE DEF k
<1>. QED
  BY <1>2, <1>3, QuietStep

\* A call at its first step runs what it was asked for.
LEMMA RunsItsRequest ==
  ASSUME MemoryInv, NEW c \in Calls, call[c].pc \in Tools \cup {"write"}
  PROVE  /\ call[c].request \in Requests /\ call[c].pc # "idle"
         /\ call[c].pc # "write" => call[c].request.op = call[c].pc
<1>1. CallTyped(call[c])
  BY DEF MemoryInv, CallKept
<1>2. call[c].pc # "idle"
  BY DEF Tools
<1>. QED
  BY <1>1, <1>2 DEF CallTyped

-----------------------------------------------------------------------------
(* The steps: Begin, searches and the standing memory *)

LEMMA BeginKeeps ==
  ASSUME MemoryInv, NEW c \in Calls, NEW request \in Requests, Begin(c, request)
  PROVE  MemoryInv'
<1> DEFINE k == Record(request.op, request, {}, {})
<1>1. k.pc = request.op /\ k.request = request /\ k.loaded = {} /\ k.answer = {}
  BY DEF Record
<1>2. call' = [call EXCEPT ![c] = k] /\ UNCHANGED <<tables, history>>
  BY DEF Begin, Becomes, Record
<1> HIDE DEF k
<1>3. k.pc \in Tools
  BY <1>1, ShopMemoryAssumption
<1>4. k.pc # "write" /\ k.pc # "done" /\ k.pc # "memory_profile"
  BY <1>3 DEF Tools
<1>5. CallTyped(k)
  BY <1>1, <1>4 DEF CallTyped
<1>6. ~WritesProfile(k) /\ ProfileAccepted(k) /\ PreferenceAccepted(DOMAIN products, k)
  BY <1>4 DEF WritesProfile, ProfileAccepted, PreferenceAccepted
<1>7. MemoryKnown(DOMAIN products, k) /\ SearchKept(products, k)
  BY <1>1, <1>4 DEF MemoryKnown, SearchKept
<1>8. CallKept(products, k)
  BY <1>5, <1>6, <1>7 DEF CallKept
<1>. QED
  BY <1>2, <1>6, <1>8, QuietStep

\* A search that answered what holds.
LEMMA FoundKeeps ==
  ASSUME MemoryInv, NEW c \in Calls, NEW op \in Tools, NEW answer, Found(c, op, answer),
         SearchHolds(products, call[c].request, Searched(products, answer)),
         SearchLasts(products, call[c].request, Searched(products, answer))
  PROVE  MemoryInv'
<1> DEFINE full == Searched(products, answer)
           k    == Record("done", call[c].request, {}, {full})
<1>1. call' = [call EXCEPT ![c] = k] /\ UNCHANGED <<tables, history>> /\ call[c].pc = op
  BY MovesAre DEF Found, Searched
<1>2. k.pc = "done" /\ k.request = call[c].request /\ k.answer = {full}
  BY DEF Record
<1>3. "preferred" \notin DOMAIN full
  BY DEF Searched
<1>4. SearchHolds(products, k.request, full) /\ SearchLasts(products, k.request, full)
  BY <1>2
<1> HIDE DEF k, full
<1>5. CallTyped(k)
  <2>1. k.request \in Requests
    BY <1>1, <1>2, RunsItsRequest
  <2>. QED
    BY <1>2, <2>1 DEF CallTyped, Tools
<1>6. ~WritesProfile(k) /\ ProfileAccepted(k) /\ PreferenceAccepted(DOMAIN products, k)
  BY <1>2 DEF WritesProfile, ProfileAccepted, PreferenceAccepted
<1>7. MemoryKnown(DOMAIN products, k) /\ SearchKept(products, k)
  BY <1>2, <1>3, <1>4 DEF MemoryKnown, SearchKept
<1>8. CallKept(products, k)
  BY <1>5, <1>6, <1>7 DEF CallKept
<1>. QED
  BY <1>1, <1>6, <1>8, QuietStep

LEMMA FindProductKeeps ==
  ASSUME MemoryInv, NEW c \in Calls, FindProductCall(c)
  PROVE  MemoryInv'
<1> DEFINE r == call[c].request
<1>1. PICK answer \in FindProduct(products, r.query) : Found(c, "find_product", answer)
  BY DEF FindProductCall
<1>2. "find_product" \in Tools
  BY DEF Tools
<1>3. r \in Requests /\ r.op = "find_product"
  BY <1>2, RunsItsRequest DEF FindProductCall
<1>4. Searchable(products, r.query)
  BY <1>3, ProductsFacts DEF MemoryInv, Asking
<1> HIDE DEF r
<1>5. /\ SearchHolds(products, r, Searched(products, answer))
      /\ SearchLasts(products, r, Searched(products, answer))
  BY <1>1, <1>3, <1>4, FindProductHolds
<1>. QED
  BY <1>1, <1>2, <1>5, FoundKeeps DEF r

LEMMA ScanBarcodeKeeps ==
  ASSUME MemoryInv, NEW c \in Calls, ScanBarcodeCall(c)
  PROVE  MemoryInv'
<1> DEFINE r      == call[c].request
           answer == ScanBarcode(products, r.barcode)
<1>1. Found(c, "scan_barcode", answer) /\ call[c].pc = "scan_barcode"
  BY DEF ScanBarcodeCall, Found
<1>2. "scan_barcode" \in Tools
  BY DEF Tools
<1>3. r.op = "scan_barcode"
  BY <1>1, <1>2, RunsItsRequest
<1>4. Len(products) \in Nat /\ BarcodesUnique(products)
  BY ProductsFacts DEF MemoryInv
<1> HIDE DEF r
<1>5. /\ SearchHolds(products, r, Searched(products, answer))
      /\ SearchLasts(products, r, Searched(products, answer))
  BY <1>3, <1>4, ScanBarcodeHolds
<1> HIDE DEF answer
<1>. QED
  BY <1>1, <1>2, <1>5, FoundKeeps DEF r

LEMMA PreparePhotoKeeps ==
  ASSUME MemoryInv, NEW c \in Calls, PreparePhotoCall(c)
  PROVE  MemoryInv'
<1> DEFINE r      == call[c].request
           answer == PreparePhoto(products, r.product, r.confirm)
<1>1. Found(c, "prepare_photo_product", answer) /\ call[c].pc = "prepare_photo_product"
  BY DEF PreparePhotoCall, Found
<1>2. "prepare_photo_product" \in Tools
  BY DEF Tools
<1>3. r.op = "prepare_photo_product"
  BY <1>1, <1>2, RunsItsRequest
<1>4. Len(products) \in Nat
  BY ProductsFacts DEF MemoryInv
<1> HIDE DEF r
<1>5. /\ SearchHolds(products, r, Searched(products, answer))
      /\ SearchLasts(products, r, Searched(products, answer))
  BY <1>3, <1>4, PreparePhotoHolds
<1> HIDE DEF answer
<1>. QED
  BY <1>1, <1>2, <1>5, FoundKeeps DEF r

\* A stored preferred Product is one there is.
LEMMA PreferredExists ==
  ASSUME MemoryInv, NEW text \in prefs["preferred_product:atta"]
  PROVE  Number(text.numbers[1]) \in DOMAIN products
<1> DEFINE key == "preferred_product:atta"
<1>1. RowKept(DOMAIN products, key, prefs[key], meant[key])
  BY DEF MemoryInv, PrefsKept, Keys
<1>2. ParseAmong(DOMAIN products, key, text) # {}
  BY <1>1 DEF RowKept
<1>3. ParseNumber(text) \cap DOMAIN products # {}
  BY <1>2, ParseByKey
<1>. QED
  BY <1>3 DEF ParseNumber

LEMMA ListPreferencesKeeps ==
  ASSUME MemoryInv, NEW c \in Calls, ListPreferences(c)
  PROVE  MemoryInv'
<1> DEFINE k == Record("memory_profile", call[c].request, {prefs}, {})
<1>1. call' = [call EXCEPT ![c] = k] /\ UNCHANGED <<tables, history>>
      /\ call[c].pc = "standing_memory"
  BY MovesAre DEF ListPreferences
<1>2. /\ k.pc = "memory_profile" /\ k.request = call[c].request
      /\ k.loaded = {prefs} /\ k.answer = {}
  BY DEF Record
<1> HIDE DEF k
<1>3. call[c].request \in Requests
  BY <1>1, RunsItsRequest DEF Tools
<1>4. CallTyped(k)
  BY <1>2, <1>3 DEF CallTyped, Tools
<1>5. ~WritesProfile(k) /\ ProfileAccepted(k) /\ PreferenceAccepted(DOMAIN products, k)
  BY <1>2 DEF WritesProfile, ProfileAccepted, PreferenceAccepted
<1>6. MemoryKnown(DOMAIN products, k) /\ SearchKept(products, k)
  BY <1>2, PreferredExists DEF MemoryKnown, SearchKept
<1>7. CallKept(products, k)
  BY <1>4, <1>5, <1>6 DEF CallKept
<1>. QED
  BY <1>1, <1>5, <1>7, QuietStep

LEMMA RenderMemoryKeeps ==
  ASSUME MemoryInv, NEW c \in Calls, RenderMemory(c)
  PROVE  MemoryInv'
<1> DEFINE stored    == CHOOSE p \in call[c].loaded : TRUE
           preferred == {Number(text.numbers[1]) : text \in stored["preferred_product:atta"]}
           memory    == [mode      |-> stored["default_payment_mode"],
                         preferred |-> {[product |-> id, name |-> NameOf(id)] : id \in preferred},
                         profile   |-> profile]
           k == Record("done", call[c].request, {}, {memory})
<1>1. /\ call' = [call EXCEPT ![c] = k] /\ UNCHANGED <<tables, history>>
      /\ call[c].pc = "memory_profile"
  BY MovesAre DEF RenderMemory
<1>2. k.pc = "done" /\ k.request = call[c].request /\ k.answer = {memory}
  BY DEF Record
<1>3. \A id \in preferred : id \in DOMAIN products
  <2>1. MemoryKnown(DOMAIN products, call[c])
    BY DEF MemoryInv, CallKept
  <2>2. PICK p \in call[c].loaded :
          /\ call[c].loaded = {p}
          /\ \A text \in p["preferred_product:atta"] : Number(text.numbers[1]) \in DOMAIN products
    BY <1>1, <2>1 DEF MemoryKnown
  <2>3. stored = p
    BY <2>2
  <2> HIDE DEF stored
  <2>. QED
    BY <2>2, <2>3
<1>4. "among" \notin DOMAIN memory
  OBVIOUS
<1> HIDE DEF preferred, stored
<1>5. ASSUME NEW row \in memory.preferred PROVE row.name # {}
  <2>1. memory.preferred = {[product |-> id, name |-> NameOf(id)] : id \in preferred}
    OBVIOUS
  <2>2. PICK id \in preferred : row = [product |-> id, name |-> NameOf(id)]
    BY <2>1
  <2>3. NameOf(id) # {}
    BY <1>3 DEF NameOf
  <2>. QED
    BY <2>2, <2>3
<1> HIDE DEF k, memory
<1>6. CallTyped(k)
  <2>1. CallTyped(call[c])
    BY DEF MemoryInv, CallKept
  <2>2. k.request \in Requests
    BY <1>1, <1>2, <2>1 DEF CallTyped
  <2>. QED
    BY <1>2, <2>2 DEF CallTyped, Tools
<1>7. ~WritesProfile(k) /\ ProfileAccepted(k) /\ PreferenceAccepted(DOMAIN products, k)
  BY <1>2 DEF WritesProfile, ProfileAccepted, PreferenceAccepted
<1>8. MemoryKnown(DOMAIN products, k) /\ SearchKept(products, k)
  BY <1>2, <1>4, <1>5 DEF MemoryKnown, SearchKept
<1>9. CallKept(products, k)
  BY <1>6, <1>7, <1>8 DEF CallKept
<1>. QED
  BY <1>1, <1>7, <1>9, QuietStep

-----------------------------------------------------------------------------
(* The steps: writers *)

LEMMA AbortKeeps ==
  ASSUME MemoryInv, NEW c \in Calls, Abort(c)
  PROVE  MemoryInv'
<1>1. Answer(c, [status |-> "failed"]) /\ call[c].pc # "idle" /\ UNCHANGED <<tables, history>>
  BY DEF Abort
<1>. QED
  BY <1>1, PlainAnswers, PlainStep

LEMMA AddProductKeeps ==
  ASSUME MemoryInv, NEW c \in Calls, AddProduct(c)
  PROVE  MemoryInv'
<1> DEFINE r       == call[c].request
           product == NewProduct(r.name, r.brand)
           more    == Append(products, product)
           answer  == [status |-> "ok", candidates |-> <<Len(products) + 1>>]
           k       == Record("done", r, {}, {answer})
<1>1. /\ call[c].pc = "add_product" /\ products' = more /\ call' = [call EXCEPT ![c] = k]
      /\ prefs' = prefs /\ profile' = profile /\ meant' = meant /\ asked' = asked /\ mixed' = mixed
  BY MovesAre DEF AddProduct, history
<1>2. r \in Asking("add_product") /\ call[c].pc # "idle"
  BY <1>1, RunsItsRequest DEF Tools, Asking
<1>3. ProductsKept(more) /\ DOMAIN products \subseteq DOMAIN more
  BY <1>2, ProductsGrow DEF MemoryInv
<1>4. Grows(products, more)
  BY <1>2 DEF Grows
<1>5. CallTyped(call[c])
  BY DEF MemoryInv, CallKept
<1>6. Plain(answer)
  BY PlainAnswers
<1> HIDE DEF product, more, answer
<1>7. CallKept(more, k) /\ ~WritesProfile(k)
  BY <1>2, <1>5, <1>6, AnswerKept
<1> HIDE DEF k
<1>8. DOMAIN call' = Calls /\ \A d \in Calls : CallKept(more, call'[d])
  BY <1>1, <1>4, <1>7, OthersKept DEF MemoryInv
<1>9. ProfileKept(call', profile, asked, mixed)
  BY <1>1, <1>7, ProfileStays DEF MemoryInv
<1>10. PrefsKept(DOMAIN more, prefs, meant)
  BY <1>3, PrefsGrow DEF MemoryInv
<1>. QED
  BY <1>1, <1>3, <1>8, <1>9, <1>10 DEF MemoryInv

LEMMA LoadPreferenceKeeps ==
  ASSUME MemoryInv, NEW c \in Calls, LoadPreference(c)
  PROVE  MemoryInv'
<1> DEFINE r == call[c].request
           k == Record("write", r, prefs[r.key], {})
<1>1. call[c].pc = "set_preference" /\ UNCHANGED <<tables, history>>
  BY DEF LoadPreference
<1>2. r \in Requests /\ r.op = "set_preference" /\ call[c].pc # "idle"
  BY <1>1, RunsItsRequest DEF Tools
<1>3. CASE Parse(r.key, r.text) = {}
  <2>1. Answer(c, Refused)
    BY <1>3 DEF LoadPreference
  <2>. QED
    BY <1>1, <1>2, <2>1, PlainAnswers, PlainStep
<1>4. CASE Parse(r.key, r.text) # {}
  <2>1. call' = [call EXCEPT ![c] = k]
    BY <1>4, MovesAre DEF LoadPreference
  <2>2. k.pc = "write" /\ k.request = r /\ k.answer = {}
    BY DEF Record
  <2>3. ParseAmong(DOMAIN products, r.key, r.text) # {}
    BY <1>4, ParseIsAmong
  <2> HIDE DEF k, r
  <2>4. CallTyped(k)
    BY <1>2, <2>2 DEF CallTyped, Tools
  <2>5. ~WritesProfile(k) /\ ProfileAccepted(k)
    BY <1>2, <2>2 DEF WritesProfile, ProfileAccepted
  <2>6. PreferenceAccepted(DOMAIN products, k) /\ MemoryKnown(DOMAIN products, k)
        /\ SearchKept(products, k)
    BY <2>2, <2>3 DEF PreferenceAccepted, MemoryKnown, SearchKept
  <2>7. CallKept(products, k)
    BY <2>4, <2>5, <2>6 DEF CallKept
  <2>. QED
    BY <1>1, <2>1, <2>5, <2>7, QuietStep
<1>. QED
  BY <1>3, <1>4

\* A text that set_preference accepts means, stored, what it meant typed.
LEMMA WritePreferenceKeeps ==
  ASSUME MemoryInv, NEW c \in Calls, WritePreference(c)
  PROVE  MemoryInv'
<1> DEFINE r      == call[c].request
           loaded == call[c].loaded
           text   == Canonical(r.key, r.text)
           fails  == Collides(loaded, prefs[r.key])
           ids    == DOMAIN products
           answer == IF fails THEN [status |-> "failed"] ELSE [status |-> "ok"]
           k      == Record("done", r, {}, {answer})
<1>1. /\ call[c].pc = "write" /\ r.op = "set_preference" /\ call' = [call EXCEPT ![c] = k]
      /\ prefs' = [prefs EXCEPT ![r.key] = Rows(loaded, prefs[r.key], text)]
      /\ meant' = IF fails \/ loaded = {text} THEN meant
                  ELSE [meant EXCEPT ![r.key] = Parse(r.key, r.text)]
      /\ products' = products /\ profile' = profile /\ asked' = asked /\ mixed' = mixed
  BY MovesAre DEF WritePreference
<1>2. r \in Requests /\ call[c].pc # "idle"
  BY <1>1, RunsItsRequest
<1>3. CallTyped(call[c]) /\ PreferenceAccepted(ids, call[c])
  BY DEF MemoryInv, CallKept
<1>4. Plain(answer)
  BY PlainAnswers
<1>5. ParseAmong(ids, r.key, r.text) # {}
  BY <1>1, <1>3 DEF PreferenceAccepted
<1>6. r.key \in Keys
  BY <1>5, ParseByKey
<1>7. ParseAmong(ids, r.key, text) = ParseAmong(ids, r.key, r.text)
  <2>1. r.text \in Texts
    BY <1>1, <1>2, ShopMemoryAssumption DEF Asking, Texts, Digits
  <2>. QED
    BY <1>5, <2>1, StoredMeansTyped
<1>8. Parse(r.key, r.text) = ParseAmong(ids, r.key, r.text)
  BY ParseIsAmong
<1>9. PrefsKept(ids, prefs, meant)
  BY DEF MemoryInv
<1> HIDE DEF answer, text, ids
<1>10. CallKept(products, k) /\ ~WritesProfile(k)
  BY <1>2, <1>3, <1>4, AnswerKept
<1>11. PrefsKept(ids, prefs', meant')
  <2>1. DOMAIN prefs = Keys /\ DOMAIN meant = Keys
    BY <1>9 DEF PrefsKept
  <2>2. CASE fails \/ loaded = {text}
    <3>1. prefs' = [prefs EXCEPT ![r.key] = prefs[r.key]] /\ meant' = meant
      BY <1>1, <2>2 DEF Rows
    <3>2. DOMAIN prefs' = Keys /\ \A key \in Keys : prefs'[key] = prefs[key]
      BY <2>1, <3>1
    <3>. QED
      BY <1>9, <3>1, <3>2 DEF PrefsKept
  <2>3. CASE ~(fails \/ loaded = {text})
    <3> HIDE DEF r
    <3>1. prefs' = [prefs EXCEPT ![r.key] = {text}]
      BY <1>1, <2>3 DEF Rows
    <3>2. meant' = [meant EXCEPT ![r.key] = ParseAmong(ids, r.key, text)]
      BY <1>1, <1>7, <1>8, <2>3
    <3>3. DOMAIN prefs' = Keys /\ DOMAIN meant' = Keys
      BY <2>1, <3>1, <3>2
    <3>4. RowKept(ids, r.key, {text}, ParseAmong(ids, r.key, text))
      BY <1>5, <1>7 DEF RowKept
    <3>5. ASSUME NEW key \in Keys PROVE RowKept(ids, key, prefs'[key], meant'[key])
      <4>1. CASE key = r.key
        BY <2>1, <3>1, <3>2, <3>4, <4>1
      <4>2. CASE key # r.key
        <5>1. prefs'[key] = prefs[key] /\ meant'[key] = meant[key]
          BY <2>1, <3>1, <3>2, <4>2
        <5>. QED
          BY <1>9, <5>1 DEF PrefsKept
      <4>. QED
        BY <4>1, <4>2
    <3>. QED
      BY <3>3, <3>5 DEF PrefsKept
  <2>. QED
    BY <2>2, <2>3
<1> HIDE DEF k
<1>12. DOMAIN call' = Calls /\ \A d \in Calls : CallKept(products, call'[d])
  <2>1. Grows(products, products)
    BY DEF Grows
  <2>. QED
    BY <1>1, <1>10, <2>1, OthersKept DEF MemoryInv
<1>13. ProfileKept(call', profile, asked, mixed)
  BY <1>1, <1>10, ProfileStays DEF MemoryInv
<1>. QED
  BY <1>1, <1>11, <1>12, <1>13 DEF MemoryInv, ids

-----------------------------------------------------------------------------
(* The Shop Profile *)

LEMMA Columns == DOMAIN NoProfile = {"name", "gstin", "logo", "accent"}
BY DEF NoProfile

\* Apply does what is asked for, and gives only values that were given.
LEMMA ApplyAsAsked ==
  ASSUME NEW r \in ValidProfiles, NEW old
  PROVE  /\ Apply(r, old) = AskedFor(r, old) /\ DOMAIN Apply(r, old) = DOMAIN NoProfile
         /\ Apply(r, old).name # ""
BY DEF ValidProfiles, InvalidProfile, Apply, AskedFor, NoProfile

LEMMA ApplyGood ==
  ASSUME NEW r \in ValidProfiles, NEW old, old = NoProfile \/ GoodRow(old)
  PROVE  GoodRow(Apply(r, old))
<1> DEFINE new == Apply(r, old)
<1>1. DOMAIN new = DOMAIN NoProfile /\ new.name # ""
  BY ApplyAsAsked
<1>2. \A column \in DOMAIN NoProfile : old[column] \in Given(column)
  BY DEF GoodRow, Given
<1>3. \A column \in DOMAIN NoProfile : AskedFor(r, NoProfile)[column] \in Given(column)
  BY DEF Given
<1>4. \A column \in DOMAIN NoProfile :
        new[column] = old[column] \/ new[column] = AskedFor(r, NoProfile)[column]
  <2>1. new.name = AskedFor(r, NoProfile).name /\ new.gstin = AskedFor(r, NoProfile).gstin
    BY DEF Apply, AskedFor
  <2>2. new.logo = old.logo \/ new.logo = AskedFor(r, NoProfile).logo
    BY DEF Apply, AskedFor
  <2>3. new.accent = old.accent \/ new.accent = AskedFor(r, NoProfile).accent
    BY DEF Apply, AskedFor
  <2> HIDE DEF new
  <2>. QED
    BY <2>1, <2>2, <2>3, Columns
<1>5. \A column \in DOMAIN NoProfile : new[column] \in Given(column)
  BY <1>2, <1>3, <1>4
<1> HIDE DEF new
<1>6. GoodRow(new)
  BY <1>1, <1>5 DEF GoodRow
<1>. QED
  BY <1>6 DEF new

\* An UPDATE of the changed columns mixes two good rows into one.
LEMMA ChangedGood ==
  ASSUME NEW new, GoodRow(new), NEW loaded, NEW row, GoodRow(row)
  PROVE  GoodRow(Changed(new, loaded, row))
<1> DEFINE mix == Changed(new, loaded, row)
<1>1. DOMAIN mix = DOMAIN NoProfile
  BY DEF Changed, GoodRow
<1>2. \A column \in DOMAIN NoProfile : mix[column] = row[column] \/ mix[column] = new[column]
  BY DEF Changed, GoodRow
<1> HIDE DEF mix
<1>3. \A column \in DOMAIN NoProfile : mix[column] \in Given(column)
  BY <1>2 DEF GoodRow
<1>4. mix.name # ""
  BY <1>2, Columns DEF GoodRow
<1>5. GoodRow(mix)
  BY <1>1, <1>3, <1>4 DEF GoodRow
<1>. QED
  BY <1>5 DEF mix

\* If nothing was written in between, it is the whole new row.
LEMMA ChangedAll ==
  ASSUME NEW r \in ValidProfiles, NEW row, DOMAIN row = DOMAIN NoProfile
  PROVE  Changed(Apply(r, row), row, row) = Apply(r, row)
<1> DEFINE new == Apply(r, row)
<1>1. new = [name |-> new.name, gstin |-> new.gstin, logo |-> new.logo, accent |-> new.accent]
  BY DEF Apply
<1>2. DOMAIN new = DOMAIN row
  BY ApplyAsAsked
<1> HIDE DEF new
<1>3. Changed(new, row, row) = [column \in DOMAIN row |-> new[column]]
  BY DEF Changed
<1>4. new = [column \in DOMAIN new |-> new[column]]
  BY <1>1
<1>5. Changed(new, row, row) = new
  BY <1>2, <1>3, <1>4
<1>. QED
  BY <1>5 DEF new

LEMMA LoadProfileKeeps ==
  ASSUME MemoryInv, NEW c \in Calls, LoadProfile(c)
  PROVE  MemoryInv'
<1> DEFINE r == call[c].request
           k == Record("write", r, profile, {})
<1>1. /\ call[c].pc = "set_shop_profile" /\ products' = products /\ prefs' = prefs
      /\ profile' = profile /\ meant' = meant /\ asked' = asked
  BY DEF LoadProfile, tables
<1>2. r \in Requests /\ r.op = "set_shop_profile" /\ call[c].pc # "idle"
  BY <1>1, RunsItsRequest DEF Tools
<1>3. CASE InvalidProfile(r)
  <2>1. Answer(c, Refused) /\ UNCHANGED <<tables, history>>
    BY <1>1, <1>3 DEF LoadProfile, tables, history
  <2>. QED
    BY <1>2, <2>1, PlainAnswers, PlainStep
<1>4. CASE ~InvalidProfile(r)
  <2>1. /\ call' = [call EXCEPT ![c] = k]
        /\ mixed' = (mixed \/ InFlight("set_shop_profile") # {})
    BY <1>4, MovesAre DEF LoadProfile
  <2>2. k.pc = "write" /\ k.request = r /\ k.loaded = profile /\ k.answer = {}
    BY DEF Record
  <2>3. r \in ValidProfiles
    BY <1>2, <1>4 DEF ValidProfiles
  <2>4. ProfileKept(call, profile, asked, mixed) /\ DOMAIN call = Calls
    BY DEF MemoryInv
  <2> HIDE DEF k, r
  <2>5. CallTyped(k)
    BY <1>2, <2>2 DEF CallTyped, Tools
  <2>6. ProfileAccepted(k)
    BY <2>2, <2>3, <2>4 DEF ProfileAccepted, ProfileKept
  <2>7. PreferenceAccepted(DOMAIN products, k) /\ MemoryKnown(DOMAIN products, k)
        /\ SearchKept(products, k)
    BY <1>2, <2>2 DEF PreferenceAccepted, MemoryKnown, SearchKept
  <2>8. CallKept(products, k)
    BY <2>5, <2>6, <2>7 DEF CallKept
  <2>9. DOMAIN call' = Calls /\ \A d \in Calls : CallKept(products, call'[d])
    <3>1. Grows(products, products)
      BY DEF Grows
    <3>. QED
      BY <2>1, <2>8, <3>1, OthersKept DEF MemoryInv
  <2>10. ProfileKept(call', profile, asked, mixed')
    <3>1. /\ AtMostGood(profile) /\ DOMAIN asked = DOMAIN NoProfile
          /\ \A d \in Calls : WritesProfile(call[d]) /\ call[d].loaded # {} => profile # {}
      BY <2>4 DEF ProfileKept
    <3>2. call'[c] = k /\ \A d \in Calls : d # c => call'[d] = call[d]
      BY <2>1, <2>4
    <3>3. \A d \in Calls : WritesProfile(call'[d]) /\ call'[d].loaded # {} => profile # {}
      BY <2>2, <3>1, <3>2
    <3>4. CASE mixed'
      BY <3>1, <3>4, <3>3 DEF ProfileKept
    <3>5. CASE ~mixed'
      <4>1. ~mixed /\ \A d \in Calls : ~WritesProfile(call[d])
        BY <2>1, <3>5 DEF InFlight, WritesProfile
      <4>2. \A d \in Calls : WritesProfile(call'[d]) => d = c
        BY <3>2, <4>1
      <4>3. IF profile = {} THEN asked = NoProfile ELSE profile = {asked}
        BY <2>4, <4>1 DEF ProfileKept
      <4>. QED
        BY <2>2, <3>1, <3>2, <3>3, <4>2, <4>3 DEF ProfileKept
    <3>. QED
      BY <3>4, <3>5
  <2>. QED
    BY <1>1, <2>9, <2>10 DEF MemoryInv
<1>. QED
  BY <1>3, <1>4

\* Whoever loaded the row that is there writes what it is asked for.
LEMMA WriteProfileKeeps ==
  ASSUME MemoryInv, NEW c \in Calls, WriteProfile(c)
  PROVE  MemoryInv'
<1> DEFINE r        == call[c].request
           rows     == call[c].loaded
           loaded   == RowOf(rows)
           new      == Apply(r, loaded)
           collides == Collides(rows, profile)
           answer   == IF collides THEN [status |-> "failed"] ELSE [status |-> "ok"]
           k        == Record("done", r, {}, {answer})
<1>1. /\ call[c].pc = "write" /\ r.op = "set_shop_profile" /\ call' = [call EXCEPT ![c] = k]
      /\ profile' = CASE collides -> profile
                      [] rows = {} /\ profile = {} -> {new}
                      [] rows # {} -> {Changed(new, loaded, RowOf(profile))}
      /\ asked' = IF collides THEN asked ELSE AskedFor(r, asked)
      /\ products' = products /\ prefs' = prefs /\ meant' = meant /\ mixed' = mixed
  BY MovesAre DEF WriteProfile
<1>2. CallTyped(call[c]) /\ WritesProfile(call[c])
  BY <1>1 DEF MemoryInv, CallKept, WritesProfile
<1>3. r \in ValidProfiles /\ AtMostGood(rows)
  BY <1>2 DEF MemoryInv, CallKept, ProfileAccepted
<1>4. Plain(answer)
  BY PlainAnswers
<1>5. /\ AtMostGood(profile) /\ DOMAIN asked = DOMAIN NoProfile
      /\ rows # {} => profile # {}
  BY <1>2 DEF MemoryInv, ProfileKept
<1>6. ~mixed => /\ IF profile = {} THEN asked = NoProfile ELSE profile = {asked}
                /\ rows = profile
                /\ \A d \in Calls : WritesProfile(call[d]) => d = c
  BY <1>2 DEF MemoryInv, ProfileKept
<1>7. loaded = NoProfile \/ GoodRow(loaded)
  BY <1>3 DEF AtMostGood, RowOf
<1>8. GoodRow(new)
  BY <1>3, <1>7, ApplyGood
<1>9. profile # {} => profile = {RowOf(profile)} /\ GoodRow(RowOf(profile))
  BY <1>5 DEF AtMostGood, RowOf
<1> HIDE DEF answer, r, rows, loaded, new
<1>10. CallKept(products, k) /\ ~WritesProfile(k)
  BY <1>1, <1>2, <1>4, AnswerKept DEF r
<1> HIDE DEF k
<1>11. DOMAIN call' = Calls /\ \A d \in Calls : CallKept(products, call'[d])
  <2>1. Grows(products, products)
    BY DEF Grows
  <2>. QED
    BY <1>1, <1>10, <2>1, OthersKept DEF MemoryInv
<1>12. profile' # {} /\ AtMostGood(profile')
  <2>1. CASE collides
    <3>1. profile' = profile
      BY <1>1, <2>1 DEF Collides
    <3>2. profile # {}
      BY <2>1 DEF Collides
    <3>. QED
      BY <1>5, <3>1, <3>2
  <2>2. CASE ~collides /\ rows = {}
    <3>1. profile' = {new}
      BY <1>1, <2>2 DEF Collides
    <3>. QED
      BY <1>8, <3>1 DEF AtMostGood
  <2>3. CASE rows # {}
    <3>1. GoodRow(Changed(new, loaded, RowOf(profile)))
      BY <1>5, <1>8, <1>9, <2>3, ChangedGood
    <3>2. ~collides
      BY <2>3 DEF Collides
    <3>3. profile' = {Changed(new, loaded, RowOf(profile))}
      BY <1>1, <2>3, <3>2
    <3>. QED
      BY <3>1, <3>3 DEF AtMostGood
  <2>. QED
    BY <2>1, <2>2, <2>3
<1>13. DOMAIN asked' = DOMAIN NoProfile
  BY <1>1, <1>3, <1>5, ApplyAsAsked
<1>14. call'[c] = k /\ \A d \in Calls : d # c => call'[d] = call[d]
  BY <1>1 DEF MemoryInv
<1>15. ASSUME ~mixed PROVE profile' = {asked'} /\ \A d \in Calls : ~WritesProfile(call'[d])
  <2>1. \A d \in Calls : ~WritesProfile(call'[d])
    BY <1>6, <1>10, <1>14, <1>15
  <2>2. ~collides /\ rows = profile
    BY <1>6, <1>15 DEF Collides
  <2>3. loaded = asked
    <3>1. loaded = RowOf(profile)
      BY <2>2 DEF loaded
    <3>2. CASE profile = {}
      BY <1>6, <1>15, <3>1, <3>2 DEF RowOf
    <3>3. CASE profile # {}
      <4>1. profile = {asked} /\ profile = {RowOf(profile)}
        BY <1>6, <1>9, <1>15, <3>3
      <4>. QED
        BY <3>1, <4>1
    <3>. QED
      BY <3>2, <3>3
  <2>4. new = Apply(r, asked)
    BY <2>3 DEF new
  <2>5. asked' = new
    <3>1. Apply(r, asked) = AskedFor(r, asked)
      BY <1>3, ApplyAsAsked
    <3>. QED
      BY <1>1, <2>2, <2>4, <3>1
  <2>6. profile' = {new}
    <3>1. CASE rows = {}
      BY <1>1, <2>2, <3>1
    <3>2. CASE rows # {}
      <4>1. RowOf(profile) = asked
        BY <2>2, <2>3 DEF loaded
      <4>2. Changed(Apply(r, asked), asked, asked) = Apply(r, asked)
        BY <1>3, <1>5, ChangedAll
      <4>3. Changed(new, loaded, RowOf(profile)) = new
        BY <2>3, <2>4, <4>1, <4>2
      <4>. QED
        BY <1>1, <2>2, <3>2, <4>3
    <3>. QED
      BY <3>1, <3>2
  <2>. QED
    BY <2>1, <2>5, <2>6
<1>16. ProfileKept(call', profile', asked', mixed)
  BY <1>12, <1>13, <1>15 DEF ProfileKept
<1>. QED
  BY <1>1, <1>11, <1>16 DEF MemoryInv

-----------------------------------------------------------------------------
(* Every step *)

LEMMA InitKeeps == Init => MemoryInv
<1> SUFFICES ASSUME Init PROVE MemoryInv
  OBVIOUS
<1>1. /\ products = SeedProducts /\ prefs = [key \in Keys |-> {}] /\ profile = {}
      /\ call = [c \in Calls |-> AtRest]
      /\ meant = [key \in Keys |-> {}] /\ asked = NoProfile
  BY DEF Init
<1>2. ProductsKept(products)
  <2>1. ASSUME NEW id \in DOMAIN SeedProducts PROVE SeedProducts[id] \in KnownProducts
    BY <2>1, ShopMemoryAssumption, SeedFacts, ElementOfSeq DEF KnownProducts
  <2>2. SeedProducts \in Seq(KnownProducts)
    BY ShopMemoryAssumption, SeqMonotonic DEF KnownProducts
  <2>. QED
    BY <1>1, <2>2, SeedFacts DEF ProductsKept
<1>3. PrefsKept(DOMAIN products, prefs, meant)
  BY <1>1 DEF PrefsKept, RowKept
<1>4. CallKept(products, AtRest) /\ ~WritesProfile(AtRest)
  <2>1. AtRest.pc = "idle" /\ AtRest.answer = {}
    BY DEF AtRest
  <2>2. CallTyped(AtRest)
    BY <2>1 DEF CallTyped, Tools
  <2>3. ~WritesProfile(AtRest) /\ ProfileAccepted(AtRest)
        /\ PreferenceAccepted(DOMAIN products, AtRest)
    BY <2>1 DEF WritesProfile, ProfileAccepted, PreferenceAccepted
  <2>4. MemoryKnown(DOMAIN products, AtRest) /\ SearchKept(products, AtRest)
    BY <2>1 DEF MemoryKnown, SearchKept
  <2>. QED
    BY <2>2, <2>3, <2>4 DEF CallKept
<1>5. DOMAIN call = Calls /\ \A c \in Calls : call[c] = AtRest
  BY <1>1
<1>6. ProfileKept(call, profile, asked, mixed)
  BY <1>1, <1>4, <1>5 DEF ProfileKept, AtMostGood
<1>. QED
  BY <1>2, <1>3, <1>4, <1>5, <1>6 DEF MemoryInv

LEMMA NextKeeps == MemoryInv /\ [Next]_vars => MemoryInv'
<1> SUFFICES ASSUME MemoryInv, [Next]_vars PROVE MemoryInv'
  OBVIOUS
<1>1. CASE UNCHANGED vars
  <2>1. /\ products' = products /\ prefs' = prefs /\ profile' = profile /\ call' = call
        /\ meant' = meant /\ asked' = asked /\ mixed' = mixed
    BY <1>1 DEF vars, tables, history
  <2>. QED
    BY <2>1 DEF MemoryInv
<1>2. ASSUME NEW c \in Calls, NEW request \in Requests, Begin(c, request) PROVE MemoryInv'
  BY <1>2, BeginKeeps
<1>3. ASSUME NEW c \in Calls, LoadPreference(c) \/ WritePreference(c) PROVE MemoryInv'
  BY <1>3, LoadPreferenceKeeps, WritePreferenceKeeps
<1>4. ASSUME NEW c \in Calls, LoadProfile(c) \/ WriteProfile(c) PROVE MemoryInv'
  BY <1>4, LoadProfileKeeps, WriteProfileKeeps
<1>5. ASSUME NEW c \in Calls, AddProduct(c) \/ FindProductCall(c) PROVE MemoryInv'
  BY <1>5, AddProductKeeps, FindProductKeeps
<1>6. ASSUME NEW c \in Calls, ScanBarcodeCall(c) \/ PreparePhotoCall(c) PROVE MemoryInv'
  BY <1>6, ScanBarcodeKeeps, PreparePhotoKeeps
<1>7. ASSUME NEW c \in Calls, ListPreferences(c) \/ RenderMemory(c) \/ Abort(c) PROVE MemoryInv'
  BY <1>7, ListPreferencesKeeps, RenderMemoryKeeps, AbortKeeps
<1>. QED
  BY <1>1, <1>2, <1>3, <1>4, <1>5, <1>6, <1>7 DEF Next

LEMMA MemoryKept == Spec => []MemoryInv
<1>. QED
  BY InitKeeps, NextKeeps, PTL DEF Spec

-----------------------------------------------------------------------------
(* The theorems *)

LEMMA AtMostOne == ASSUME NEW S, S = {} \/ \E x : S = {x} PROVE Cardinality(S) <= 1
<1>1. CASE S = {}
  BY <1>1, FS_EmptySet
<1>2. ASSUME NEW x, S = {x} PROVE Cardinality(S) <= 1
  <2>1. Cardinality({x}) = 1
    BY FS_Singleton
  <2>2. Cardinality(S) = 1
    BY <1>2, <2>1
  <2>. QED
    BY <2>2
<1>. QED
  BY <1>1, <1>2

LEMMA TypedThen == MemoryInv => TypeOK
<1> SUFFICES ASSUME MemoryInv PROVE TypeOK
  OBVIOUS
<1>1. \A i \in DOMAIN SeedProducts : products[i] = SeedProducts[i]
  <2>1. DOMAIN SeedProducts \subseteq DOMAIN products
    BY SeedFacts, ProductsFacts DEF MemoryInv, ProductsKept
  <2>. QED
    BY <2>1 DEF MemoryInv, ProductsKept
<1>2. ASSUME NEW key \in Keys PROVE Cardinality(prefs[key]) <= 1 /\ Cardinality(meant[key]) <= 1
  <2>1. RowKept(DOMAIN products, key, prefs[key], meant[key])
    BY DEF MemoryInv, PrefsKept
  <2>2. CASE prefs[key] = {} /\ meant[key] = {}
    BY <2>2, AtMostOne
  <2>3. CASE prefs[key] # {} \/ meant[key] # {}
    <3>1. PICK text \in prefs[key] :
            /\ prefs[key] = {text} /\ ParseAmong(DOMAIN products, key, text) # {}
            /\ meant[key] = ParseAmong(DOMAIN products, key, text)
      BY <2>1, <2>3 DEF RowKept
    <3>2. \E value : meant[key] = {value}
      BY <3>1, ParseAtMostOne
    <3>3. Cardinality(prefs[key]) <= 1
      BY <3>1, AtMostOne
    <3>4. Cardinality(meant[key]) <= 1
      BY <3>2, AtMostOne
    <3>. QED
      BY <3>3, <3>4
  <2>. QED
    BY <2>2, <2>3
<1>3. Cardinality(profile) <= 1 /\ DOMAIN asked = DOMAIN NoProfile
  <2>1. AtMostGood(profile) /\ DOMAIN asked = DOMAIN NoProfile
    BY DEF MemoryInv, ProfileKept
  <2>2. profile = {} \/ \E row : profile = {row}
    BY <2>1 DEF AtMostGood
  <2>. QED
    BY <2>1, <2>2, AtMostOne
<1>4. ASSUME NEW c \in Calls
      PROVE  Cardinality(call[c].answer) = IF call[c].pc = "done" THEN 1 ELSE 0
  <2>1. CallTyped(call[c])
    BY DEF MemoryInv, CallKept
  <2>2. IF call[c].pc = "done" THEN \E answer : call[c].answer = {answer} ELSE call[c].answer = {}
    BY <2>1 DEF CallTyped
  <2>. QED
    BY <2>2, FS_EmptySet, FS_Singleton
<1>. QED
  BY <1>1, <1>2, <1>3, <1>4 DEF TypeOK

\* Products only grow, a Preference and the Shop Profile have at most one row,
\* and a call has answered exactly when it is done.
THEOREM MemoryTyped == Spec => []TypeOK
<1>. QED
  BY MemoryKept, TypedThen, PTL

LEMMA ReadableThen == MemoryInv => StoredReadable
<1> SUFFICES ASSUME MemoryInv PROVE StoredReadable
  OBVIOUS
<1>1. ASSUME NEW key \in Keys PROVE UNION {Parse(key, text) : text \in prefs[key]} = meant[key]
  <2>1. RowKept(DOMAIN products, key, prefs[key], meant[key])
    BY DEF MemoryInv, PrefsKept
  <2>2. CASE prefs[key] = {} /\ meant[key] = {}
    BY <2>2
  <2>3. CASE prefs[key] # {} \/ meant[key] # {}
    <3>1. PICK text \in prefs[key] :
            prefs[key] = {text} /\ meant[key] = ParseAmong(DOMAIN products, key, text)
      BY <2>1, <2>3 DEF RowKept
    <3>2. Parse(key, text) = ParseAmong(DOMAIN products, key, text)
      BY ParseIsAmong
    <3>. QED
      BY <3>1, <3>2
  <2>. QED
    BY <2>2, <2>3
<1>2. DefaultPaymentMode = meant["default_payment_mode"]
  <2>1. "default_payment_mode" \in Keys
    BY DEF Keys
  <2>2. \A text : Parse("default_payment_mode", text) = ParseMode(text)
    BY ParseIsAmong, ParseByKey
  <2>. QED
    BY <1>1, <2>1, <2>2 DEF DefaultPaymentMode
<1>3. ASSUME NEW c \in Calls, NEW memory \in call[c].answer, "preferred" \in DOMAIN memory,
             NEW row \in memory.preferred
      PROVE  row.name # {}
  <2>1. MemoryKnown(DOMAIN products, call[c])
    BY DEF MemoryInv, CallKept
  <2>. QED
    BY <1>3, <2>1 DEF MemoryKnown
<1>. QED
  BY <1>1, <1>2, <1>3 DEF StoredReadable

\* Whoever reads a stored Preference - the schedulers, finalize_bill, the standing
\* memory - understands what the Owner meant when it was set, for any texts.
THEOREM StoredAlwaysReadable == Spec => []StoredReadable
<1>. QED
  BY MemoryKept, ReadableThen, PTL

LEMMA AsAskedThen == MemoryInv => ProfileAsAsked
<1> SUFFICES ASSUME MemoryInv, NEW row \in profile
             PROVE  /\ ~mixed => row = asked
                    /\ row.name # "" /\ \A column \in DOMAIN row : row[column] \in Given(column)
  BY DEF ProfileAsAsked, Given, ValidProfiles
<1>1. ProfileKept(call, profile, asked, mixed)
  BY DEF MemoryInv
<1>2. GoodRow(row)
  BY <1>1 DEF ProfileKept, AtMostGood
<1>3. ~mixed => row = asked
  BY <1>1 DEF ProfileKept
<1>. QED
  BY <1>2, <1>3 DEF GoodRow

\* set_shop_profile: calls that do not overlap leave the Profile as they ask, one
\* after the other; overlapping ones leave only values that were given.
THEOREM ProfileAlwaysAsAsked == Spec => []ProfileAsAsked
<1>. QED
  BY MemoryKept, AsAskedThen, PTL

LEMMA ClearThen == MemoryInv => FindIsClear
<1> SUFFICES ASSUME MemoryInv PROVE FindIsClear
  OBVIOUS
<1>1. ASSUME NEW c \in Calls, NEW answer \in call[c].answer, "among" \in DOMAIN answer
      PROVE  SearchHolds(products, call[c].request, answer)
  BY <1>1 DEF MemoryInv, CallKept, SearchKept
<1>. QED
  BY <1>1 DEF FindIsClear, SearchHolds

\* A search answered ok has named the one Product that beats every other of that
\* moment, a barcode still finds it alone, and nothing passes as photographed
\* unconfirmed - however many Products were added since.
THEOREM SearchesAlwaysClear == Spec => []FindIsClear
<1>. QED
  BY MemoryKept, ClearThen, PTL
=============================================================================
