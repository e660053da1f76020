------------------------ MODULE UsbEnumerationProofs ------------------------
(* Theorems about enumeration: UsbEnumeration behaves as the driver of Usbd  *)
(* does, and the bytes the host collects are the descriptor it asked for.    *)
EXTENDS UsbEnumeration, UsbdProofs, SequenceTheorems

-----------------------------------------------------------------------------
(* The driver's steps.                                                       *)

LEMMA EnumerationStep ==
  ASSUME EnumerationNext
  PROVE  Next
<1>1. CASE \E r \in Requests : Setup(r)
  BY <1>1 DEF Setup, Next, Environment
<1>2. CASE ReadPacket
  BY <1>2 DEF ReadPacket, Next, Environment
<1>3. CASE GetDescriptor
  BY <1>3 DEF GetDescriptor, Next, USBD_IRQHandler
<1>4. CASE Elsewhere
  BY <1>4 DEF Elsewhere, Next, Environment, USBD_IRQHandler
<1>5. QED  BY <1>1, <1>2, <1>3, <1>4 DEF EnumerationNext

\* With its descriptors and its strings the driver still is the driver: every
\* step of enumeration is a step of Usbd.
THEOREM EnumerationIsUsbd == EnumerationSpec => Spec
<1>1. EnumerationInit => Init
  BY DEF EnumerationInit
<1>2. [EnumerationNext]_enumerationVars => [Next]_vars
  BY EnumerationStep DEF enumerationVars
<1>3. QED  BY <1>1, <1>2, PTL DEF EnumerationSpec, Spec
-----------------------------------------------------------------------------
(* Sequences of bytes one after the other.                                   *)

LEMMA Join ==
  ASSUME NEW s \in Seq(Nat), NEW t \in Seq(Nat)
  PROVE  /\ s \o t \in Seq(Nat) /\ Len(s \o t) = Len(s) + Len(t)
         /\ \A i \in 1..Len(s) : (s \o t)[i] = s[i]
         /\ \A i \in 1..Len(t) : (s \o t)[Len(s) + i] = t[i]
<1> DEFINE u == s \o t
<1>1. Len(s) \in Nat /\ Len(t) \in Nat
  OBVIOUS
<1>2. /\ u \in Seq(Nat) /\ Len(u) = Len(s) + Len(t)
      /\ \A i \in 1..Len(s) + Len(t) :
           u[i] = IF i <= Len(s) THEN s[i] ELSE t[i - Len(s)]
  BY ConcatProperties, Zenon
<1> HIDE DEF u
<1>3. \A i \in 1..Len(s) : u[i] = s[i]
  BY <1>1, <1>2
<1>4. ASSUME NEW i \in 1..Len(t)
      PROVE  u[Len(s) + i] = t[i]
  <2>1. Len(s) + i \in 1..Len(s) + Len(t) /\ ~(Len(s) + i <= Len(s))
        /\ Len(s) + i - Len(s) = i
    BY <1>1
  <2>2. QED  BY <1>2, <2>1
<1>5. QED  BY <1>2, <1>3, <1>4 DEF u

-----------------------------------------------------------------------------
(* The descriptors' bytes, and the one buffer of the strings.                *)

Buffers == [1..BufferSize -> Nat]

\* A string of 32 characters is one that the copying loop refuses.
ShortStrings == \A i \in 1..4 : StringLength[i] < 32

\* What the loop leaves in the buffer does not depend on what was there before.
LEMMA StringBytes ==
  ASSUME ShortStrings, NEW buffer \in Buffers, NEW index \in 1..4
  PROVE  LET n == StringLength[index]
             s == USBD_DESC_GetString(buffer, index)
         IN  /\ s \in Buffers
             /\ 2 * (n + 1) <= BufferSize
             /\ s[1] = 2 * (n + 1) /\ s[2] = 3
             /\ \A i \in 1..n : s[2 * i + 1] = Character(index, i) /\ s[2 * i + 2] = 0
<1> DEFINE n == StringLength[index]
           s == USBD_DESC_GetString(buffer, index)
<1>1. n \in 0..31 /\ BufferSize \in Nat /\ BufferSize >= 66
  BY DescriptorsAssumption DEF ShortStrings
<1>2. s = [b \in 1..BufferSize |->
              CASE b = 1 /\ n < 32 -> 2 * (n + 1)
                [] b = 2 /\ n < 32 -> 3
                [] b > 2 /\ b <= 2 * (n + 1) /\ b <= 66 ->
                     IF b % 2 = 1 THEN Character(index, (b - 1) \div 2) ELSE 0
                [] OTHER -> buffer[b]]
  BY DEF USBD_DESC_GetString
<1> HIDE DEF n, s
<1>3. \A b \in 1..BufferSize :
        /\ b = 1 => s[b] = 2 * (n + 1)
        /\ b = 2 => s[b] = 3
        /\ b > 2 /\ b <= 2 * (n + 1) /\ b % 2 = 1 => s[b] = Character(index, (b - 1) \div 2)
        /\ b > 2 /\ b <= 2 * (n + 1) /\ b % 2 # 1 => s[b] = 0
        /\ b > 2 /\ b > 2 * (n + 1) => s[b] = buffer[b]
  <2> TAKE b \in 1..BufferSize
  <2>1. s[b] = CASE b = 1 /\ n < 32 -> 2 * (n + 1)
                 [] b = 2 /\ n < 32 -> 3
                 [] b > 2 /\ b <= 2 * (n + 1) /\ b <= 66 ->
                      IF b % 2 = 1 THEN Character(index, (b - 1) \div 2) ELSE 0
                 [] OTHER -> buffer[b]
    BY <1>2
  <2>2. QED  BY <1>1, <2>1
<1>4. s \in Buffers
  <2>1. ASSUME NEW b \in 1..BufferSize
        PROVE  s[b] \in Nat
    <3>1. buffer[b] \in Nat
      BY DEF Buffers
    <3>2. (b - 1) \div 2 \in Nat
      BY <1>1
    <3>3. Character(index, (b - 1) \div 2) \in Nat
      BY <3>2 DEF Character
    <3>4. b = 1 \/ b = 2 \/ (b > 2 /\ b <= 2 * (n + 1)) \/ (b > 2 /\ b > 2 * (n + 1))
      BY <1>1
    <3>5. QED  BY <1>1, <1>3, <3>1, <3>3, <3>4
  <2>2. QED  BY <1>2, <2>1 DEF Buffers
<1>5. ASSUME NEW i \in 1..n
      PROVE  s[2 * i + 1] = Character(index, i) /\ s[2 * i + 2] = 0
  <2>1. /\ 2 * i + 1 \in 1..BufferSize /\ 2 * i + 2 \in 1..BufferSize
        /\ 2 * i + 1 > 2 /\ 2 * i + 2 > 2
        /\ 2 * i + 1 <= 2 * (n + 1) /\ 2 * i + 2 <= 2 * (n + 1)
    BY <1>1
  <2>2. /\ (2 * i + 1) % 2 = 1 /\ (2 * i + 1 - 1) \div 2 = i
        /\ (2 * i + 2) % 2 # 1
    BY <1>1
  <2>3. s[2 * i + 1] = Character(index, (2 * i + 1 - 1) \div 2)
    BY <1>3, <2>1, <2>2
  <2>4. s[2 * i + 2] = 0
    BY <1>3, <2>1, <2>2
  <2>5. QED  BY <2>2, <2>3, <2>4
<1>6. s[1] = 2 * (n + 1) /\ s[2] = 3
  BY <1>1, <1>3
<1>7. QED  BY <1>1, <1>4, <1>5, <1>6 DEF n, s

LEMMA LanguageHead ==
  LET head == <<4, 3>> \o LangId
  IN  /\ head \in Seq(Nat) /\ Len(head) = 4
      /\ head[1] = 4 /\ head[2] = 3 /\ head[3] = 9 /\ head[4] = 4
<1> DEFINE head == <<4, 3>> \o LangId
<1>1. /\ <<4, 3>> \in Seq(Nat) /\ Len(<<4, 3>>) = 2
      /\ LangId \in Seq(Nat) /\ Len(LangId) = 2
      /\ LangId[1] = 9 /\ LangId[2] = 4
  BY DEF LangId
<1>2. /\ head \in Seq(Nat) /\ Len(head) = Len(<<4, 3>>) + Len(LangId)
      /\ \A i \in 1..Len(<<4, 3>>) : head[i] = <<4, 3>>[i]
      /\ \A i \in 1..Len(LangId) : head[Len(<<4, 3>>) + i] = LangId[i]
  BY <1>1, Join, Zenon
<1> HIDE DEF head
<1>3. head[1] = 4 /\ head[2] = 3
  BY <1>1, <1>2
<1>4. head[2 + 1] = 9 /\ head[2 + 2] = 4
  BY <1>1, <1>2
<1>5. QED  BY <1>1, <1>2, <1>3, <1>4 DEF head

LEMMA LanguageBytes ==
  ASSUME NEW buffer \in Buffers
  PROVE  LET s == USBD_DESC_GetString(buffer, 0)
         IN  s \in Buffers /\ s[1] = 4 /\ s[2] = 3 /\ s[3] = 9 /\ s[4] = 4
<1> DEFINE rest == SubSeq(buffer, 5, BufferSize)
           s == USBD_DESC_GetString(buffer, 0)
<1>1. BufferSize \in Nat /\ BufferSize >= 66
  BY DescriptorsAssumption
<1>2. rest \in Seq(Nat) /\ Len(rest) = BufferSize - 4
  BY <1>1, SubSeqProperties DEF Buffers
<1> DEFINE head == <<4, 3>> \o LangId
<1>3. /\ head \in Seq(Nat) /\ Len(head) = 4
      /\ head[1] = 4 /\ head[2] = 3 /\ head[3] = 9 /\ head[4] = 4
  BY LanguageHead
<1>4. /\ s \in Seq(Nat) /\ Len(s) = Len(head) + Len(rest)
      /\ \A i \in 1..Len(head) : s[i] = head[i]
  <2>1. s = head \o rest
    BY DEF USBD_DESC_GetString
  <2> HIDE DEF rest, head, s
  <2>2. QED  BY <1>2, <1>3, <2>1, Join, Zenon
<1> HIDE DEF rest, head, s
<1>5. Len(s) = BufferSize
  BY <1>1, <1>2, <1>3, <1>4
<1>6. s[1] = 4 /\ s[2] = 3 /\ s[3] = 9 /\ s[4] = 4
  BY <1>3, <1>4
<1>7. s \in Buffers
  BY <1>4, <1>5, LenProperties DEF Buffers
<1>8. QED  BY <1>6, <1>7 DEF s
LEMMA DeviceBytes ==
  device_desc \in Seq(Nat) /\ Len(device_desc) = 18 /\ device_desc[1] = 18 /\ device_desc[8] = 64
<1> DEFINE p == <<18, 1>>
           q == U16(512)
           r == <<0, 0, 0, 64>>
           t == U16(65261)
           u == U16(3)
           v == U16(1)
           w == <<1, 2, 3, 1>>
           a == p \o q
           b == a \o r
           c == b \o t
           d == c \o u
           e == d \o v
<1>1. p \in Seq(Nat) /\ q \in Seq(Nat) /\ r \in Seq(Nat) /\ t \in Seq(Nat)
  BY DEF U16
<1>2. u \in Seq(Nat) /\ v \in Seq(Nat) /\ w \in Seq(Nat)
  BY DEF U16
<1>3. /\ Len(p) = 2 /\ Len(q) = 2 /\ Len(r) = 4 /\ Len(t) = 2 /\ Len(u) = 2 /\ Len(v) = 2
      /\ Len(w) = 4 /\ p[1] = 18 /\ r[4] = 64
  BY DEF U16
<1>4. device_desc = e \o w
  BY DEF device_desc
<1> HIDE DEF p, q, r, t, u, v, w, a, b, c, d, e
<1>5. a \in Seq(Nat) /\ Len(a) = 4 /\ a[1] = 18
  <2>1. p \in Seq(Nat) /\ q \in Seq(Nat)
    BY <1>1
  <2>2. /\ a \in Seq(Nat) /\ Len(a) = Len(p) + Len(q)
        /\ \A i \in 1..Len(p) : a[i] = p[i]
        /\ \A i \in 1..Len(q) : a[Len(p) + i] = q[i]
    BY <2>1, Join, Zenon DEF a
  <2>3. QED  BY <1>3, <2>1, <2>2
<1>6. b \in Seq(Nat) /\ Len(b) = 8 /\ b[1] = 18 /\ b[8] = 64
  <2>1. a \in Seq(Nat) /\ r \in Seq(Nat)
    BY <1>1, <1>5
  <2>2. /\ b \in Seq(Nat) /\ Len(b) = Len(a) + Len(r)
        /\ \A i \in 1..Len(a) : b[i] = a[i]
        /\ \A i \in 1..Len(r) : b[Len(a) + i] = r[i]
    BY <2>1, Join, Zenon DEF b
  <2>3. b[4 + 4] = 64
    BY <1>3, <1>5, <2>1, <2>2
  <2>4. QED  BY <1>3, <1>5, <2>1, <2>2, <2>3
<1>7. c \in Seq(Nat) /\ Len(c) = 10 /\ c[1] = 18 /\ c[8] = 64
  <2>1. b \in Seq(Nat) /\ t \in Seq(Nat)
    BY <1>1, <1>6
  <2>2. /\ c \in Seq(Nat) /\ Len(c) = Len(b) + Len(t)
        /\ \A i \in 1..Len(b) : c[i] = b[i]
        /\ \A i \in 1..Len(t) : c[Len(b) + i] = t[i]
    BY <2>1, Join, Zenon DEF c
  <2>3. QED  BY <1>3, <1>6, <2>1, <2>2
<1>8. d \in Seq(Nat) /\ Len(d) = 12 /\ d[1] = 18 /\ d[8] = 64
  <2>1. c \in Seq(Nat) /\ u \in Seq(Nat)
    BY <1>2, <1>7
  <2>2. /\ d \in Seq(Nat) /\ Len(d) = Len(c) + Len(u)
        /\ \A i \in 1..Len(c) : d[i] = c[i]
        /\ \A i \in 1..Len(u) : d[Len(c) + i] = u[i]
    BY <2>1, Join, Zenon DEF d
  <2>3. QED  BY <1>3, <1>7, <2>1, <2>2
<1>9. e \in Seq(Nat) /\ Len(e) = 14 /\ e[1] = 18 /\ e[8] = 64
  <2>1. d \in Seq(Nat) /\ v \in Seq(Nat)
    BY <1>2, <1>8
  <2>2. /\ e \in Seq(Nat) /\ Len(e) = Len(d) + Len(v)
        /\ \A i \in 1..Len(d) : e[i] = d[i]
        /\ \A i \in 1..Len(v) : e[Len(d) + i] = v[i]
    BY <2>1, Join, Zenon DEF e
  <2>3. QED  BY <1>3, <1>8, <2>1, <2>2
<1>10. /\ device_desc \in Seq(Nat) /\ Len(device_desc) = Len(e) + Len(w)
      /\ \A i \in 1..Len(e) : device_desc[i] = e[i]
  <2>1. e \in Seq(Nat) /\ w \in Seq(Nat)
    BY <1>2, <1>9
  <2>2. QED  BY <2>1, <1>4, Join, Zenon
<1>11. QED  BY <1>3, <1>9, <1>10

LEMMA ReportBytes == hid_report_desc \in Seq(Nat)
<1>1. \A s, t \in Seq(Nat) : s \o t \in Seq(Nat)
  BY Join
<1>2. \A name \in DOMAIN Tag : \A value \in Nat : Item(name, value) \in Seq(Nat)
  <2>1. \A name \in DOMAIN Tag : Tag[name] \in Nat
    BY DEF Tag
  <2>2. QED  BY <2>1 DEF Item
<1>3. DOMAIN Tag = {"UsagePage", "Usage", "LogicalMinimum", "UsageMinimum", "LogicalMaximum",
                    "UsageMaximum", "ReportSize", "Input", "ReportId", "ReportCount",
                    "Collection"}
  BY DEF Tag
<1>4. EndCollection \in Seq(Nat)
  BY DEF EndCollection
<1>5. \A first, last \in Nat : Range1(first, last) \in Seq(Nat)
  BY <1>1, <1>2, <1>3 DEF Range1
<1>6. \A least, most \in Nat : Logical(least, most) \in Seq(Nat)
  BY <1>1, <1>2, <1>3 DEF Logical
<1>7. \A size, count, kind \in Nat : Fields(size, count, kind) \in Seq(Nat)
  BY <1>1, <1>2, <1>3 DEF Fields
<1>8. hid_report_keyboard_desc \in Seq(Nat)
  <2> DEFINE a == Item("UsagePage", 1) \o Item("Usage", 6) \o Item("Collection", 1)
             b == a \o Item("ReportId", 1)
             c == b \o Item("UsagePage", 7) \o Range1(224, 231) \o Logical(0, 1)
             d == c \o Fields(1, 8, 2) \o Fields(8, 1, 1)
             e == d \o Item("UsagePage", 7) \o Range1(0, 255)
  <2>1. /\ Item("UsagePage", 1) \in Seq(Nat) /\ Item("Usage", 6) \in Seq(Nat)
        /\ Item("Collection", 1) \in Seq(Nat) /\ Item("ReportId", 1) \in Seq(Nat)
        /\ Item("UsagePage", 7) \in Seq(Nat)
    BY DEF Item, Tag
  <2>2. Range1(224, 231) \in Seq(Nat) /\ Range1(0, 255) \in Seq(Nat)
    BY <1>5
  <2>3. Logical(0, 1) \in Seq(Nat) /\ Logical(0, 255) \in Seq(Nat)
    BY <1>6
  <2>4. Fields(1, 8, 2) \in Seq(Nat) /\ Fields(8, 1, 1) \in Seq(Nat) /\ Fields(8, 5, 0) \in Seq(Nat)
    BY <1>7
  <2>5. hid_report_keyboard_desc = e \o Logical(0, 255) \o Fields(8, 5, 0) \o EndCollection
    BY DEF hid_report_keyboard_desc
  <2> HIDE DEF a, b, c, d, e
  <2>6. a \in Seq(Nat)
    BY <1>1, <2>1, Zenon DEF a
  <2>7. b \in Seq(Nat)
    BY <1>1, <2>1, <2>6, Zenon DEF b
  <2>8. c \in Seq(Nat)
    BY <1>1, <2>1, <2>2, <2>3, <2>7, Zenon DEF c
  <2>9. d \in Seq(Nat)
    BY <1>1, <2>4, <2>8, Zenon DEF d
  <2>10. e \in Seq(Nat)
    BY <1>1, <2>1, <2>2, <2>9, Zenon DEF e
  <2>11. QED
    BY <1>1, <1>4, <2>3, <2>4, <2>5, <2>10, Zenon
<1>9. hid_report_mouse_desc \in Seq(Nat)
  <2> DEFINE a == Item("UsagePage", 1) \o Item("Usage", 2) \o Item("Collection", 1)
             b == a \o Item("ReportId", 2) \o Item("Usage", 1) \o Item("Collection", 0)
             c == b \o Item("UsagePage", 9) \o Range1(1, 8) \o Logical(0, 1)
             d == c \o Item("ReportCount", 3) \o Item("ReportSize", 1) \o Item("Input", 2)
             e == d \o Item("UsagePage", 1) \o Item("Usage", 48) \o Item("Usage", 49)
                    \o Item("Usage", 56)
             f == e \o Logical(255, 1) \o Fields(15, 3, 6)
  <2>1. /\ Item("UsagePage", 1) \in Seq(Nat) /\ Item("Usage", 2) \in Seq(Nat)
        /\ Item("Collection", 1) \in Seq(Nat) /\ Item("ReportId", 2) \in Seq(Nat)
        /\ Item("Usage", 1) \in Seq(Nat) /\ Item("Collection", 0) \in Seq(Nat)
    BY DEF Item, Tag
  <2>2. /\ Item("UsagePage", 9) \in Seq(Nat) /\ Item("ReportCount", 3) \in Seq(Nat)
        /\ Item("ReportSize", 1) \in Seq(Nat) /\ Item("Input", 2) \in Seq(Nat)
        /\ Item("Usage", 48) \in Seq(Nat) /\ Item("Usage", 49) \in Seq(Nat)
        /\ Item("Usage", 56) \in Seq(Nat)
    BY DEF Item, Tag
  <2>3. Range1(1, 8) \in Seq(Nat) /\ Fields(15, 3, 6) \in Seq(Nat)
    BY <1>5, <1>7
  <2>4. Logical(0, 1) \in Seq(Nat) /\ Logical(255, 1) \in Seq(Nat)
    BY <1>6
  <2>5. hid_report_mouse_desc = f \o EndCollection \o EndCollection
    BY DEF hid_report_mouse_desc
  <2> HIDE DEF a, b, c, d, e, f
  <2>6. a \in Seq(Nat)
    BY <1>1, <2>1, Zenon DEF a
  <2>7. b \in Seq(Nat)
    BY <1>1, <2>1, <2>6, Zenon DEF b
  <2>8. c \in Seq(Nat)
    BY <1>1, <2>2, <2>3, <2>4, <2>7, Zenon DEF c
  <2>9. d \in Seq(Nat)
    BY <1>1, <2>2, <2>8, Zenon DEF d
  <2>10. e \in Seq(Nat)
    BY <1>1, <2>1, <2>2, <2>9, Zenon DEF e
  <2>11. f \in Seq(Nat)
    BY <1>1, <2>3, <2>4, <2>10, Zenon DEF f
  <2>12. QED
    BY <1>1, <1>4, <2>5, <2>11, Zenon
<1>10. QED  BY <1>1, <1>8, <1>9 DEF hid_report_desc
LEMMA Kinds ==
  /\ Descriptors = {"langid", "manufacturer", "product", "serial", "interface_name",
                    "unknown_string", "device", "configuration", "hid_report", "qualifier"}
  /\ \A d : IsString(d) <=>
       d \in {"langid", "manufacturer", "product", "serial", "interface_name"}
BY DEF Descriptors, IsString, Missing, StringIndex

\* Whatever the buffer held, the callback leaves as many bytes as it announces.
LEMMA DescriptorBytes ==
  ASSUME ShortStrings, NEW buffer \in Buffers, NEW d \in Descriptors
  PROVE  LET written == StringWritten(buffer, d)
         IN  /\ written \in Buffers
             /\ Descriptor(written, d) \in Seq(Nat)
             /\ Len(Descriptor(written, d)) = DescriptorLength[d]
<1> DEFINE zero == [b \in 1..BufferSize |-> 0]
<1>1. DescriptorLength[d] = Len(Descriptor(StringWritten(zero, d), d))
  BY EnumerationAssumption DEF Lengths
<1>2. zero \in Buffers /\ BufferSize \in Nat
  BY DescriptorsAssumption DEF Buffers
<1>3. ASSUME NEW s \in Buffers, s[1] <= BufferSize
      PROVE  SubSeq(s, 1, s[1]) \in Seq(Nat) /\ Len(SubSeq(s, 1, s[1])) = s[1]
  <2>1. s[1] \in Nat
    BY <1>2, DescriptorsAssumption DEF Buffers
  <2>2. \A i \in 1..s[1] : s[i] \in Nat
    BY <1>2, <1>3, <2>1 DEF Buffers
  <2>3. QED  BY <2>1, <2>2, SubSeqProperties
<1>4. CASE IsString(d)
  <2> DEFINE W(b) == StringWritten(b, d)
  <2>1. d # "device" /\ d # "configuration" /\ d # "hid_report"
    BY <1>4, Kinds
  <2>2. \A b : Descriptor(W(b), d) = SubSeq(W(b), 1, W(b)[1])
    BY <1>4, <2>1 DEF Descriptor
  <2>3. \A b \in Buffers : /\ W(b) \in Buffers /\ W(b)[1] <= BufferSize
                           /\ W(b)[1] = W(zero)[1]
    <3>1. CASE d = "langid"
      <4>1. \A b : W(b) = USBD_DESC_GetString(b, 0)
        BY <1>4, <3>1 DEF StringWritten, StringIndex
      <4>2. QED  BY <1>2, <4>1, LanguageBytes, DescriptorsAssumption
    <3>2. CASE d # "langid"
      <4>1. StringIndex[d] \in 1..4
        BY <1>4, <3>2, Kinds DEF StringIndex
      <4>2. \A b : W(b) = USBD_DESC_GetString(b, StringIndex[d])
        BY <1>4 DEF StringWritten
      <4>3. QED  BY <1>2, <4>1, <4>2, StringBytes
    <3>3. QED  BY <3>1, <3>2
  <2> HIDE DEF W
  <2>4. QED  BY <1>1, <1>2, <1>3, <2>2, <2>3 DEF W
<1>5. CASE ~IsString(d)
  <2>1. StringWritten(buffer, d) = buffer
    BY <1>5 DEF StringWritten
  <2>2. Descriptor(buffer, d) = Descriptor(StringWritten(zero, d), d)
    BY <1>5 DEF Descriptor
  <2>3. Descriptor(buffer, d) \in Seq(Nat)
    <3>1. CASE d = "device"
      <4>1. Descriptor(buffer, d) = device_desc
        BY <1>5, <3>1 DEF Descriptor
      <4>2. QED  BY <4>1, DeviceBytes
    <3>2. CASE d = "configuration"
      <4>1. Descriptor(buffer, d) = USBD_DESC_CombineDescriptors(configuration0_desc_list)
        BY <1>5, <3>2 DEF Descriptor
      <4>2. QED  BY <4>1, TablesAssumption
    <3>3. CASE d = "hid_report"
      <4>1. Descriptor(buffer, d) = hid_report_desc
        BY <1>5, <3>3 DEF Descriptor
      <4>2. QED  BY <4>1, ReportBytes
    <3>4. CASE d \notin {"device", "configuration", "hid_report"}
      BY <1>5, <3>4 DEF Descriptor
    <3>5. QED  BY <3>1, <3>2, <3>3, <3>4
  <2>4. QED  BY <1>1, <2>1, <2>2, <2>3
<1>6. QED  BY <1>4, <1>5
-----------------------------------------------------------------------------
(* The bytes the host collects.                                              *)

GetsDescriptor(r) == r.type = "standard" /\ r.request = "get_descriptor"

\* What the callback for d leaves in the buffer of the strings.
Written(d) == \E b \in Buffers : string = StringWritten(b, d)

\* The start of the descriptor asked for, as long as the host has acknowledged.
ReadSoFar == SubSeq(Descriptor(string, setup.descriptor), 1, received)

\* The buffer keeps the string asked for until the host has read it: the
\* callback runs between the setup packet and the first packet, and never for
\* a request that is already answered.
EnumInv ==
  /\ string \in Buffers
  /\ "EP0SETUP" \in events /\ GetsDescriptor(setup) => ep0 # "status"
  /\ ep0 = "setup" /\ ~Looping => data = <<>>
  /\ Looping => Written(setup.descriptor)
  /\ Looping /\ ep0 = "setup" => data = ReadSoFar
  /\ ep0 = "status" /\ GetsDescriptor(setup) => Written(setup.descriptor) /\ data = ReadSoFar

\* The steps that touch neither the buffer nor the host's bytes: none starts a
\* data stage, and only the end of one answers a request for a descriptor.
LEMMA ElsewhereFacts ==
  ASSUME TypeOK, StageInv, Elsewhere
  PROVE  /\ UNCHANGED <<string, data, setup, received>>
         /\ Looping' => Looping
         /\ "EP0SETUP" \in events' => "EP0SETUP" \in events
         /\ ep0' = "setup" => ep0 = "setup" /\ (Looping => Looping')
         /\ ep0' = "status" => \/ ep0 = "status"
                               \/ ep0 = "setup" /\ Looping
                               \/ ~GetsDescriptor(setup)
<1> USE DEF TypeOK, Looping, At, Goto, Contexts, Raise, Clear, hostVars, driverVars, registers
<1>1. UNCHANGED <<string, data>>
  BY DEF Elsewhere
<1>2. CASE Plug \/ Unplug \/ RegulatorSettles \/ PeripheralReady
  BY <1>1, <1>2 DEF Plug, Unplug, RegulatorSettles, PeripheralReady
<1>3. CASE HostReset \/ HostSuspend \/ ReportCopied
  BY <1>1, <1>3 DEF HostReset, HostSuspend, ReportCopied
<1>4. CASE PowerIrq \/ UsbDetected \/ AwaitReady \/ UsbPwrRdy \/ UsbRemoved
  BY <1>1, <1>4 DEF PowerIrq, UsbDetected, AwaitReady, UsbPwrRdy, UsbRemoved
<1>5. CASE DisableUsbd \/ DropPullup
  BY <1>1, <1>5 DEF DisableUsbd, DropPullup
<1>6. CASE \/ EventAbsent("detected", "USBDETECTED", "pwrrdy")
           \/ EventAbsent("pwrrdy", "USBPWRRDY", "removed")
           \/ EventAbsent("removed", "USBREMOVED", "idle")
           \/ EventAbsent("usbreset", "USBRESET", "ep0setup")
           \/ EventAbsent("ep0setup", "EP0SETUP", "endepin1")
  BY <1>1, <1>6 DEF EventAbsent
<1>7. CASE UsbdIrq \/ UsbEvent \/ UsbReset \/ EndEpin1
  BY <1>1, <1>7 DEF UsbdIrq, UsbEvent, UsbReset, EndEpin1
<1>8. CASE SetupStatus
  BY <1>1, <1>8 DEF SetupStatus, ep0setup, Response, Conclude, GetsDescriptor
<1>9. CASE SetupStall \/ SetupIgnored
  BY <1>1, <1>9 DEF SetupStall, SetupIgnored, ep0setup, Conclude
<1>10. CASE StartEpin0 \/ AwaitDataDone
  BY <1>1, <1>10 DEF StartEpin0, AwaitDataDone
<1>11. CASE DataStageDone
  BY <1>1, <1>11 DEF DataStageDone, Conclude
<1>12. CASE SendReport
  BY <1>1, <1>12, UsbdAssumption DEF SendReport
<1>13. CASE AwaitLock \/ SetLock
  BY <1>1, <1>13, UsbdAssumption DEF AwaitLock, SetLock
<1>14. CASE StartEpin1 \/ AwaitEndEpin
  BY <1>1, <1>14, UsbdAssumption DEF StartEpin1, AwaitEndEpin
<1>15. QED
  BY <1>2, <1>3, <1>4, <1>5, <1>6, <1>7, <1>8, <1>9, <1>10, <1>11, <1>12, <1>13, <1>14
     DEF Elsewhere, POWER_CLOCK_IRQHandler, usbd_epin_start

LEMMA ElsewhereData ==
  ASSUME TypeOK, StageInv, EnumInv, Elsewhere
  PROVE  EnumInv'
<1>1. UNCHANGED <<string, data, setup, received>>
  BY ElsewhereFacts
<1>2. \A d : Written(d)' <=> Written(d)
  BY <1>1 DEF Written
<1>3. ReadSoFar' = ReadSoFar
  BY <1>1 DEF ReadSoFar
<1>4. GetsDescriptor(setup)' <=> GetsDescriptor(setup)
  BY <1>1 DEF GetsDescriptor
<1>5. Looping => "EP0SETUP" \notin events
  BY DEF StageInv
<1>6. QED  BY <1>1, <1>2, <1>3, <1>4, <1>5, ElsewhereFacts DEF EnumInv

LEMMA SetupData ==
  ASSUME PatientHost, EnumInv, NEW r \in Requests, Setup(r)
  PROVE  EnumInv'
<1>1. /\ ~Looping' /\ string' = string /\ data' = <<>> /\ setup' = r
      /\ GetsDescriptor(r) => ep0' = "setup"
  BY DEF Setup, HostSetup, SetupHandled, Looping, At, driverVars, GetsDescriptor
<1>2. QED  BY <1>1 DEF EnumInv, GetsDescriptor

\* A packet continues where the bytes read so far end.
LEMMA PacketData ==
  ASSUME ShortStrings, TypeOK, StageInv, EnumInv, ReadPacket
  PROVE  EnumInv'
<1> DEFINE d == setup.descriptor
           whole == Descriptor(string, d)
<1>1. /\ ep0 = "setup" /\ 0 \in dma /\ UNCHANGED <<pc, transfer, setup, ep0, string>>
      /\ received' = received + PacketSize /\ data' = data \o Packet
  BY DEF ReadPacket, HostReadsPacket, driverVars
<1>2. /\ Looping /\ Looping' /\ received = transfer.bytes_sent
      /\ Response(setup) = "data" /\ transfer.send_len = SendLength(setup)
  <2>1. At("isr", "await_datadone") /\ "EP0DATADONE" \notin events
    BY <1>1 DEF StageInv
  <2>2. Looping /\ Looping'
    BY <1>1, <2>1 DEF Looping, At
  <2>3. received = transfer.bytes_sent + 0
    BY <1>1, <2>1, <2>2 DEF StageInv
  <2>4. QED  BY <2>2, <2>3 DEF StageInv, TypeOK
<1>3. Written(d) /\ data = ReadSoFar
  BY <1>1, <1>2 DEF EnumInv
<1>4. d \in Descriptors
  <2>1. setup \in Requests
    BY <1>2 DEF TypeOK, Response, NoRequest
  <2>2. DOMAIN DescriptorLength = Descriptors
    BY EnumerationAssumption DEF Lengths
  <2>3. QED  BY <2>1, <2>2, UsbdAssumption
<1>5. whole \in Seq(Nat) /\ Len(whole) = DescriptorLength[d]
  BY <1>3, <1>4, DescriptorBytes DEF Written
<1>6. /\ transfer.bytes_sent \in Nat /\ PacketSize \in Nat
      /\ transfer.bytes_sent + PacketSize <= Len(whole)
  <2>1. /\ SendLength(setup) <= DescriptorLength[d]
    BY <1>2, <1>5, DataRequest, UsbdAssumption DEF SendLength, Smaller, TypeOK
  <2>2. QED  BY <1>2, <1>5, <2>1 DEF TypeOK, PacketSize, Smaller
<1>7. data' = SubSeq(whole, 1, received')
  <2>1. data' = SubSeq(whole, 1, received) \o SubSeq(whole, received + 1, received + PacketSize)
    BY <1>1, <1>2, <1>3 DEF ReadSoFar, Packet
  <2> HIDE DEF whole
  <2>2. /\ received \in 1 - 1 .. Len(whole) /\ received + PacketSize \in received .. Len(whole)
        /\ 1 \in 1 .. Len(whole) + 1
    BY <1>2, <1>5, <1>6
  <2>3. QED  BY <1>1, <1>5, <2>1, <2>2, ConcatAdjacentSubSeq
<1>8. Written(setup.descriptor)' /\ data' = ReadSoFar'
  BY <1>1, <1>3, <1>7 DEF Written, ReadSoFar
<1>9. string' \in Buffers
  BY <1>1 DEF EnumInv
<1>10. QED
  BY <1>1, <1>2, <1>8, <1>9 DEF EnumInv

LEMMA GetDescriptorData ==
  ASSUME ShortStrings, TypeOK, StageInv, EnumInv, GetDescriptor
  PROVE  EnumInv'
<1>1. /\ "EP0SETUP" \in events /\ "EP0SETUP" \notin events' /\ Response(setup) = "data"
      /\ ~Looping /\ Looping'
      /\ string' = StringWritten(string, setup.descriptor)
      /\ UNCHANGED <<ep0, setup, received, data>>
  BY DEF GetDescriptor, SetupDescriptor, ep0setup, Clear, Goto, At, Looping, TypeOK, Contexts
<1>2. GetsDescriptor(setup)
  BY <1>1 DEF Response, GetsDescriptor
<1>3. ep0 # "status"
  BY <1>1, <1>2 DEF EnumInv
<1>4. ep0 = "setup" => data = <<>> /\ received = 0
  BY <1>1 DEF EnumInv, StageInv
<1>5. setup.descriptor \in Descriptors
  <2>1. setup \in Requests
    BY <1>1 DEF TypeOK, Response, NoRequest
  <2>2. DOMAIN DescriptorLength = Descriptors
    BY EnumerationAssumption DEF Lengths
  <2>3. QED  BY <2>1, <2>2, UsbdAssumption
<1>6. string \in Buffers /\ string' \in Buffers
  BY <1>1, <1>5, DescriptorBytes DEF EnumInv
<1>7. Written(setup.descriptor)'
  BY <1>1, <1>6 DEF Written
<1>8. ep0 = "setup" => data' = ReadSoFar'
  <2>1. \A s : SubSeq(s, 1, 0) = <<>>
    BY SubSeqEmpty
  <2>2. QED  BY <1>1, <1>4, <2>1 DEF ReadSoFar
<1>9. QED  BY <1>1, <1>3, <1>6, <1>7, <1>8 DEF EnumInv
LEMMA EnumInvariant ==
  ASSUME PatientHost, ShortStrings
  PROVE  EnumerationSpec => []EnumInv
<1>1. EnumerationInit => EnumInv
  <2> SUFFICES ASSUME EnumerationInit PROVE EnumInv
    OBVIOUS
  <2>1. string \in Buffers /\ data = <<>>
    BY DescriptorsAssumption DEF EnumerationInit, Buffers
  <2>2. events = {} /\ ep0 = "idle" /\ ~Looping
    BY DEF EnumerationInit, Init, Looping, Contexts
  <2>3. QED  BY <2>1, <2>2 DEF EnumInv
<1>2. TypeOK /\ StageInv /\ EnumInv /\ [EnumerationNext]_enumerationVars => EnumInv'
  <2>1. ASSUME EnumInv, UNCHANGED enumerationVars PROVE EnumInv'
    BY <2>1 DEF EnumInv, Written, ReadSoFar, Looping, GetsDescriptor, enumerationVars,
                vars, driverVars, registers, hostVars
  <2>2. ASSUME TypeOK, StageInv, EnumInv, EnumerationNext PROVE EnumInv'
    BY <2>2, SetupData, PacketData, GetDescriptorData, ElsewhereData DEF EnumerationNext
  <2>3. QED  BY <2>1, <2>2
<1>3. EnumerationSpec => []TypeOK /\ []StageInv
  BY EnumerationIsUsbd, TypeCorrect, StageInvariant, PTL
<1>4. QED  BY <1>1, <1>2, <1>3, PTL DEF EnumerationSpec

\* The bytes of a data stage are the descriptor's own, from its first to the
\* last one acknowledged, for every wLength and however the cable moves: no
\* packet repeats or skips bytes and no other string's characters are left in
\* the buffer they share (usbd.c:247-282, usb_descriptors.c:192-218).
StageBytes ==
  ep0 = "status" /\ GetsDescriptor(setup) =>
    \E b \in Buffers :
      data = SubSeq(Descriptor(StringWritten(b, setup.descriptor), setup.descriptor), 1,
                    Smaller(DescriptorLength[setup.descriptor], setup.wLength))

THEOREM StageBytesCorrect ==
  ASSUME PatientHost, ShortStrings
  PROVE  EnumerationSpec => []StageBytes
<1>1. StageInv /\ EnumInv => StageBytes
  BY DEF StageInv, EnumInv, DataStageExact, StageBytes, Written, ReadSoFar, GetsDescriptor
<1>2. EnumerationSpec => []StageInv
  BY EnumerationIsUsbd, StageInvariant, PTL
<1>3. QED  BY <1>1, <1>2, EnumInvariant, PTL
-----------------------------------------------------------------------------
(* What the host reads of a whole descriptor.                                *)

LEMMA WholeBytes ==
  ASSUME ShortStrings, TypeOK, StageBytes, NEW d \in Descriptors, Whole(d)
  PROVE  \E b \in Buffers : data = Descriptor(StringWritten(b, d), d)
<1>1. /\ ep0 = "status" /\ GetsDescriptor(setup) /\ setup.descriptor = d
      /\ setup.wLength > DescriptorLength[d]
  BY DEF Whole, GetsDescriptor
<1>2. setup \in Requests
  BY <1>1 DEF TypeOK, GetsDescriptor, NoRequest
<1>3. DescriptorLength[d] \in Nat /\ setup.wLength \in Nat
  BY <1>1, <1>2, UsbdAssumption
<1>4. Smaller(DescriptorLength[d], setup.wLength) = DescriptorLength[d]
  BY <1>1, <1>3 DEF Smaller
<1>5. PICK b \in Buffers :
        data = SubSeq(Descriptor(StringWritten(b, d), d), 1, DescriptorLength[d])
  BY <1>1, <1>4 DEF StageBytes
<1>6. /\ Descriptor(StringWritten(b, d), d) \in Seq(Nat)
      /\ Len(Descriptor(StringWritten(b, d), d)) = DescriptorLength[d]
  BY DescriptorBytes
<1>7. data = Descriptor(StringWritten(b, d), d)
  BY <1>5, <1>6, SubSeqFull
<1>8. QED  BY <1>7

LEMMA StringRead ==
  ASSUME ShortStrings, NEW buffer \in Buffers,
         NEW d \in {"manufacturer", "product", "serial", "interface_name"}
  PROVE  LET read == Descriptor(StringWritten(buffer, d), d)
             n == StringLength[StringIndex[d]]
         IN  /\ Len(read) = read[1] /\ read[2] = 3
             /\ Len(read) = 2 * (n + 1)
             /\ \A i \in 1..n : Word(read, 2 * i + 1) = Character(StringIndex[d], i)
<1> DEFINE index == StringIndex[d]
           n == StringLength[index]
           s == USBD_DESC_GetString(buffer, index)
           read == Descriptor(StringWritten(buffer, d), d)
<1>1. index \in 1..4
  BY DEF StringIndex
<1>2. IsString(d) /\ d # "device" /\ d # "configuration" /\ d # "hid_report"
  BY Kinds
<1>3. read = SubSeq(s, 1, s[1])
  BY <1>2 DEF Descriptor, StringWritten
<1>4. /\ s \in Buffers /\ 2 * (n + 1) <= BufferSize
      /\ s[1] = 2 * (n + 1) /\ s[2] = 3
      /\ \A i \in 1..n : s[2 * i + 1] = Character(index, i) /\ s[2 * i + 2] = 0
  BY <1>1, StringBytes
<1>5. n \in Nat /\ BufferSize \in Nat
  BY <1>1, DescriptorsAssumption
<1> HIDE DEF index, n, s, read
<1>6. /\ Len(read) = 2 * (n + 1)
      /\ \A i \in 1..2 * (n + 1) : read[i] = s[i]
  <2>1. \A i \in 1..2 * (n + 1) : s[i] \in Nat
    BY <1>4, <1>5 DEF Buffers
  <2> DEFINE m == 2 * (n + 1)
  <2>2. m \in Nat /\ m >= 1 /\ read = SubSeq(s, 1, m) /\ \A i \in 1..m : s[i] \in Nat
    BY <1>3, <1>4, <1>5, <2>1
  <2> HIDE DEF m
  <2>3. Len(read) = m /\ \A i \in 1..m : read[i] = s[i]
    BY <2>2, SubSeqProperties
  <2>4. QED  BY <2>3 DEF m
<1>7. read[1] = 2 * (n + 1) /\ read[2] = 3
  BY <1>4, <1>5, <1>6
<1>8. ASSUME NEW i \in 1..n
      PROVE  Word(read, 2 * i + 1) = Character(index, i)
  <2>1. read[2 * i + 1] = s[2 * i + 1] /\ read[2 * i + 2] = s[2 * i + 2]
    BY <1>5, <1>6
  <2>2. (2 * i + 1) + 1 = 2 * i + 2
    BY <1>5
  <2>3. Word(read, 2 * i + 1) = s[2 * i + 1] + 256 * s[2 * i + 2]
    BY <2>1, <2>2 DEF Word
  <2>4. Character(index, i) \in Nat
    BY <1>1, <1>5 DEF Character
  <2>5. QED  BY <1>4, <2>3, <2>4
<1>9. QED  BY <1>6, <1>7, <1>8 DEF index, n, read

LEMMA LanguageRead ==
  ASSUME NEW buffer \in Buffers
  PROVE  Descriptor(StringWritten(buffer, "langid"), "langid") = <<4, 3>> \o LangId
<1> DEFINE s == USBD_DESC_GetString(buffer, 0)
           head == <<4, 3>> \o LangId
<1>1. s \in Buffers /\ s[1] = 4 /\ s[2] = 3 /\ s[3] = 9 /\ s[4] = 4
  BY LanguageBytes
<1>2. /\ head \in Seq(Nat) /\ Len(head) = 4
      /\ head[1] = 4 /\ head[2] = 3 /\ head[3] = 9 /\ head[4] = 4
  BY LanguageHead
<1>3. Descriptor(StringWritten(buffer, "langid"), "langid") = SubSeq(s, 1, 4)
  BY <1>1, Kinds DEF Descriptor, StringWritten, StringIndex
<1> HIDE DEF s, head
<1>4. \A i \in 1..4 : s[i] \in Nat /\ s[i] = head[i]
  BY <1>1, <1>2
<1>5. /\ SubSeq(s, 1, 4) \in Seq(Nat) /\ Len(SubSeq(s, 1, 4)) = 4
      /\ \A i \in 1..4 : SubSeq(s, 1, 4)[i] = head[i]
  BY <1>4, SubSeqProperties
<1>6. SubSeq(s, 1, 4) = head
  BY <1>2, <1>5, SeqEqual
<1>7. QED  BY <1>3, <1>6 DEF head

\* Whatever was asked for before, in whatever pieces and with the cable moving
\* at any time, a host that asked for a whole descriptor reads it as it is
\* meant (usb_descriptors.c:47-243, usb_hid.c:96-164).
THEOREM DescriptorsCorrect ==
  ASSUME PatientHost, ShortStrings
  PROVE  EnumerationSpec => []DescriptorsTrue
<1>1. ASSUME TypeOK, StageBytes PROVE DescriptorsTrue
  <2>1. ASSUME Whole("device") PROVE Len(data) = data[1] /\ data[8] = 64
    <3>1. data = device_desc
      BY <1>1, <2>1, WholeBytes, Kinds DEF Descriptor
    <3>2. QED  BY <3>1, DeviceBytes
  <2>2. ASSUME Whole("configuration")
        PROVE  ConfigurationRead(data, DescriptorLength["hid_report"])
    <3>1. data = USBD_DESC_CombineDescriptors(configuration0_desc_list)
      BY <1>1, <2>2, WholeBytes, Kinds DEF Descriptor
    <3>2. DescriptorLength["hid_report"] = Len(hid_report_desc)
      BY EnumerationAssumption, Kinds DEF Lengths, Descriptor
    <3>3. QED  BY <3>1, <3>2, TablesAssumption
  <2>3. ASSUME Whole("hid_report") PROVE Declared(data)[1] = 8 * KeyboardReportSize
    <3>1. data = hid_report_desc
      BY <1>1, <2>3, WholeBytes, Kinds DEF Descriptor
    <3>2. QED  BY <3>1, TablesAssumption
  <2>4. ASSUME Whole("langid") PROVE data = <<4, 3>> \o LangId
    BY <1>1, <2>4, WholeBytes, LanguageRead, Kinds
  <2>5. ASSUME NEW d \in {"manufacturer", "product", "serial", "interface_name"}, Whole(d)
        PROVE  /\ Len(data) = data[1] /\ data[2] = 3
               /\ Len(data) = 2 * (StringLength[StringIndex[d]] + 1)
               /\ \A i \in 1..StringLength[StringIndex[d]] :
                    Word(data, 2 * i + 1) = Character(StringIndex[d], i)
    <3>1. PICK b \in Buffers : data = Descriptor(StringWritten(b, d), d)
      BY <1>1, <2>5, WholeBytes, Kinds
    <3>2. QED  BY <3>1, StringRead
  <2>6. QED  BY <2>1, <2>2, <2>3, <2>4, <2>5 DEF DescriptorsTrue
<1>2. EnumerationSpec => []TypeOK
  BY EnumerationIsUsbd, TypeCorrect, PTL
<1>3. QED  BY <1>1, <1>2, StageBytesCorrect, PTL
=============================================================================
