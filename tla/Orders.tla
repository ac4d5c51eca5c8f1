-------------------------------- MODULE Orders --------------------------------
(***************************************************************************)
(* The orders and look-ups of the library: versions, device descriptors    *)
(* and what is kept under them (the Coordinator's devices, the classes of  *)
(* DeviceFactory), discovery policies, and colours and what Push keeps     *)
(* under them.  Names and serial numbers are numbers, in their order.      *)
(***************************************************************************)
EXTENDS Integers, Sequences, FiniteSets

-----------------------------------------------------------------------------
(* Version.                                                                *)

Versions == [vMajor : Nat, vMinor : Nat, vMicro : Nat]

versionEqual(a, b) == a.vMajor = b.vMajor /\ a.vMinor = b.vMinor /\ a.vMicro = b.vMicro

\* operator< and operator<= differ in the last part only; > and >= are written the same way.
versionLess(a, b) ==
  IF a.vMajor # b.vMajor THEN a.vMajor < b.vMajor
  ELSE IF a.vMinor # b.vMinor THEN a.vMinor < b.vMinor ELSE a.vMicro < b.vMicro
versionAtMost(a, b) ==
  IF a.vMajor # b.vMajor THEN a.vMajor < b.vMajor
  ELSE IF a.vMinor # b.vMinor THEN a.vMinor < b.vMinor ELSE a.vMicro <= b.vMicro
versionGreater(a, b) ==
  IF a.vMajor # b.vMajor THEN a.vMajor > b.vMajor
  ELSE IF a.vMinor # b.vMinor THEN a.vMinor > b.vMinor ELSE a.vMicro > b.vMicro
versionAtLeast(a, b) ==
  IF a.vMajor # b.vMajor THEN a.vMajor > b.vMajor
  ELSE IF a.vMinor # b.vMinor THEN a.vMinor > b.vMinor ELSE a.vMicro >= b.vMicro

-----------------------------------------------------------------------------
(* DeviceDescriptor.                                                       *)

Types == 0..3   \* USB, HID, MIDI, Unknown
Unknown == 3

Descriptors == [name : Nat, type : Types, vendorId : Nat, productId : Nat, serial : Nat,
                portIdIn : Nat, portIdOut : Nat]

\* Mutant: vendors are compared whatever the types are.
descriptorLessAnyType(a, b) ==
  \/ a.name < b.name
  \/ a.name = b.name /\ a.type < b.type
  \/ a.name = b.name /\ a.vendorId < b.vendorId
  \/ /\ a.name = b.name /\ a.type = b.type /\ a.vendorId = b.vendorId
     /\ a.productId < b.productId

\* The last alternative asks for a lesser product where it means an equal one: it adds
\* nothing, and serial numbers and ports are not compared.
descriptorLess(a, b) ==
  \/ a.name < b.name
  \/ a.name = b.name /\ a.type < b.type
  \/ a.name = b.name /\ a.type = b.type /\ a.vendorId < b.vendorId
  \/ /\ a.name = b.name /\ a.type = b.type /\ a.vendorId = b.vendorId
     /\ a.productId < b.productId
  \/ /\ a.name = b.name /\ a.type = b.type /\ a.vendorId = b.vendorId
     /\ a.productId < b.productId /\ a.serial < b.serial

isSameProduct(a, b) == a.vendorId = b.vendorId /\ a.productId = b.productId /\ a.type = b.type

\* What a map that is ordered by < takes for the same key.
tied(a, b) == ~descriptorLess(a, b) /\ ~descriptorLess(b, a)

\* A map as a set of entries: insert() keeps an entry that is there.
insert(map, key, value) ==
  IF \E e \in map : tied(e.key, key) THEN map ELSE map \cup {[key |-> key, value |-> value]}

\* DeviceFactory: registerClass() inserts, device() takes the first class of the product.
registerClass(registry, dd, class) == insert(registry, dd, class)
isKnownDevice(registry, dd) == \E e \in registry : isSameProduct(e.key, dd)
device(registry, dd) ==
  LET fits == {e \in registry : isSameProduct(e.key, dd)}
  IN (CHOOSE e \in fits : \A other \in fits \ {e} : descriptorLess(e.key, other.key)).value

\* DiscoveryPolicy: 0 and Unknown stand for anything; a name is a regular expression, here
\* the set of the names it matches, and AnyName is "*".
AnyName == -1
matches(policy, dd) ==
  /\ policy.type # Unknown => policy.type = dd.type
  /\ policy.vendorId # 0 => policy.vendorId = dd.vendorId
  /\ policy.productId # 0 => policy.productId = dd.productId
  /\ AnyName \in policy.names \/ dd.name \in policy.names

-----------------------------------------------------------------------------
(* Color.                                                                  *)

Byte == 0..255
Normal == 0
Invert == 1
Colors == [red : Byte, green : Byte, blue : Byte, mono : Byte, blendMode : 0..2]

grey(v) == [red |-> v, green |-> v, blue |-> v, mono |-> v, blendMode |-> Normal]
rgb(r, g, b) ==
  [red |-> r, green |-> g, blue |-> b, blendMode |-> Normal,
   mono |-> IF r > g /\ r > b THEN r ELSE IF g > b THEN g ELSE b]

\* red(), green() and blue(): the complement of a colour that inverts.
part(c, v) == IF c.blendMode = Invert THEN 255 - v ELSE v
red(c) == part(c, c.red)
green(c) == part(c, c.green)
blue(c) == part(c, c.blue)

getValue(c) == c.red * 65536 + c.green * 256 + c.blue

colorLess(a, b) == getValue(a) < getValue(b) /\ a.mono < b.mono /\ a.blendMode <= b.blendMode
colorAtMost(a, b) == getValue(a) <= getValue(b) /\ a.mono <= b.mono /\ a.blendMode <= b.blendMode
colorGreater(a, b) == getValue(a) > getValue(b) /\ a.mono > b.mono /\ a.blendMode >= b.blendMode
colorAtLeast(a, b) == getValue(a) >= getValue(b) /\ a.mono >= b.mono /\ a.blendMode >= b.blendMode

\* The square of the distance, its weights to four places.
distance(a, b) ==
  894 * (red(a) - red(b)) * (red(a) - red(b))
  + 3446 * (green(a) - green(b)) * (green(a) - green(b))
  + 130 * (blue(a) - blue(b)) * (blue(a) - blue(b))

\* The first colour of a palette that is nearest.
nearest(palette, c) ==
  CHOOSE i \in DOMAIN palette :
    /\ \A j \in DOMAIN palette : distance(c, palette[i]) <= distance(c, palette[j])
    /\ \A j \in DOMAIN palette : j < i => distance(c, palette[i]) < distance(c, palette[j])

\* getColorIndex(): m_colorsCache is a map ordered by Color's <.  Returns the cache and the
\* indices it can answer with.
getColorIndex(cache, palette, c) ==
  LET found == {e \in cache : ~colorLess(e.color, c) /\ ~colorLess(c, e.color)}
  IN IF found # {} THEN [cache |-> cache, index |-> {e.index : e \in found}]
     ELSE LET i == nearest(palette, c)
          IN [cache |-> cache \cup {[color |-> c, index |-> i]}, index |-> {i}]

-----------------------------------------------------------------------------
(* What is expected of them.                                               *)

\* The five operators are one total order.
VersionsAreOrdered(a, b, c) ==
  /\ versionLess(a, b) \/ versionEqual(a, b) \/ versionGreater(a, b)
  /\ versionLess(a, b) => ~versionGreater(a, b) /\ ~versionEqual(a, b)
  /\ versionLess(a, b) <=> versionGreater(b, a)
  /\ versionAtMost(a, b) <=> versionLess(a, b) \/ versionEqual(a, b)
  /\ versionAtLeast(a, b) <=> ~versionLess(a, b)
  /\ versionLess(a, b) /\ versionLess(b, c) => versionLess(a, c)

\* < on descriptors is an order whose ties are an equivalence, so that a map can be kept by
\* it, and ties have the same name and product: the entry that is found for a device is one
\* of its kind.  (It may be that of another unit: see descriptorLess.)
DescriptorsAreOrdered(a, b, c) ==
  /\ ~descriptorLess(a, a)
  /\ descriptorLess(a, b) /\ descriptorLess(b, c) => descriptorLess(a, c)
  /\ tied(a, b) /\ tied(b, c) => tied(a, c)
  /\ tied(a, b) => a.name = b.name /\ isSameProduct(a, b)

\* In whatever order two classes are registered, a device gets that of its product; the
\* descriptor of the class, asked as a policy without a name, lets it through.
FactoryFindsClass(a, b, c) ==
  LET registry == registerClass(registerClass({}, a, "a"), b, "b")
      policy == [names |-> {AnyName}, type |-> a.type, vendorId |-> a.vendorId,
                 productId |-> a.productId]
  IN /\ isKnownDevice(registry, c) <=> isSameProduct(a, c) \/ isSameProduct(b, c)
     /\ isSameProduct(a, c) /\ ~isSameProduct(b, c) =>
          device(registry, c) = "a" /\ matches(policy, c)
     /\ isSameProduct(b, c) /\ ~isSameProduct(a, c) => device(registry, c) = "b"

\* The comparisons of colours agree with each other, and are partial orders only.
ColorsArePartlyOrdered(a, b, c) ==
  /\ colorLess(a, b) => colorAtMost(a, b) /\ a # b /\ ~colorLess(b, a)
  /\ colorLess(a, b) <=> colorGreater(b, a)
  /\ colorAtMost(a, b) <=> colorAtLeast(b, a)
  /\ colorAtMost(a, b) /\ colorAtMost(b, a) => getValue(a) = getValue(b) /\ a.mono = b.mono
  /\ colorLess(a, b) /\ colorLess(b, c) => colorLess(a, c)
  /\ colorAtMost(a, b) /\ colorAtMost(b, c) => colorAtMost(a, c)

\* Asked for greys in any order, Push's cache answers with the nearest colour.  (It does not
\* for colours: two that are equally bright tie.)
GreysAreFound(palette, u, v, w) ==
  LET one == getColorIndex({}, palette, grey(u))
      two == getColorIndex(one.cache, palette, grey(v))
      three == getColorIndex(two.cache, palette, grey(w))
  IN two.index = {nearest(palette, grey(v))} /\ three.index = {nearest(palette, grey(w))}

=============================================================================
