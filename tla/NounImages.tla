------------------------------ MODULE NounImages ------------------------------
(***************************************************************************)
(* How a part of a noun travels from a PNG to a picture: the SDK's encoder *)
(* cuts the image to its bounds, translates colors to indexes of a palette *)
(* that all images of the collection share, and run-length encodes across  *)
(* lines; buildSVG decodes it into rectangles.                             *)
(*                                                                         *)
(* An image is a function from pixels <<x, y>> to [color, alpha]; a byte   *)
(* is 0 .. MaxByte, and what is encoded is the list of bytes.              *)
(***************************************************************************)
EXTENDS Integers, Sequences, FiniteSetsExt

CONSTANTS
  MaxByte,    \* the longest run, and what toPaddedHex writes in two digits, 255 in the code
  Sizes,      \* the <<width, height>> of the images
  Colors,
  MaxImages   \* bound: the images of the collection

\* the transparent color is no color of a pixel; what is not asserted anywhere but
\* holds of the images there are: sizes and indexes of the palette fit in a byte
ASSUME ImageConstants ==
  /\ MaxByte \in Nat \ {0} /\ MaxImages \in Nat
  /\ Sizes \subseteq (1 .. MaxByte) \X (1 .. MaxByte)
  /\ "" \notin Colors /\ IsFiniteSet(Colors) /\ Cardinality(Colors) <= MaxByte

VARIABLES
  colors,     \* the encoder's Map, in the order of insertion
  pngs,       \* the images given to encodeImage
  encoded     \* what it returned

imageVars == <<colors, pngs, encoded>>

Images(w, h) == [(0 .. w - 1) \X (0 .. h - 1) -> [color : Colors, alpha : {0, 1}]]

Opaque(image) == {p \in DOMAIN image : image[p].alpha # 0}

\* the bottom row is never left out, the columns all are if nothing is opaque
calcBounds(image) ==
  LET rows    == {p[2] : p \in Opaque(image)}
      columns == {p[1] : p \in Opaque(image)}
  IN  IF rows = {} THEN [top |-> 0, bottom |-> 0, left |-> 0, right |-> 0]
      ELSE [top |-> Min(rows), bottom |-> Max(rows),
            left |-> Min(columns), right |-> Max(columns) + 1]

\* pixel i of the bounded image, line by line
PixelAt(bounds, i) ==
  LET width == bounds.right - bounds.left
  IN  <<bounds.left + (i % width), bounds.top + (i \div width)>>

\* the pixels within the bounds, in the order they are read
Scan(image) ==
  LET b == calcBounds(image)
  IN  [i \in 1 .. (b.right - b.left) * (b.bottom - b.top + 1) |-> image[PixelAt(b, i - 1)]]

\* colors.set(hexColor, colors.size), unless it is known
WithColor(palette, color) ==
  IF \E i \in 1 .. Len(palette) : palette[i] = color THEN palette ELSE Append(palette, color)

\* transparent pixels included
Inserted(palette, pixels) ==
  LET known[i \in 0 .. Len(pixels)] ==
        IF i = 0 THEN palette ELSE WithColor(known[i - 1], pixels[i].color)
  IN  known[Len(pixels)]

Index(palette, pixel) ==
  IF pixel.alpha = 0 THEN 0
  ELSE (CHOOSE i \in 1 .. Len(palette) : palette[i] = pixel.color) - 1

\* <<count, index>> pairs; a run ends when it has as many pixels as allowed
WithPixel(runs, index, longest) ==
  LET last == Len(runs) IN
  IF last > 0 /\ runs[last][2] = index /\ runs[last][1] < longest
  THEN [runs EXCEPT ![last] = <<runs[last][1] + 1, index>>]
  ELSE Append(runs, <<1, index>>)

\* seeded error: a run may be one longer than a byte can say
encodeOverlong(data) ==
  LET runs[i \in 0 .. Len(data)] ==
        IF i = 0 THEN <<>> ELSE WithPixel(runs[i - 1], data[i], MaxByte + 1)
  IN  runs[Len(data)]

encode(data) ==
  LET runs[i \in 0 .. Len(data)] ==
        IF i = 0 THEN <<>> ELSE WithPixel(runs[i - 1], data[i], MaxByte)
  IN  runs[Len(data)]

\* toPaddedHex and parseInt of two digits: a number beyond a byte, which a longer
\* run would need, loses its first digit
Byte(n) == n % (MaxByte + 1)

\* the pairs, one after the other
Flattened(runs) ==
  [k \in 1 .. 2 * Len(runs) |-> Byte(runs[(k + 1) \div 2][IF k % 2 = 1 THEN 1 ELSE 2])]

toRLE(image, palette) ==
  LET indexes == [i \in DOMAIN Scan(image) |-> Index(palette, Scan(image)[i])]
      bounds  == calcBounds(image)
  IN  <<0, Byte(bounds.top), Byte(bounds.right), Byte(bounds.bottom), Byte(bounds.left)>>
        \o Flattened(encode(indexes))

-------------------------------------------------------------------------------
(* Decoding *)

decodeImage(data) ==
  [bounds |-> [top |-> data[2], right |-> data[3], bottom |-> data[4], left |-> data[5]],
   rects  |-> [i \in 1 .. (Len(data) - 5) \div 2 |-> <<data[4 + 2 * i], data[5 + 2 * i]>>]]

\* a run is drawn from where the last one ended, line after line, as rectangles
\* unless it is transparent; the picture is a function from pixels to colors
WithRun(svg, run, bounds, palette) ==
  LET pixels == {PixelAt(bounds, k) : k \in svg.at .. svg.at + run[1] - 1}
  IN  [at    |-> svg.at + run[1],
       drawn |-> IF run[2] = 0 THEN svg.drawn
                 ELSE [p \in pixels \cup DOMAIN svg.drawn |->
                         IF p \in pixels THEN palette[run[2] + 1] ELSE svg.drawn[p]]]

buildSVG(data, palette) ==
  LET image == decodeImage(data)
      svg[i \in 0 .. Len(image.rects)] ==
        IF i = 0 THEN [at |-> 0, drawn |-> [p \in {} |-> ""]]
        ELSE WithRun(svg[i - 1], image.rects[i], image.bounds, palette)
  IN  svg[Len(image.rects)].drawn

-------------------------------------------------------------------------------
(* The collection *)

ImagesInit ==
  /\ colors = <<"">>
  /\ pngs = <<>>
  /\ encoded = <<>>

encodeImage(image) ==
  /\ Len(pngs) < MaxImages
  /\ colors' = Inserted(colors, Scan(image))
  /\ pngs' = Append(pngs, image)
  /\ encoded' = Append(encoded, toRLE(image, colors'))

ImagesNext == \E size \in Sizes : \E image \in Images(size[1], size[2]) : encodeImage(image)

(***************************************************************************)
(* Every image of a collection, the early ones after later images have     *)
(* added their colors too, is drawn again pixel by pixel: the opaque ones  *)
(* in their color, the transparent ones not at all, whatever its empty     *)
(* margins, the length of its runs and where they break across lines.      *)
(***************************************************************************)
ImagesSurvive ==
  \A i \in DOMAIN pngs :
    buildSVG(encoded[i], colors) = [p \in Opaque(pngs[i]) |-> pngs[i][p].color]
===============================================================================
