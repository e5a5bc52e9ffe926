\* Words of four bits; up to three transfers of any direction, of lengths at
\* the edges of the buffer, of int and of the word.
SPECIFICATION Spec
CONSTANTS
  WordMod = 16
  IntMax = 7
  BufSize = 4
  XferSize = 2
  Lens = {0, 1, 3, 4, 5, 7, 8, 12, 15}
  MaxSize = 6
INVARIANTS
  TypeOK
  InsideBuffers
  PlacesApart
  OwnBytes
  ResultIsLength
