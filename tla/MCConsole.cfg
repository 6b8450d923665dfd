SPECIFICATION Spec
CONSTANTS
  WIDTH = 2
  HEIGHT = 5
  FONT_WIDTH = 1
  FONT_HEIGHT = 2
  Mapped = 20
  BufferSize = 3
  Messages <- MCMessages
  Interrupts <- MCInterrupts
INVARIANTS TypeOK CursorOnScreen WritesMapped
