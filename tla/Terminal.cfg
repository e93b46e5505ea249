SPECIFICATION Spec
CONSTANTS
  Readers = {r1, r2}
  Handler = h
  Writers = {w1}
  Plain = {"a"}
  INPUT_BUF_SIZE = 2
  UINT = 4
  MaxN = 2
  UART_TX_BUF_SIZE = 1
  DEPTH = 3
  None = None
VIEW TerminalView
SYMMETRY TerminalSymmetry
INVARIANTS
  InputIsReadable
  NoOverrun
  OutputNotStuck
PROPERTY
  EditsLines
