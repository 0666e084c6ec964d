\* Sixteen pages of two bytes: no stack, five pages of program, one of heap.
SPECIFICATION Spec
CONSTANTS
  PAGE_SIZE = 2
  AddressWidth = 5
  _KERNEL_VIRT_END = 4
  _TASK_CODE_START = 4
  _TASK_HEAP_END = 14
  ROM_START = 16
  Sizes = {1, 5, 8}
  MaxObjects = 3
PROPERTIES OrderKept AddsOneObject ImplementsAddressSpace
