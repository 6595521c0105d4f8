SPECIFICATION Spec

CONSTANTS
  Depth = 2
  MaxItems = 2
  Objects <- ShapeObjects
  box = "box"
  Types <- ShapeTypes
  CopyTypes <- ShapeCopyTypes
  Values <- ShapeValues
  Pointees <- ShapePointees
  Nesting <- ShapeNesting
  HeapsWith <- ShapeHeapsWith

INVARIANTS
  BlackIsScanned
  MarksExactly

PROPERTIES
  TraceEnds
