\* One registry that may start late and go away once.
SPECIFICATION SchemaSpec
CONSTANTS
  stream1 = stream1
  stream2 = stream2
  page1 = page1
  value = value
  Nobody = Nobody
  Decodes = {stream1, stream2}
  Pages = {page1}
  Schemas = {value}
  MaxAttempts = 2
  MaxOutages = 1
INVARIANTS
  StragglersPayForProbes
PROPERTY
  DecodesAgain
