SPECIFICATION AggregateSpec
CONSTANTS
  Savers = {e1, e2}
  Readers = {q1}
  None = None
INVARIANT LoadsFullAggregate
