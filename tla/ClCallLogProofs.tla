-------------------------- MODULE ClCallLogProofs --------------------------
(***************************************************************************)
(* Proofs about ClCallLog for any threads, any functions of the runtime    *)
(* they call and any statuses the driver returns.                          *)
(***************************************************************************)
EXTENDS ClCallLog, TLAPS

-----------------------------------------------------------------------------
(* The handlers.                                                           *)

\* Pointers that no collector replaces.
Kept ==
  {"options", "kernelName", "kernelNames", "funcName", "kernel", "globalWorkOffset",
   "globalWorkSize", "localWorkSize"}
Replaced == {"event", "properties", "errcodeRet"}

\* The two handlers of a function agree: an exit handler takes the status from errcodeRet
\* when the enter handler provides for it.  Only pointers that are kept are read through.
Agree(h) ==
  /\ h.prints \subseteq Replaced
  /\ h.reads \subseteq Kept
  /\ h.status \in {"return value", "errcodeRet", "none"}
  /\ IF "errcodeRet" \in h.prints THEN h.substitutes = TRUE /\ h.status = "errcodeRet"
     ELSE h.substitutes = FALSE /\ h.status # "errcodeRet"

LEMMA ReturnsAgrees ==
  ASSUME NEW prints \in SUBSET {"event"}, NEW reads \in SUBSET Kept
  PROVE  Agree(Returns(prints, reads))
<1>. DEFINE h == Returns(prints, reads)
<1>1. h.prints = prints /\ h.reads = reads /\ h.substitutes = FALSE /\ h.status = "return value"
  BY DEF Returns
<1>2. prints \subseteq Replaced /\ "errcodeRet" \notin prints
  BY DEF Replaced
<1>. HIDE DEF h
<1>. QED  BY <1>1, <1>2 DEF Agree, h

LEMMA CreatesAgrees ==
  ASSUME NEW prints \in SUBSET Replaced, "errcodeRet" \in prints, NEW reads \in SUBSET Kept
  PROVE  Agree(Creates(prints, reads))
<1>. DEFINE h == Creates(prints, reads)
<1>1. h.prints = prints /\ h.reads = reads /\ h.substitutes = TRUE /\ h.status = "errcodeRet"
  BY DEF Creates
<1>. HIDE DEF h
<1>. QED  BY <1>1 DEF Agree, h

LEMMA SilentAgrees ==
  ASSUME NEW reads \in SUBSET Kept
  PROVE  Agree(Silent({}, reads))
<1>. DEFINE h == Silent({}, reads)
<1>1. h.prints = {} /\ h.reads = reads /\ h.substitutes = FALSE /\ h.status = "none"
  BY DEF Silent
<1>. HIDE DEF h
<1>. QED  BY <1>1 DEF Agree, h

AllHandlers ==
  {clCreateContext, clCreateContextFromType, clCreateSubDevices,
   clGetContextInfo, clGetDeviceAndHostTimer, clGetDeviceIDs, clGetDeviceInfo, clGetHostTimer,
   clGetPlatformIDs, clGetPlatformInfo, clReleaseContext, clReleaseDevice, clRetainContext,
   clRetainDevice, clUnloadPlatformCompiler, clCreateCommandQueue,
   clCreateCommandQueueWithProperties, clCreateUserEvent, clFinish, clFlush,
   clGetCommandQueueInfo, clGetEventInfo, clGetEventProfilingInfo, clReleaseCommandQueue,
   clReleaseEvent, clRetainCommandQueue, clRetainEvent, clSetCommandQueueProperty,
   clSetDefaultDeviceCommandQueue, clSetEventCallback, clSetUserEventStatus, clWaitForEvents,
   clEnqueueAcquireGLObjects, clEnqueueBarrier, clEnqueueBarrierWithWaitList,
   clEnqueueCopyBuffer, clEnqueueCopyBufferRect, clEnqueueCopyBufferToImage, clEnqueueCopyImage,
   clEnqueueCopyImageToBuffer, clEnqueueFillBuffer, clEnqueueFillImage, clEnqueueMapBuffer,
   clEnqueueMapImage, clEnqueueMarker, clEnqueueMarkerWithWaitList, clEnqueueMigrateMemObjects,
   clEnqueueNDRangeKernel, clEnqueueNativeKernel, clEnqueueReadBuffer, clEnqueueReadBufferRect,
   clEnqueueReadImage, clEnqueueReleaseGLObjects, clEnqueueSVMFree, clEnqueueSVMMap,
   clEnqueueSVMMemFill, clEnqueueSVMMemcpy, clEnqueueSVMMigrateMem, clEnqueueSVMUnmap,
   clEnqueueTask, clEnqueueUnmapMemObject, clEnqueueWaitForEvents, clEnqueueWriteBuffer,
   clEnqueueWriteBufferRect, clEnqueueWriteImage, clBuildProgram, clCloneKernel,
   clCompileProgram, clCreateKernel, clCreateKernelsInProgram, clCreateProgramWithBinary,
   clCreateProgramWithBuiltInKernels, clCreateProgramWithIL, clCreateProgramWithSource,
   clGetKernelArgInfo, clGetKernelInfo, clGetKernelSubGroupInfo, clGetKernelWorkGroupInfo,
   clGetProgramBuildInfo, clGetProgramInfo, clLinkProgram, clReleaseKernel, clReleaseProgram,
   clRetainKernel, clRetainProgram, clSetKernelArg, clSetKernelArgSVMPointer,
   clSetKernelExecInfo, clUnloadCompiler, clCreateBuffer, clCreateFromGLBuffer,
   clCreateFromGLRenderbuffer, clCreateFromGLTexture, clCreateFromGLTexture2D,
   clCreateFromGLTexture3D, clCreateImage, clCreateImage2D, clCreateImage3D, clCreatePipe,
   clCreateSampler, clCreateSamplerWithProperties, clCreateSubBuffer, clGetGLObjectInfo,
   clGetGLTextureInfo, clGetImageInfo, clGetMemObjectInfo, clGetPipeInfo, clGetSamplerInfo,
   clGetSupportedImageFormats, clReleaseMemObject, clReleaseSampler, clRetainMemObject,
   clRetainSampler, clSVMAlloc, clSVMFree, clSetMemObjectDestructorCallback,
   clGetExtensionFunctionAddress, clGetExtensionFunctionAddressForPlatform}

LEMMA HandlersAgree == \A f \in DOMAIN OnEnterFunction : Agree(OnEnterFunction[f])
<1>1. \A f \in DOMAIN OnEnterFunction : OnEnterFunction[f] \in AllHandlers
  BY DEF OnEnterFunction, AllHandlers
<1>2. /\ Agree(Returns({}, {})) /\ Agree(Returns({}, {"options"}))
      /\ Agree(Returns({"event"}, {})) /\ Agree(Returns({"event"}, {"kernel"}))
      /\ Agree(Returns({"event"},
                       {"kernel", "globalWorkOffset", "globalWorkSize", "localWorkSize"}))
  BY ReturnsAgrees DEF Kept
<1>3. Agree(Silent({}, {})) /\ Agree(Silent({}, {"funcName"}))
  BY SilentAgrees DEF Kept
<1>4. /\ Agree(Creates({"errcodeRet"}, {})) /\ Agree(Creates({"errcodeRet"}, {"kernelName"}))
      /\ Agree(Creates({"errcodeRet"}, {"kernelNames"}))
      /\ Agree(Creates({"errcodeRet"}, {"options"}))
      /\ Agree(Creates({"event", "errcodeRet"}, {}))
      /\ Agree(Creates({"properties", "errcodeRet"}, {}))
  BY CreatesAgrees DEF Kept, Replaced
<1>5. \A h \in AllHandlers : Agree(h)
  BY <1>2, <1>3, <1>4 DEF AllHandlers,
     clCreateContext, clCreateContextFromType, clCreateSubDevices, clGetContextInfo,
     clGetDeviceAndHostTimer, clGetDeviceIDs, clGetDeviceInfo, clGetHostTimer, clGetPlatformIDs,
     clGetPlatformInfo, clReleaseContext, clReleaseDevice, clRetainContext, clRetainDevice,
     clUnloadPlatformCompiler, clCreateCommandQueue, clCreateCommandQueueWithProperties,
     clCreateUserEvent, clFinish, clFlush, clGetCommandQueueInfo, clGetEventInfo,
     clGetEventProfilingInfo, clReleaseCommandQueue, clReleaseEvent, clRetainCommandQueue,
     clRetainEvent, clSetCommandQueueProperty, clSetDefaultDeviceCommandQueue,
     clSetEventCallback, clSetUserEventStatus, clWaitForEvents, clEnqueueAcquireGLObjects,
     clEnqueueBarrier, clEnqueueBarrierWithWaitList, clEnqueueCopyBuffer,
     clEnqueueCopyBufferRect, clEnqueueCopyBufferToImage, clEnqueueCopyImage,
     clEnqueueCopyImageToBuffer, clEnqueueFillBuffer, clEnqueueFillImage, clEnqueueMapBuffer,
     clEnqueueMapImage, clEnqueueMarker, clEnqueueMarkerWithWaitList,
     clEnqueueMigrateMemObjects, clEnqueueNDRangeKernel, clEnqueueNativeKernel,
     clEnqueueReadBuffer, clEnqueueReadBufferRect, clEnqueueReadImage,
     clEnqueueReleaseGLObjects, clEnqueueSVMFree, clEnqueueSVMMap, clEnqueueSVMMemFill,
     clEnqueueSVMMemcpy, clEnqueueSVMMigrateMem, clEnqueueSVMUnmap, clEnqueueTask,
     clEnqueueUnmapMemObject, clEnqueueWaitForEvents, clEnqueueWriteBuffer,
     clEnqueueWriteBufferRect, clEnqueueWriteImage, clBuildProgram, clCloneKernel,
     clCompileProgram, clCreateKernel, clCreateKernelsInProgram, clCreateProgramWithBinary,
     clCreateProgramWithBuiltInKernels, clCreateProgramWithIL, clCreateProgramWithSource,
     clGetKernelArgInfo, clGetKernelInfo, clGetKernelSubGroupInfo, clGetKernelWorkGroupInfo,
     clGetProgramBuildInfo, clGetProgramInfo, clLinkProgram, clReleaseKernel, clReleaseProgram,
     clRetainKernel, clRetainProgram, clSetKernelArg, clSetKernelArgSVMPointer,
     clSetKernelExecInfo, clUnloadCompiler, clCreateBuffer, clCreateFromGLBuffer,
     clCreateFromGLRenderbuffer, clCreateFromGLTexture, clCreateFromGLTexture2D,
     clCreateFromGLTexture3D, clCreateImage, clCreateImage2D, clCreateImage3D, clCreatePipe,
     clCreateSampler, clCreateSamplerWithProperties, clCreateSubBuffer, clGetGLObjectInfo,
     clGetGLTextureInfo, clGetImageInfo, clGetMemObjectInfo, clGetPipeInfo, clGetSamplerInfo,
     clGetSupportedImageFormats, clReleaseMemObject, clReleaseSampler, clRetainMemObject,
     clRetainSampler, clSVMAlloc, clSVMFree, clSetMemObjectDestructorCallback,
     clGetExtensionFunctionAddress, clGetExtensionFunctionAddressForPlatform
<1>. QED  BY <1>1, <1>5

\* What the kernel collector records returns its status, and has an event.
LEMMA InstrumentedHandlers ==
  ASSUME NEW f \in Instrumented
  PROVE  /\ f \in DOMAIN OnEnterFunction
         /\ OnEnterFunction[f].prints = {"event"} /\ OnEnterFunction[f].status = "return value"
<1>1. f \in DOMAIN OnEnterFunction
  BY DEF OnEnterFunction, Instrumented
<1>2. \E reads \in {{}, {"kernel"}, {"kernel", "globalWorkOffset", "globalWorkSize", "localWorkSize"}} :
        OnEnterFunction[f] = Returns({"event"}, reads)
  BY DEF OnEnterFunction, Instrumented,
     clEnqueueNDRangeKernel, clEnqueueTask, clEnqueueReadBuffer, clEnqueueWriteBuffer,
     clEnqueueCopyBuffer, clEnqueueFillBuffer, clEnqueueReadBufferRect,
     clEnqueueWriteBufferRect, clEnqueueReadImage, clEnqueueWriteImage, clEnqueueCopyImage,
     clEnqueueFillImage, clEnqueueCopyImageToBuffer, clEnqueueCopyBufferToImage
<1>3. ASSUME NEW reads
      PROVE  Returns({"event"}, reads).prints = {"event"}
             /\ Returns({"event"}, reads).status = "return value"
  BY DEF Returns
<1>. QED  BY <1>1, <1>2, <1>3

-----------------------------------------------------------------------------
(* The inductive invariant: what every part of the callbacks leaves behind *)
(* of a call, until it returns.                                            *)

TypeOK ==
  /\ enabled \in BOOLEAN /\ kernel_tracing \in BOOLEAN
  /\ current_error \in [Threads -> Statuses]
  /\ thr \in [Threads -> {Idle} \cup UNION {CallType(f) : f \in DOMAIN OnEnterFunction}]

\* The pointers the driver gets.
Passed(c, p) ==
  IF p = "errcodeRet" /\ c.traced /\ c.args[p] = "null" THEN "current_error"
  ELSE IF p = "event" /\ kernel_tracing /\ c.fn \in Instrumented /\ c.args[p] = "null"
    THEN "enqueue_data"
  ELSE IF p = "properties" /\ kernel_tracing THEN "profiling"
  ELSE c.args[p]

ParamsPassed(c) == \A p \in Pointers(c.fn) : c.params[p] = Passed(c, p)

Leads(c, p, place) == p \in Pointers(c.fn) /\ c.params[p] = place

\* What the driver leaves behind.
DriverDone(t, c) ==
  c.site # "driver" =>
    /\ c.status \in Statuses
    /\ c.seen.error = IF Leads(c, "errcodeRet", "application") THEN c.status ELSE None
    /\ c.seen.event <=> Leads(c, "event", "application") /\ c.status = Success
    /\ Leads(c, "errcodeRet", "current_error") => current_error[t] = c.status

IInv ==
  /\ TypeOK
  /\ NoNullDereference /\ StatusShown /\ ArgumentsShown
  /\ \A t \in Threads : thr[t] # Idle => ParamsPassed(thr[t]) /\ DriverDone(t, thr[t])

\* A call in progress is of a function with handlers.
LEMMA CallTyped ==
  ASSUME TypeOK, NEW t \in Threads, thr[t] # Idle
  PROVE  thr[t].fn \in DOMAIN OnEnterFunction /\ thr[t] \in CallType(thr[t].fn)
<1>1. PICK f \in DOMAIN OnEnterFunction : thr[t] \in CallType(f)
  BY DEF TypeOK
<1>2. thr[t].fn = f
  BY <1>1 DEF CallType
<1>. QED  BY <1>1, <1>2

\* Pointers of a function are printed ones or read through, the latter kept.
LEMMA PointersOf ==
  ASSUME NEW f \in DOMAIN OnEnterFunction
  PROVE  /\ OnEnterFunction[f].prints \subseteq Replaced
         /\ OnEnterFunction[f].reads \subseteq Kept /\ Kept \cap Replaced = {}
         /\ OnEnterFunction[f].substitutes <=> "errcodeRet" \in Pointers(f)
         /\ OnExitFunction(f).status = "errcodeRet" <=> "errcodeRet" \in Pointers(f)
<1>1. Agree(OnEnterFunction[f])
  BY HandlersAgree
<1>2. Kept \cap Replaced = {} /\ "errcodeRet" \notin Kept
  BY DEF Kept, Replaced
<1>. QED  BY <1>1, <1>2 DEF Agree, Pointers, OnExitFunction

-----------------------------------------------------------------------------
(* The invariant holds at first and is preserved by every step.            *)

LEMMA InitInv == Init => IInv
<1>. SUFFICES ASSUME Init PROVE IInv
  OBVIOUS
<1>1. \A t \in Threads : thr[t] = Idle
  BY DEF Init
<1>2. TypeOK
  BY CallAssumption DEF Init, TypeOK
<1>. QED
  BY <1>1, <1>2 DEF IInv, NoNullDereference, StatusShown, ArgumentsShown

\* The pointers after the enter callbacks, of a call that is traced.
LEMMA EnterParams ==
  ASSUME TypeOK, NEW f \in DOMAIN OnEnterFunction,
         NEW args \in [Pointers(f) -> {"null", "application"}], NEW traced \in BOOLEAN
  PROVE  LET params == IF traced THEN Substitute(f, Instrument(f, args)) ELSE Instrument(f, args)
             c == [fn |-> f, traced |-> traced, args |-> args]
         IN  /\ params \in [Pointers(f) -> Place]
             /\ \A p \in Pointers(f) : params[p] = Passed(c, p)
<1>. DEFINE before == Instrument(f, args)
            after == Substitute(f, before)
            c == [fn |-> f, traced |-> traced, args |-> args]
<1>1. /\ before \in [Pointers(f) -> Place]
      /\ \A p \in Pointers(f) : before[p] =
           IF kernel_tracing /\ p = "event" /\ f \in Instrumented /\ args[p] = "null"
             THEN "enqueue_data"
           ELSE IF kernel_tracing /\ p = "properties" THEN "profiling" ELSE args[p]
  BY DEF Instrument, Place
<1>. HIDE DEF before
<1>2. /\ after \in [Pointers(f) -> Place]
      /\ \A p \in Pointers(f) : after[p] =
           IF p = "errcodeRet" /\ before[p] = "null" THEN "current_error" ELSE before[p]
  BY <1>1, PointersOf DEF Substitute, Place
<1>. HIDE DEF after
<1>3. c.fn = f /\ c.traced = traced /\ c.args = args
  OBVIOUS
<1>. HIDE DEF c
<1>4. \A p \in Pointers(f) : (IF traced THEN after ELSE before)[p] = Passed(c, p)
  <2>1. CASE traced
    BY <1>1, <1>2, <1>3, <2>1 DEF Passed
  <2>2. CASE ~traced
    BY <1>1, <1>3, <2>2 DEF Passed
  <2>. QED  BY <2>1, <2>2
<1>. QED  BY <1>1, <1>2, <1>4 DEF before, after, c

\* Where a thread is in no call but t, all the others stay as they are.
LEMMA OthersKeep ==
  ASSUME IInv, NEW t \in Threads, NEW u \in Threads, u # t, thr'[u] = thr[u],
         kernel_tracing' = kernel_tracing, current_error'[u] = current_error[u], thr[u] # Idle
  PROVE  /\ ParamsPassed(thr[u])' /\ DriverDone(u, thr[u])'
         /\ Followable(thr'[u])
         /\ (thr'[u].site = "done" /\ thr'[u].traced /\ OnExitFunction(thr'[u].fn).status # "none"
               => thr'[u].shown = thr'[u].status)
         /\ \A p \in DOMAIN thr'[u].printed :
              \/ thr'[u].printed[p] = thr'[u].args[p]
              \/ kernel_tracing' /\ thr'[u].printed[p] \in {"enqueue_data", "profiling"}
<1>1. ParamsPassed(thr[u])'
  BY DEF IInv, ParamsPassed, Passed
<1>2. DriverDone(u, thr[u])'
  BY DEF IInv, DriverDone, Leads
<1>. QED  BY <1>1, <1>2 DEF IInv, NoNullDereference, StatusShown, ArgumentsShown

\* So a step of t has to be looked at for t only.
LEMMA StepOf ==
  ASSUME IInv, NEW t \in Threads, TypeOK', kernel_tracing' = kernel_tracing,
         \A u \in Threads \ {t} : thr'[u] = thr[u] /\ current_error'[u] = current_error[u],
         thr'[t] # Idle =>
           /\ ParamsPassed(thr[t])' /\ DriverDone(t, thr[t])'
           /\ Followable(thr'[t])
           /\ (thr'[t].site = "done" /\ thr'[t].traced
                 /\ OnExitFunction(thr'[t].fn).status # "none"
                 => thr'[t].shown = thr'[t].status)
           /\ \A p \in DOMAIN thr'[t].printed :
                \/ thr'[t].printed[p] = thr'[t].args[p]
                \/ kernel_tracing' /\ thr'[t].printed[p] \in {"enqueue_data", "profiling"}
  PROVE  IInv'
<1>1. NoNullDereference'
  BY OthersKeep DEF NoNullDereference
<1>2. StatusShown'
  BY OthersKeep DEF StatusShown
<1>3. ArgumentsShown'
  BY OthersKeep DEF ArgumentsShown
<1>4. \A u \in Threads : thr'[u] # Idle => ParamsPassed(thr[u])' /\ DriverDone(u, thr[u])'
  BY OthersKeep
<1>. QED  BY <1>1, <1>2, <1>3, <1>4 DEF IInv

LEMMA EnterFunctionInv ==
  ASSUME IInv, NEW t \in Threads, NEW f \in Functions[t],
         NEW args \in [Pointers(f) -> {"null", "application"}], EnterFunction(t, f, args)
  PROVE  IInv'
<1>. DEFINE before == Instrument(f, args)
            params == IF enabled THEN Substitute(f, before) ELSE before
            printed == IF enabled THEN Printed(f, before) ELSE args
            followed == IF enabled THEN Followed(f, before) ELSE {}
            call == [site |-> "driver", fn |-> f, traced |-> enabled, args |-> args,
                     params |-> params, printed |-> printed, followed |-> followed,
                     status |-> None, seen |-> [error |-> None, event |-> FALSE], shown |-> None]
            c == [fn |-> f, traced |-> enabled, args |-> args]
<1>1. f \in DOMAIN OnEnterFunction /\ enabled \in BOOLEAN /\ TypeOK
  BY CallAssumption DEF IInv, TypeOK
<1>2. /\ params \in [Pointers(f) -> Place]
      /\ \A p \in Pointers(f) : params[p] = Passed(c, p)
  BY <1>1, EnterParams
<1>3. /\ before \in [Pointers(f) -> Place]
      /\ \A p \in Pointers(f) :
           before[p] = args[p] \/ (kernel_tracing /\ before[p] \in {"enqueue_data", "profiling"})
  BY DEF Instrument, Place
<1>4. /\ printed \in [Pointers(f) -> Place]
      /\ \A p \in Pointers(f) :
           printed[p] = args[p] \/ (kernel_tracing /\ printed[p] \in {"enqueue_data", "profiling"})
  BY <1>3 DEF Printed, Place
<1>5. followed \in SUBSET Pointers(f) /\ \A p \in followed : params[p] # "null"
  <2>1. followed \subseteq OnEnterFunction[f].reads /\ \A p \in followed : before[p] # "null"
    BY DEF Followed
  <2>2. \A p \in Pointers(f) : before[p] # "null" => params[p] # "null"
    BY <1>1, <1>3, PointersOf DEF Substitute
  <2>. QED  BY <2>1, <2>2 DEF Pointers
<1>6. thr' = [thr EXCEPT ![t] = call] /\ UNCHANGED <<enabled, kernel_tracing, current_error>>
  BY DEF EnterFunction
<1>. HIDE DEF before, params, printed, followed
<1>7. call \in CallType(f)
  BY <1>1, <1>2, <1>4, <1>5 DEF CallType
<1>8. /\ call.site = "driver" /\ call.fn = f /\ call.traced = enabled /\ call.args = args
      /\ call.params = params /\ call.printed = printed /\ call.followed = followed
  OBVIOUS
<1>9. c.fn = f /\ c.traced = enabled /\ c.args = args
  OBVIOUS
<1>. HIDE DEF call, c
<1>10. /\ thr'[t] = call
       /\ \A u \in Threads \ {t} : thr'[u] = thr[u] /\ current_error'[u] = current_error[u]
  BY <1>1, <1>6 DEF TypeOK
<1>11. TypeOK'
  BY <1>1, <1>6, <1>7 DEF TypeOK
<1>12. ParamsPassed(thr[t])'
  BY <1>2, <1>6, <1>8, <1>9, <1>10 DEF ParamsPassed, Passed
<1>13. DriverDone(t, thr[t])'
  BY <1>8, <1>10 DEF DriverDone
<1>14. DOMAIN printed = Pointers(f)
  BY <1>4
<1>15. Followable(thr'[t])
  BY <1>5, <1>8, <1>10 DEF Followable
<1>. QED  BY <1>4, <1>6, <1>8, <1>10, <1>11, <1>12, <1>13, <1>14, <1>15, StepOf

LEMMA RunInv ==
  ASSUME IInv, NEW t \in Threads, NEW status \in Statuses, Run(t, status)
  PROVE  IInv'
<1>. DEFINE c == thr[t]
            through(p) == IF p \in DOMAIN c.params THEN c.params[p] ELSE "null"
            seen == [error |-> IF through("errcodeRet") = "application" THEN status ELSE None,
                     event |-> through("event") = "application" /\ status = Success]
            call == [c EXCEPT !.site = "kernel", !.status = status, !.seen = seen]
<1>1. /\ c # Idle /\ c.site = "driver"
      /\ current_error' = IF through("errcodeRet") = "current_error"
                            THEN [current_error EXCEPT ![t] = status] ELSE current_error
      /\ UNCHANGED <<enabled, kernel_tracing>>
      /\ thr' = [thr EXCEPT ![t] = call]
  BY DEF Run, Cell
<1>2. c.fn \in DOMAIN OnEnterFunction /\ c \in CallType(c.fn) /\ TypeOK
  BY <1>1, CallTyped DEF IInv
<1>3. /\ DOMAIN c.params = Pointers(c.fn)
      /\ ParamsPassed(c) /\ Followable(c)
      /\ \A p \in DOMAIN c.printed :
           \/ c.printed[p] = c.args[p]
           \/ kernel_tracing /\ c.printed[p] \in {"enqueue_data", "profiling"}
  BY <1>1, <1>2 DEF IInv, CallType, NoNullDereference, ArgumentsShown
<1>4. seen \in [error : Statuses \cup {None}, event : BOOLEAN]
  OBVIOUS
<1>5. seen.error = (IF through("errcodeRet") = "application" THEN status ELSE None)
      /\ (seen.event <=> through("event") = "application" /\ status = Success)
  OBVIOUS
<1>. HIDE DEF seen, c
<1>6. /\ call \in CallType(c.fn)
      /\ call.site = "kernel" /\ call.fn = c.fn /\ call.traced = c.traced /\ call.args = c.args
      /\ call.params = c.params /\ call.printed = c.printed /\ call.followed = c.followed
      /\ call.status = status /\ call.seen = seen
  BY <1>2, <1>4 DEF CallType
<1>. HIDE DEF call
<1>7. /\ thr'[t] = call
      /\ \A u \in Threads \ {t} : thr'[u] = thr[u] /\ current_error'[u] = current_error[u]
  BY <1>1, <1>2 DEF TypeOK
<1>8. TypeOK'
  BY <1>1, <1>2, <1>6 DEF TypeOK
<1>9. ParamsPassed(thr[t])'
  BY <1>1, <1>3, <1>6, <1>7 DEF ParamsPassed, Passed
<1>10. DriverDone(t, thr[t])'
  <2>1. \A place : Leads(c, "errcodeRet", place) <=>
          "errcodeRet" \in DOMAIN c.params /\ c.params["errcodeRet"] = place
    BY <1>3 DEF Leads
  <2>2. Leads(c, "errcodeRet", "current_error") => current_error'[t] = status
    BY <1>1, <1>2, <2>1 DEF TypeOK
  <2>3. seen.error = IF Leads(c, "errcodeRet", "application") THEN status ELSE None
    BY <1>5, <2>1
  <2>4. seen.event <=> Leads(c, "event", "application") /\ status = Success
    BY <1>3, <1>5 DEF Leads
  <2>5. \A p, place : Leads(thr'[t], p, place) <=> Leads(c, p, place)
    BY <1>6, <1>7 DEF Leads
  <2>. QED  BY <1>6, <1>7, <2>2, <2>3, <2>4, <2>5 DEF DriverDone, Leads
<1>11. Followable(thr'[t])
  BY <1>1, <1>3, <1>6, <1>7 DEF Followable, SizeOmitted
<1>. QED  BY <1>1, <1>3, <1>6, <1>7, <1>8, <1>9, <1>10, <1>11, StepOf

LEMMA ExitKernelInv ==
  ASSUME IInv, NEW t \in Threads, ExitKernel(t)
  PROVE  IInv'
<1>. DEFINE c == thr[t]
            more == IF kernel_tracing /\ c.fn \in Instrumented /\ c.status = Success
                      THEN {"event", "globalWorkSize"} \cap DOMAIN c.params
                      ELSE {}
            call == [c EXCEPT !.site = "exit", !.followed = @ \cup more]
<1>1. /\ c # Idle /\ c.site = "kernel"
      /\ UNCHANGED <<enabled, kernel_tracing, current_error>>
      /\ thr' = [thr EXCEPT ![t] = call]
  BY DEF ExitKernel
<1>2. c.fn \in DOMAIN OnEnterFunction /\ c \in CallType(c.fn) /\ TypeOK
  BY <1>1, CallTyped DEF IInv
<1>3. /\ c.params \in [Pointers(c.fn) -> Place] /\ c.args \in [Pointers(c.fn) -> {"null", "application"}]
      /\ ParamsPassed(c) /\ DriverDone(t, c) /\ Followable(c)
      /\ \A p \in DOMAIN c.printed :
           \/ c.printed[p] = c.args[p]
           \/ kernel_tracing /\ c.printed[p] \in {"enqueue_data", "profiling"}
  BY <1>1, <1>2 DEF IInv, CallType, NoNullDereference, ArgumentsShown
<1>4. /\ more \in SUBSET Pointers(c.fn)
      /\ \A p \in more : c.params[p] = "null" => p = "globalWorkSize" /\ c.status = Success
  <2>1. ASSUME kernel_tracing, c.fn \in Instrumented, "event" \in Pointers(c.fn)
        PROVE  c.params["event"] # "null"
    BY <1>3, <2>1 DEF ParamsPassed, Passed
  <2>. QED  BY <1>3, <2>1
<1>. HIDE DEF more, c
<1>5. /\ call \in CallType(c.fn)
      /\ call.site = "exit" /\ call.fn = c.fn /\ call.traced = c.traced /\ call.args = c.args
      /\ call.params = c.params /\ call.printed = c.printed
      /\ call.followed = c.followed \cup more
      /\ call.status = c.status /\ call.seen = c.seen
  BY <1>2, <1>4 DEF CallType
<1>. HIDE DEF call
<1>6. /\ thr'[t] = call
      /\ \A u \in Threads \ {t} : thr'[u] = thr[u] /\ current_error'[u] = current_error[u]
  BY <1>1, <1>2 DEF TypeOK
<1>7. TypeOK'
  BY <1>1, <1>2, <1>5 DEF TypeOK
<1>8. ParamsPassed(thr[t])'
  BY <1>1, <1>3, <1>5, <1>6 DEF ParamsPassed, Passed
<1>9. DriverDone(t, thr[t])'
  BY <1>1, <1>3, <1>5, <1>6 DEF DriverDone, Leads
<1>10. Followable(thr'[t])
  BY <1>1, <1>3, <1>4, <1>5, <1>6 DEF Followable, SizeOmitted
<1>. QED  BY <1>1, <1>3, <1>5, <1>6, <1>7, <1>8, <1>9, <1>10, StepOf

\* The exit line of a call that is traced: an exit handler that looks at errcodeRet
\* finds a place there, of the application's or of the thread's own.
LEMMA ExitLine ==
  ASSUME IInv, NEW t \in Threads, thr[t] # Idle, thr[t].site = "exit", thr[t].traced,
         NEW source, source = OnExitFunction(thr[t].fn).status, source # "none",
         NEW place, place = IF source = "errcodeRet" THEN thr[t].params["errcodeRet"] ELSE "null"
  PROVE  /\ source = "errcodeRet" => place \in {"application", "current_error"}
         /\ Shown(t, source, place) = thr[t].status
<1>1. thr[t].fn \in DOMAIN OnEnterFunction /\ thr[t] \in CallType(thr[t].fn)
  BY CallTyped DEF IInv
<1>2. source \in {"return value", "errcodeRet"}
  <2>1. Agree(OnEnterFunction[thr[t].fn])
    BY <1>1, HandlersAgree
  <2>. QED  BY <2>1 DEF OnExitFunction, Agree
<1>3. ParamsPassed(thr[t]) /\ DriverDone(t, thr[t])
  BY DEF IInv
<1>4. CASE source = "return value"
  BY <1>4 DEF Shown
<1>5. CASE source = "errcodeRet"
  <2>1. "errcodeRet" \in Pointers(thr[t].fn) /\ thr[t].args \in [Pointers(thr[t].fn) -> {"null", "application"}]
    BY <1>1, <1>5, PointersOf DEF CallType
  <2>2. place \in {"application", "current_error"} /\ Leads(thr[t], "errcodeRet", place)
    BY <1>3, <1>5, <2>1 DEF ParamsPassed, Passed, Leads
  <2>3. CASE place = "current_error"
    BY <1>3, <1>5, <2>2, <2>3 DEF DriverDone, Shown, Cell
  <2>4. CASE place = "application"
    BY <1>3, <1>5, <2>2, <2>4 DEF DriverDone, Shown
  <2>. QED  BY <2>2, <2>3, <2>4
<1>. QED  BY <1>2, <1>4, <1>5

LEMMA ExitFunctionInv ==
  ASSUME IInv, NEW t \in Threads, ExitFunction(t)
  PROVE  IInv'
<1>. DEFINE c == thr[t]
            source == OnExitFunction(c.fn).status
            place == IF source = "errcodeRet" THEN c.params["errcodeRet"] ELSE "null"
            more == IF c.traced /\ source = "errcodeRet" THEN {source} ELSE {}
            shown == IF c.traced /\ source # "none" THEN Shown(t, source, place) ELSE None
            call == [c EXCEPT !.site = "done", !.followed = @ \cup more, !.shown = shown]
<1>1. /\ c # Idle /\ c.site = "exit"
      /\ UNCHANGED <<enabled, kernel_tracing, current_error>>
      /\ thr' = [thr EXCEPT ![t] = call]
  BY DEF ExitFunction
<1>2. c.fn \in DOMAIN OnEnterFunction /\ c \in CallType(c.fn) /\ TypeOK
  BY <1>1, CallTyped DEF IInv
<1>3. /\ ParamsPassed(c) /\ DriverDone(t, c) /\ Followable(c)
      /\ \A p \in DOMAIN c.printed :
           \/ c.printed[p] = c.args[p]
           \/ kernel_tracing /\ c.printed[p] \in {"enqueue_data", "profiling"}
  BY <1>1, <1>2 DEF IInv, NoNullDereference, ArgumentsShown
<1>4. c.status \in Statuses
  BY <1>1, <1>3 DEF DriverDone
<1>5. c.traced /\ source # "none" =>
        /\ source = "errcodeRet" => place \in {"application", "current_error"}
        /\ shown = c.status
  BY <1>1, ExitLine
<1>6. /\ more \in SUBSET Pointers(c.fn) /\ \A p \in more : c.params[p] # "null"
      /\ shown \in Statuses \cup {None}
  BY <1>2, <1>4, <1>5, PointersOf
<1>. HIDE DEF more, shown, place, source
<1>7. /\ call \in CallType(c.fn)
      /\ call.site = "done" /\ call.fn = c.fn /\ call.traced = c.traced /\ call.args = c.args
      /\ call.params = c.params /\ call.printed = c.printed
      /\ call.followed = c.followed \cup more
      /\ call.status = c.status /\ call.seen = c.seen /\ call.shown = shown
  BY <1>2, <1>6 DEF CallType
<1>. HIDE DEF call
<1>8. /\ thr'[t] = call
      /\ \A u \in Threads \ {t} : thr'[u] = thr[u] /\ current_error'[u] = current_error[u]
  BY <1>1, <1>2 DEF TypeOK
<1>. HIDE DEF c
<1>9. TypeOK'
  BY <1>1, <1>2, <1>7 DEF TypeOK
<1>10. ParamsPassed(thr[t])'
  BY <1>1, <1>3, <1>7, <1>8 DEF ParamsPassed, Passed
<1>11. DriverDone(t, thr[t])'
  BY <1>1, <1>3, <1>7, <1>8 DEF DriverDone, Leads
<1>12. call.traced /\ OnExitFunction(call.fn).status # "none" => call.shown = call.status
  BY <1>5, <1>7 DEF source
<1>13. Followable(thr'[t])
  BY <1>1, <1>3, <1>6, <1>7, <1>8 DEF Followable, SizeOmitted
<1>. QED  BY <1>1, <1>3, <1>7, <1>8, <1>9, <1>10, <1>11, <1>12, <1>13, StepOf

LEMMA ReturnInv ==
  ASSUME IInv, NEW t \in Threads, Return(t)
  PROVE  IInv'
<1>1. thr' = [thr EXCEPT ![t] = Idle] /\ UNCHANGED <<enabled, kernel_tracing, current_error>>
  BY DEF Return
<1>2. thr'[t] = Idle /\ \A u \in Threads \ {t} : thr'[u] = thr[u]
  BY <1>1 DEF IInv, TypeOK
<1>3. TypeOK'
  BY <1>1 DEF IInv, TypeOK
<1>. QED  BY <1>1, <1>2, <1>3, StepOf

\* The switch of the collection touches no call.
LEMMA CallsKept ==
  ASSUME IInv, UNCHANGED <<kernel_tracing, current_error, thr>>, enabled' \in BOOLEAN
  PROVE  IInv'
<1>1. TypeOK'
  BY DEF IInv, TypeOK
<1>2. NoNullDereference' /\ StatusShown' /\ ArgumentsShown'
  BY DEF IInv, NoNullDereference, StatusShown, ArgumentsShown
<1>3. \A t \in Threads : thr'[t] # Idle => ParamsPassed(thr[t])' /\ DriverDone(t, thr[t])'
  BY DEF IInv, ParamsPassed, Passed, DriverDone, Leads
<1>. QED  BY <1>1, <1>2, <1>3 DEF IInv

LEMMA NextInv ==
  ASSUME IInv, [Next]_vars
  PROVE  IInv'
<1>1. ASSUME NEW t \in Threads, NEW f \in Functions[t],
             NEW args \in [Pointers(f) -> {"null", "application"}], EnterFunction(t, f, args)
      PROVE  IInv'
  BY <1>1, EnterFunctionInv
<1>2. ASSUME NEW t \in Threads, NEW status \in Statuses, Run(t, status)
      PROVE  IInv'
  BY <1>2, RunInv
<1>3. ASSUME NEW t \in Threads, ExitKernel(t)
      PROVE  IInv'
  BY <1>3, ExitKernelInv
<1>4. ASSUME NEW t \in Threads, ExitFunction(t)
      PROVE  IInv'
  BY <1>4, ExitFunctionInv
<1>5. ASSUME NEW t \in Threads, Return(t)
      PROVE  IInv'
  BY <1>5, ReturnInv
<1>6. CASE Toggle
  BY <1>6, CallsKept DEF Toggle, IInv, TypeOK
<1>7. CASE UNCHANGED vars
  BY <1>7, CallsKept DEF vars, IInv, TypeOK
<1>. QED  BY <1>1, <1>2, <1>3, <1>4, <1>5, <1>6, <1>7 DEF Next

LEMMA Invariance == Spec => []IInv
  BY InitInv, NextInv, PTL DEF Spec

-----------------------------------------------------------------------------
(* The theorems.                                                           *)

\* No callback of any of the 118 functions reads through a null pointer, whichever
\* pointers the application leaves null, except that the kernel collector reads
\* the global work size of a kernel the driver has enqueued without one.
THEOREM PointersChecked == Spec => []NoNullDereference
<1>1. IInv => NoNullDereference
  BY DEF IInv
<1>. QED  BY Invariance, <1>1, PTL

\* The exit line of a traced call shows the status of that call, also when the
\* application did not ask for it and while other threads' calls are in progress.
THEOREM StatusOfCall == Spec => []StatusShown
<1>1. IInv => StatusShown
  BY DEF IInv
<1>. QED  BY Invariance, <1>1, PTL

\* The application finds its status and its event where it would without the tracer.
THEOREM ApplicationUndisturbed == Spec => []Transparent
<1>1. IInv => Transparent
  <2>. SUFFICES ASSUME IInv, NEW t \in Threads, thr[t] # Idle, thr[t].site = "done"
                PROVE  /\ "errcodeRet" \in DOMAIN thr[t].args =>
                            thr[t].seen.error
                              = IF thr[t].args["errcodeRet"] = "application" THEN thr[t].status
                                ELSE None
                       /\ "event" \in DOMAIN thr[t].args =>
                            (thr[t].seen.event
                               <=> /\ thr[t].args["event"] = "application"
                                   /\ thr[t].status = Success)
    BY DEF Transparent
  <2>1. thr[t] \in CallType(thr[t].fn)
    BY CallTyped DEF IInv
  <2>2. /\ thr[t].args \in [Pointers(thr[t].fn) -> {"null", "application"}]
        /\ ParamsPassed(thr[t]) /\ DriverDone(t, thr[t])
    BY <2>1 DEF IInv, CallType
  <2>3. ASSUME NEW p \in Pointers(thr[t].fn), p # "properties"
        PROVE  Leads(thr[t], p, "application") <=> thr[t].args[p] = "application"
    BY <2>2, <2>3 DEF ParamsPassed, Passed, Leads
  <2>4. DOMAIN thr[t].args = Pointers(thr[t].fn)
    BY <2>2
  <2>. QED  BY <2>2, <2>3, <2>4 DEF DriverDone
<1>. QED  BY Invariance, <1>1, PTL

\* An enter line shows what the application passed, or what the kernel collector, whose
\* callback comes first, put there.
THEOREM ArgumentsOfCall == Spec => []ArgumentsShown
<1>1. IInv => ArgumentsShown
  BY DEF IInv
<1>. QED  BY Invariance, <1>1, PTL

=============================================================================
